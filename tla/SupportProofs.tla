---------------------------- MODULE SupportProofs ----------------------------
(***************************************************************************)
(* What is proved of the components that MCSupport instantiates, for every *)
(* value of the constants: the learning loop, the system calls and         *)
(* simulated memory.                                                       *)
(***************************************************************************)
EXTENDS MCSupport, FiniteSetTheorems, WellFoundedInduction, TLAPS

-----------------------------------------------------------------------------
(* Arithmetic of turns *)

(* Two turns that differ by a number of rounds are the same turn.          *)
LEMMA SameTurn ==
    ASSUME NEW n \in Nat \ {0}, NEW a \in 1 .. n, NEW b \in 1 .. n,
           NEW q \in Int, a = b + q * n
    PROVE  a = b
<1>1. q \in Nat \ {0} => q * n >= n
  <2>1. SUFFICES ASSUME q \in Nat \ {0} PROVE q * n >= n
    OBVIOUS
  <2>2. (q - 1) \in Nat /\ (q - 1) * n >= 0
    BY <2>1, SMT
  <2>3. q * n = (q - 1) * n + n
    BY SMT
  <2> QED
    BY <2>2, <2>3, SMT
<1>2. -q \in Nat \ {0} => q * n <= -n
  <2>1. SUFFICES ASSUME -q \in Nat \ {0} PROVE q * n <= -n
    OBVIOUS
  <2>2. (-q - 1) \in Nat /\ (-q - 1) * n >= 0
    BY <2>1, SMT
  <2>3. q * n = -((-q - 1) * n) - n
    BY SMT
  <2> QED
    BY <2>2, <2>3, SMT
<1>3. q = 0 => q * n = 0
  BY SMT
<1>4. q = 0 \/ q \in Nat \ {0} \/ -q \in Nat \ {0}
  BY SMT
<1> DEFINE p == q * n
<1>5. p \in Int /\ a = b + p
  BY SMT
<1>6. p >= n \/ p <= -n \/ p = 0
  BY <1>1, <1>2, <1>3, <1>4
<1> HIDE DEF p
<1> QED
  BY <1>5, <1>6, SMT

LEMMA Rounds ==
    ASSUME NEW n \in Nat \ {0}, NEW q \in Int, NEW k \in Int
    PROVE  /\ (q + 1) * n = q * n + n /\ (q - k) * n = q * n - k * n
           /\ q * n \in Int /\ k * n \in Int /\ 0 * n = 0
BY SMT

(* A number is what its division leaves and a multiple of the divisor.     *)
LEMMA Divided ==
    ASSUME NEW n \in Nat \ {0}, NEW x \in Nat, x % n = 0
    PROVE  \E k \in Int : x = k * n
<1>1. x \div n \in Int /\ x = n * (x \div n) + (x % n)
  BY SMT
<1>2. x = (x \div n) * n
  BY <1>1, SMT
<1> QED
  BY <1>1, <1>2

(* The number of a call of rename in its epoch.                            *)
LEMMA Stepped ==
    ASSUME NEW n \in Nat \ {0}, NEW i \in 0 .. n - 1
    PROVE  /\ i + 1 < n => (i + 1) % n = i + 1
           /\ i + 1 = n => (i + 1) % n = 0
BY SMT

-----------------------------------------------------------------------------
(* The learning loop *)

LoopTypes ==
    /\ loop \in Loops
    /\ j \in 0 .. loop.EPOCH - 1 /\ turn \in L!Cores
    /\ decode_width \in [L!Cores -> Nat]
    /\ pending \in [L!Cores -> 0 .. loop.MaxLatency]
    /\ uncommitted \in [L!Cores -> Nat] /\ starved \in [L!Cores -> Nat]
    /\ action_csv \in [lines : -1 .. 2, last : Nat]
    /\ given \in [core : 0 .. loop.cores, width : Nat]

(* Without a commit a core was starved, or has waited for its oldest       *)
(* instruction.  In the cycle in progress the cores before turn have been  *)
(* served, and the cycle is not yet counted for them.                      *)
Waited(c) == IF pending[c] > 0 THEN loop.MaxLatency - pending[c] + 1 ELSE 0
Served(c) == IF c < turn THEN 1 ELSE 0

NeverIdle ==
    /\ \A c \in L!Cores : uncommitted[c] + Served(c) <= starved[c] + Waited(c)
    /\ aborted => uncommitted[turn] > loop.TIMEOUT

(* From the core that was given an action to the core that goes next there *)
(* are as many turns as calls, in rounds of all cores.                     *)
EpochKept ==
    /\ j > 0 =>
        /\ given.core \in L!Cores /\ given.width = decode_width[given.core]
        /\ \E q \in Int : given.core + j = turn + q * loop.cores
    /\ (loop.EPOCH - 1) % loop.cores = 0 /\ j = 0 /\ data_csv.last # L!NoRow =>
        data_csv.last = given

LoopInv == LoopTypes /\ NeverIdle /\ EpochKept

LEMMA LoopFacts ==
    ASSUME LoopTypes
    PROVE  /\ loop.cores \in Nat \ {0} /\ loop.EPOCH \in Nat \ {0}
           /\ loop.TIMEOUT \in Nat /\ loop.MaxLatency \in Nat \ {0}
           /\ loop.Actions \subseteq Nat /\ loop.Garbage \subseteq Nat
           /\ loop.decode_width \in Nat
BY LoopsAssumption DEF LoopTypes

LEMMA InitLoop == L!Init => LoopInv
<1> SUFFICES ASSUME L!Init PROVE LoopInv
  OBVIOUS
<1>1. /\ loop.cores \in Nat \ {0} /\ loop.EPOCH \in Nat \ {0} /\ loop.MaxLatency \in Nat \ {0}
      /\ loop.Actions \subseteq Nat /\ loop.decode_width \in Nat
  BY LoopsAssumption DEF L!Init
<1>2. LoopTypes
  <2>1. action_csv \in [lines : -1 .. 2, last : Nat]
    BY <1>1 DEF L!Init, L!Missing, L!Lines
  <2>2. given \in [core : 0 .. loop.cores, width : Nat]
    BY <1>1 DEF L!Init, L!NoRow
  <2> QED
    BY <1>1, <2>1, <2>2 DEF L!Init, LoopTypes, L!Cores
<1>3. NeverIdle
  BY <1>1 DEF L!Init, NeverIdle, L!Cores, Waited, Served
<1>4. EpochKept
  BY <1>1 DEF L!Init, EpochKept
<1> QED
  BY <1>2, <1>3, <1>4 DEF LoopInv

(* A cycle of one core.                                                    *)
LEMMA CycleTypes ==
    ASSUME LoopTypes, L!sim_main
    PROVE  LoopTypes'
<1>1. PICK w \in (IF L!EpochStarts THEN L!last_line ELSE {0}), latency \in 0 .. loop.MaxLatency :
        L!Cycle(turn, w, latency)
  BY DEF L!sim_main
<1>2. w \in Nat
  BY <1>1, LoopFacts DEF LoopTypes, L!last_line
<1>3. L!Width(turn, w) \in Nat
  BY <1>2 DEF LoopTypes, L!Width
<1>4. loop' = loop /\ action_csv' = action_csv /\ L!Cores' = L!Cores
  BY DEF L!sim_main, L!Cores
<1>5. j' \in 0 .. loop.EPOCH - 1 /\ turn' \in L!Cores
  <2>1. j' = (j + 1) % loop.EPOCH /\ turn' = IF turn = loop.cores THEN 1 ELSE turn + 1
    BY DEF L!sim_main, L!NextCycle
  <2>2. loop.EPOCH \in Nat \ {0} /\ j \in 0 .. loop.EPOCH - 1
    BY LoopFacts DEF LoopTypes
  <2>3. (j + 1 < loop.EPOCH /\ j' = j + 1) \/ (j + 1 = loop.EPOCH /\ j' = 0)
    BY <2>1, <2>2, Stepped
  <2>4. j' \in 0 .. loop.EPOCH - 1
    BY <2>2, <2>3
  <2>5. turn' \in L!Cores
    BY <2>1, LoopFacts, SMTT(30) DEF LoopTypes, L!Cores
  <2> QED
    BY <2>4, <2>5
<1>6. decode_width' \in [L!Cores -> Nat] /\ pending' \in [L!Cores -> 0 .. loop.MaxLatency]
  BY <1>1, <1>3 DEF L!Cycle, LoopTypes
<1>7. uncommitted' \in [L!Cores -> Nat]
  BY <1>1 DEF L!Cycle, LoopTypes
<1>8. starved' \in [L!Cores -> Nat]
  BY <1>1 DEF L!Cycle, LoopTypes
<1>9. given' \in [core : 0 .. loop.cores, width : Nat]
  BY <1>1, <1>3, LoopFacts DEF L!Cycle, LoopTypes, L!Cores
<1> QED
  BY <1>4, <1>5, <1>6, <1>7, <1>8, <1>9 DEF LoopTypes

LEMMA CycleIdle ==
    ASSUME LoopTypes, NeverIdle, L!sim_main
    PROVE  NeverIdle'
<1>1. PICK w \in (IF L!EpochStarts THEN L!last_line ELSE {0}), latency \in 0 .. loop.MaxLatency :
        L!Cycle(turn, w, latency)
  BY DEF L!sim_main
<1> DEFINE width == L!Width(turn, w)
           left == IF pending[turn] > 0 THEN pending[turn] - 1 ELSE 0
           commits == pending[turn] = 1
           tick == IF turn = loop.cores THEN 1 ELSE 0
<1>2. w \in Nat
  BY <1>1, LoopFacts DEF LoopTypes, L!last_line
<1>3. width \in Nat
  BY <1>2 DEF LoopTypes, L!Width
<1>4. /\ loop' = loop /\ L!Cores' = L!Cores /\ aborted' = aborted /\ ~aborted
      /\ turn' = IF turn = loop.cores THEN 1 ELSE turn + 1
  BY DEF L!sim_main, L!Cores, L!NextCycle
<1>5. /\ turn \in L!Cores /\ loop.MaxLatency \in Nat \ {0} /\ loop.cores \in Nat \ {0}
      /\ uncommitted \in [L!Cores -> Nat] /\ starved \in [L!Cores -> Nat]
      /\ pending \in [L!Cores -> 0 .. loop.MaxLatency]
  BY LoopFacts DEF LoopTypes
<1>6. /\ pending' = [pending EXCEPT ![turn] = latency]
      /\ uncommitted' = [d \in L!Cores |->
            (IF d = turn THEN IF commits THEN 0 ELSE uncommitted[turn] ELSE uncommitted[d]) + tick]
      /\ starved' = [starved EXCEPT ![turn] = (IF commits THEN 0 ELSE @) + (IF width = 0 THEN 1 ELSE 0)]
      /\ latency \in L!Renamed(turn, width, left)
  BY <1>1 DEF L!Cycle, L!NextCycle
<1>7. \/ left > 0 /\ latency = left
      \/ left = 0 /\ width > 0 /\ latency \in 1 .. loop.MaxLatency
      \/ left = 0 /\ width = 0 /\ latency = 0
  BY <1>3, <1>5, <1>6 DEF L!Renamed
<1> HIDE DEF width
<1>8. ASSUME NEW c \in L!Cores
      PROVE  uncommitted'[c] + Served(c)' <= starved'[c] + Waited(c)'
  <2>1. uncommitted[c] + Served(c) <= starved[c] + Waited(c)
    BY DEF NeverIdle
  <2>2. c \in 1 .. loop.cores /\ turn \in 1 .. loop.cores
    BY <1>5 DEF L!Cores
  <2>3. CASE c = turn
    <3>1. Served(c) = 0 /\ tick + Served(c)' = 1
      BY <1>4, <1>5, <2>2, <2>3 DEF Served
    <3>2. Waited(c)' = IF latency > 0 THEN loop.MaxLatency - latency + 1 ELSE 0
      BY <1>4, <1>5, <1>6, <2>3 DEF Waited
    <3>3. /\ uncommitted'[c] = (IF commits THEN 0 ELSE uncommitted[c]) + tick
          /\ starved'[c] = (IF commits THEN 0 ELSE starved[c]) + (IF width = 0 THEN 1 ELSE 0)
      BY <1>5, <1>6, <2>3
    <3>4. uncommitted[c] \in Nat /\ starved[c] \in Nat /\ pending[c] \in 0 .. loop.MaxLatency
      BY <1>5
    <3> QED
      BY <1>3, <1>5, <1>7, <2>1, <2>3, <3>1, <3>2, <3>3, <3>4 DEF Waited, Served
  <2>4. CASE c # turn
    <3>1. tick + Served(c)' = Served(c)
      BY <1>4, <1>5, <2>2, <2>4 DEF Served
    <3>2. Waited(c)' = Waited(c) /\ starved'[c] = starved[c]
      BY <1>4, <1>5, <1>6, <2>4 DEF Waited
    <3>3. uncommitted'[c] = uncommitted[c] + tick
      BY <1>5, <1>6, <2>4
    <3>4. uncommitted[c] \in Nat /\ starved[c] \in Nat /\ Waited(c) \in Nat
      BY <1>5 DEF Waited
    <3> QED
      BY <2>1, <3>1, <3>2, <3>3, <3>4 DEF Served
  <2> QED
    BY <2>3, <2>4
<1> QED
  BY <1>4, <1>8 DEF NeverIdle

LEMMA CycleEpoch ==
    ASSUME LoopTypes, EpochKept, L!sim_main
    PROVE  EpochKept'
<1>1. PICK w \in (IF L!EpochStarts THEN L!last_line ELSE {0}), latency \in 0 .. loop.MaxLatency :
        L!Cycle(turn, w, latency)
  BY DEF L!sim_main
<1> DEFINE row == [core |-> turn, width |-> L!Width(turn, w)]
<1>2. /\ loop' = loop /\ L!Cores' = L!Cores
      /\ turn' = IF turn = loop.cores THEN 1 ELSE turn + 1
      /\ j' = (j + 1) % loop.EPOCH
  BY DEF L!sim_main, L!Cores, L!NextCycle
<1>3. /\ turn \in 1 .. loop.cores /\ loop.cores \in Nat \ {0} /\ loop.EPOCH \in Nat \ {0}
      /\ j \in 0 .. loop.EPOCH - 1 /\ decode_width \in [L!Cores -> Nat]
      /\ L!Cores = 1 .. loop.cores
  BY LoopFacts DEF LoopTypes, L!Cores
<1>4. (j + 1 < loop.EPOCH /\ j' = j + 1) \/ (j + 1 = loop.EPOCH /\ j' = 0)
  BY <1>2, <1>3, Stepped
<1>5. /\ decode_width' = [decode_width EXCEPT ![turn] = row.width]
      /\ given' = IF j = 0 THEN row ELSE given
      /\ j' = 0 => data_csv'.last = row
      /\ j > 0 => row.width = decode_width[turn]
  BY <1>1, <1>2, <1>3 DEF L!Cycle, L!EpochStarts, L!EpochEnds, L!Appended, L!Width
<1>6. /\ given'.core \in L!Cores /\ given'.width = decode_width'[given'.core]
      /\ \E q \in Int : given'.core + j = turn + q * loop.cores
  <2>1. CASE j = 0
    <3>1. given'.core = turn /\ given'.width = row.width
      BY <1>5, <2>1
    <3>2. 0 \in Int /\ given'.core + j = turn + 0 * loop.cores
      BY <1>3, <2>1, <3>1, Rounds
    <3>3. given'.width = decode_width'[given'.core]
      BY <1>3, <1>5, <3>1
    <3> QED
      BY <1>3, <3>1, <3>2, <3>3
  <2>2. CASE j > 0
    <3>1. /\ given.core \in L!Cores /\ given.width = decode_width[given.core]
          /\ \E q \in Int : given.core + j = turn + q * loop.cores
      BY <2>2 DEF EpochKept
    <3>2. given' = given
      BY <1>3, <1>5, <2>2
    <3>3. decode_width'[given.core] = decode_width[given.core]
      BY <1>3, <1>5, <2>2, <3>1
    <3> QED
      BY <3>1, <3>2, <3>3
  <2> QED
    BY <1>3, <2>1, <2>2
<1>7. PICK q \in Int : given'.core + j = turn + q * loop.cores
  BY <1>6
<1> HIDE DEF row
<1> DEFINE g == given'.core
           p == q * loop.cores
<1>8. /\ g \in Int /\ p \in Int /\ j \in Int /\ turn \in Int /\ loop.cores \in Int
      /\ g + j = turn + p
  BY <1>3, <1>6, <1>7, Rounds
<1>9. CASE j + 1 < loop.EPOCH /\ j' = j + 1
  <2>1. \E k \in Int : given'.core + j' = turn' + k * loop.cores
    <3>1. CASE turn = loop.cores
      <4> DEFINE r == (q + 1) * loop.cores
      <4>1. r = p + loop.cores
        BY <1>3, Rounds
      <4>2. turn' = 1
        BY <1>2, <3>1
      <4>3. g + j' = turn' + r
        <5> HIDE DEF g, p, r
        <5> QED
          BY <1>8, <1>9, <3>1, <4>1, <4>2
      <4> QED
        BY <4>3
    <3>2. CASE turn # loop.cores
      <4>1. turn' = turn + 1
        BY <1>2, <3>2
      <4>2. g + j' = turn' + p
        <5> HIDE DEF g, p
        <5> QED
          BY <1>8, <1>9, <4>1
      <4> QED
        BY <4>2
    <3> QED
      BY <3>1, <3>2
  <2>2. j' > 0
    BY <1>3, <1>9
  <2> QED
    BY <1>2, <1>6, <2>1, <2>2 DEF EpochKept
<1>10. CASE j + 1 = loop.EPOCH /\ j' = 0
  <2>1. SUFFICES ASSUME (loop.EPOCH - 1) % loop.cores = 0 PROVE row = given'
    BY <1>2, <1>5, <1>10 DEF EpochKept
  <2>2. \E k \in Int : j = k * loop.cores
    <3>1. j = loop.EPOCH - 1 /\ j \in Nat
      BY <1>3, <1>10
    <3> QED
      BY <1>3, <2>1, <3>1, Divided
  <2>3. PICK k \in Int : j = k * loop.cores
    BY <2>2
  <2>4. given'.core = turn
    <3> DEFINE i == k * loop.cores
               r == (q - k) * loop.cores
    <3>1. r = p - i /\ i \in Int
      BY <1>3, Rounds
    <3>2. g = turn + r
      <4> HIDE DEF g, p, i, r
      <4>1. j = i
        BY <2>3 DEF i
      <4> QED
        BY <1>8, <3>1, <4>1
    <3>3. given'.core \in 1 .. loop.cores /\ q - k \in Int
      BY <1>3, <1>6
    <3>4. \A z \in Int : g = turn + z * loop.cores => g = turn
      BY <1>3, <3>3, SameTurn
    <3> QED
      BY <3>2, <3>3, <3>4
  <2>5. given'.width = row.width
    BY <1>3, <1>5, <1>6, <2>4
  <2>6. given' = [core |-> given'.core, width |-> given'.width]
    BY CycleTypes DEF LoopTypes
  <2> QED
    BY <2>4, <2>5, <2>6 DEF row
<1> QED
  BY <1>4, <1>9, <1>10

LEMMA LoopStays ==
    ASSUME LoopInv, [Next]_vars
    PROVE  LoopInv'
<1> USE DEF LoopInv
<1>1. CASE L!sim_main
  BY <1>1, CycleTypes, CycleIdle, CycleEpoch
<1>2. CASE L!CommitTimeout
  <2>1. LoopTypes' /\ EpochKept'
    BY <1>2 DEF L!CommitTimeout, LoopTypes, EpochKept, L!Cores
  <2>2. NeverIdle'
    <3>1. uncommitted[turn] > loop.TIMEOUT
      BY <1>2, LoopFacts DEF L!CommitTimeout, L!TimedOut, LoopTypes
    <3> QED
      BY <1>2, <3>1 DEF L!CommitTimeout, NeverIdle, Served, Waited, L!Cores
  <2> QED
    BY <2>1, <2>2
<1>3. ASSUME NEW a \in loop.Actions, L!Act(a) PROVE LoopInv'
  <2>1. action_csv' \in [lines : -1 .. 2, last : Nat]
    BY <1>3, LoopFacts DEF L!Act, L!Lines
  <2>2. LoopTypes'
    BY <1>3, <2>1 DEF L!Act, LoopTypes, L!Cores
  <2> QED
    BY <1>3, <2>2 DEF L!Act, NeverIdle, EpochKept, Served, Waited, L!Cores
<1>4. CASE L!LoadCsv
  BY <1>4 DEF L!LoadCsv, LoopTypes, NeverIdle, EpochKept, Served, Waited, L!Cores
<1>5. CASE UNCHANGED learning
  BY <1>5 DEF learning, LoopTypes, NeverIdle, EpochKept, Served, Waited, L!Cores
<1>6. L!Next \/ UNCHANGED learning
  BY DEF Next, vars, MemoryStep, StartupStep, LoopStep, CallStep
<1> QED
  BY <1>1, <1>2, <1>3, <1>4, <1>5, <1>6 DEF L!Next

(* A row of data.csv is about the core and the width that action.csv gave  *)
(* its epoch, where the number of cores divides EPOCH - 1, and only a core *)
(* that was told not to rename ends the simulation: for every number of    *)
(* cores, epoch, timeout and latency, whatever the agent does when.        *)
THEOREM LoopCorrect == Spec => []LoopSound
<1>1. Init => LoopInv
  BY InitLoop DEF Init
<1>2. LoopInv => LoopSound
  <2> SUFFICES ASSUME LoopInv PROVE L!LoopSound
    BY DEF LoopSound
  <2>1. L!RowTellsAction
    BY DEF LoopInv, EpochKept, L!RowTellsAction
  <2>2. L!OnlyStarvedAborts
    <3>1. SUFFICES ASSUME aborted PROVE starved[turn] + loop.MaxLatency >= loop.TIMEOUT
      BY DEF L!OnlyStarvedAborts
    <3>2. /\ uncommitted[turn] + Served(turn) <= starved[turn] + Waited(turn)
          /\ uncommitted[turn] > loop.TIMEOUT
      BY <3>1 DEF LoopInv, LoopTypes, NeverIdle
    <3>3. /\ uncommitted[turn] \in Nat /\ starved[turn] \in Nat /\ loop.TIMEOUT \in Nat
          /\ loop.MaxLatency \in Nat /\ pending[turn] \in 0 .. loop.MaxLatency /\ turn \in Int
      BY LoopFacts DEF LoopInv, LoopTypes, L!Cores
    <3> QED
      BY <3>2, <3>3 DEF Served, Waited
  <2> QED
    BY <2>1, <2>2 DEF L!LoopSound
<1>3. LoopInv /\ [Next]_vars => LoopInv'
  BY LoopStays
<1> QED
  BY <1>1, <1>2, <1>3, PTL DEF Spec

-----------------------------------------------------------------------------
(* System calls *)

(* What a call answers, apart from the state that is kept of programs.     *)
Answered == Y!OnOwnDescriptor /\ Y!ErrorsTold /\ Y!BuffersKept

StateKept ==
    /\ kit \in Kits
    /\ brk \in [Y!Programs -> Nat] /\ gpid \in [Y!Programs -> Nat]
    /\ told \in [Y!Programs -> [brk : Nat, gpid : Nat]]
    /\ \A c \in Y!Programs : brk[c] = told[c].brk /\ gpid[c] = told[c].gpid

CallsInv == StateKept /\ Answered

(* A buffer after a call may be as the host's result r and the call say.   *)
Fits(call, r, buffer) ==
    \A k \in 1 .. Y!Size :
      /\ buffer[k] = "zero" => call \in Y!Clears
      /\ buffer[k] = "junk" => call \in Y!Leaks
      /\ buffer[k] = "new" => r.n # Y!Invalid
      /\ call \in {"read", "recvfrom", "getdirentries", "readv"} /\ k <= r.n => buffer[k] = "new"

(* Every handler ends in Answer, most of them through check_error.         *)
LEMMA AnswerSound ==
    ASSUME NEW c, NEW call, NEW fd, NEW r, NEW buffer, NEW A3, NEW V0,
           Y!Answer(c, call, fd, r, buffer, A3, V0), kit' = kit,
           fd = Y!NoFd \/ call \in Y!Redirected \cup Y!Unlisted \cup {"isatty"},
           call \notin {"setpgid", "audcntl", "profil", "pathconf", "unimplemented", "execve",
                        "isatty", "write"} =>
             (A3 # 0 <=> r.n = Y!Invalid) /\ (A3 # 0 => V0 = r.e),
           call # "write", Fits(call, r, buffer)
    PROVE  Answered'
<1>1. result' = [by |-> c, call |-> call, fd |-> fd, r |-> r, buffer |-> buffer,
                 host |-> IF fd = Y!NoFd THEN Y!NoFd ELSE Y!HostFd(c, call, fd),
                 A3 |-> A3, V0 |-> V0]
  BY DEF Y!Answer
<1>2. /\ result'.by = c /\ result'.call = call /\ result'.fd = fd /\ result'.r = r
      /\ result'.buffer = buffer /\ result'.A3 = A3 /\ result'.V0 = V0
      /\ result'.host = IF fd = Y!NoFd THEN Y!NoFd ELSE Y!HostFd(c, call, fd)
  BY <1>1
<1>3. Y!OnOwnDescriptor'
  BY <1>2 DEF Y!OnOwnDescriptor, Y!HostFd, Y!Known, Y!NoFd
<1>4. Y!ErrorsTold'
  BY <1>2 DEF Y!ErrorsTold, Y!Own, Y!CutShort
<1>5. Y!BuffersKept'
  BY <1>2 DEF Y!BuffersKept, Fits
<1> QED
  BY <1>3, <1>4, <1>5 DEF Answered

LEMMA CheckedSound ==
    ASSUME NEW c, NEW call, NEW fd, NEW r, NEW buffer, NEW V0,
           Y!Checked(c, call, fd, r, buffer, V0), kit' = kit,
           fd = Y!NoFd \/ call \in Y!Redirected \cup Y!Unlisted,
           call \notin {"setpgid", "audcntl"} =>
             (V0 = Y!Invalid <=> r.n = Y!Invalid) /\ (r.n = Y!Invalid => r.e # 0),
           call \notin {"write", "profil", "pathconf", "unimplemented", "execve", "isatty"},
           Fits(call, r, buffer)
    PROVE  Answered'
<1> DEFINE a3 == IF V0 = Y!Invalid THEN -1 ELSE 0
           v0 == IF V0 = Y!Invalid THEN Y!Left(r) ELSE V0
<1>1. Y!Answer(c, call, fd, r, buffer, a3, v0)
  BY DEF Y!Checked
<1>2. call \notin {"setpgid", "audcntl"} =>
        (a3 # 0 <=> r.n = Y!Invalid) /\ (a3 # 0 => v0 = r.e)
  BY DEF Y!Left
<1> HIDE DEF a3, v0
<1> QED
  BY <1>1, <1>2, AnswerSound

(* What the host can say. *)
LEMMA HostSays ==
    /\ \A r \in Y!Amounts : /\ r.n \in 0 .. Y!Size \/ r.n = Y!Invalid
                            /\ r.n = Y!Invalid => r.e # 0
    /\ \A r \in Y!Verdicts : /\ r.n = 0 \/ r.n = Y!Invalid
                             /\ r.n = Y!Invalid => r.e # 0
    /\ Y!Unasked.n = 0 /\ Y!Invalid = -1 /\ Y!Size = 2
BY DEF Y!Amounts, Y!Verdicts, Y!Gives, Y!Fails, Y!Errors, Y!Invalid, Y!Size, Y!Unasked

(* The calls that give the host's number and leave the buffer alone.       *)
LEMMA SimpleSound ==
    ASSUME NEW c, NEW call, NEW fd, NEW r, Y!Simple(c, call, fd, r), kit' = kit,
           fd = Y!NoFd \/ call \in Y!Redirected \cup Y!Unlisted,
           r.n = Y!Invalid => r.e # 0,
           call \notin {"write", "profil", "pathconf", "unimplemented", "execve", "isatty",
                        "read", "recvfrom", "getdirentries", "readv"}
    PROVE  Answered'
<1>1. Y!Checked(c, call, fd, r, Y!Untouched, r.n)
  BY DEF Y!Simple
<1>2. Fits(call, r, Y!Untouched)
  BY DEF Fits, Y!Untouched
<1> QED
  BY <1>1, <1>2, CheckedSound

(* The buffers that calls leave. *)
LEMMA BuffersLeft ==
    /\ \A r \in Y!Amounts : \A call :
         /\ Fits(call, r, Y!Filled(r, "old"))
         /\ call \in Y!Clears => Fits(call, r, Y!Filled(r, "zero"))
    /\ \A r \in Y!Verdicts : \A call :
         /\ call \in Y!Clears \ {"readv"} => Fits(call, r, Y!Struct(r, "zero"))
         /\ call \in Y!Leaks => Fits(call, r, Y!Struct(r, "junk"))
    /\ \A r \in Y!Amounts : Fits("poll", r, Y!Struct(r, "old"))
<1>1. \A r \in Y!Amounts : r.n \in Int /\ (r.n >= 1 => r.n # Y!Invalid) /\ r.n # Y!Invalid <=> r.n >= 0
  BY HostSays
<1>2. ASSUME NEW r \in Y!Amounts, NEW call
      PROVE  /\ Fits(call, r, Y!Filled(r, "old"))
             /\ call \in Y!Clears => Fits(call, r, Y!Filled(r, "zero"))
  <2>1. r.n \in Int /\ r.n = Y!Invalid => r.n = -1
    BY HostSays
  <2> QED
    BY <2>1, HostSays DEF Fits, Y!Filled
<1>3. ASSUME NEW r \in Y!Verdicts, NEW call
      PROVE  /\ call \in Y!Clears \ {"readv"} => Fits(call, r, Y!Struct(r, "zero"))
             /\ call \in Y!Leaks => Fits(call, r, Y!Struct(r, "junk"))
  BY DEF Fits, Y!Struct, Y!Whole, Y!Clears, Y!Leaks
<1>4. ASSUME NEW r \in Y!Amounts PROVE Fits("poll", r, Y!Struct(r, "old"))
  BY DEF Fits, Y!Struct, Y!Whole
<1> QED
  BY <1>2, <1>3, <1>4

(* Calls on files: each is on the list that sys_syscall redirects, or on   *)
(* that of those it misses.                                                *)
LEMMA DescriptorsSound ==
    ASSUME NEW c, NEW fd, Y!Descriptors(c, fd), kit' = kit
    PROVE  Answered'
<1>1. CASE Y!read(c, fd)
  <2>1. PICK r \in Y!Amounts : Y!Checked(c, "read", fd, r, Y!Filled(r, "old"), r.n)
    BY <1>1 DEF Y!read
  <2>2. Fits("read", r, Y!Filled(r, "old"))
    BY BuffersLeft DEF Y!Clears, Y!Leaks
  <2> QED
    BY <2>1, <2>2, CheckedSound, HostSays DEF Y!Redirected, Y!Unlisted
<1>2. CASE Y!write(c, fd)
  <2>1. PICK r \in Y!Amounts :
          Y!Answer(c, "write", fd, r, Y!Untouched, IF r.n = Y!Size THEN 0 ELSE -1,
                   IF r.n = Y!Size THEN r.n ELSE Y!Left(r))
    BY <1>2 DEF Y!write
  <2>2. /\ result'.by = c /\ result'.call = "write" /\ result'.fd = fd /\ result'.r = r
        /\ result'.buffer = Y!Untouched /\ result'.A3 = IF r.n = Y!Size THEN 0 ELSE -1
        /\ result'.V0 = IF r.n = Y!Size THEN r.n ELSE Y!Left(r)
        /\ result'.host = IF fd = Y!NoFd THEN Y!NoFd ELSE Y!HostFd(c, "write", fd)
        /\ errno' = Y!Left(r)
    BY <2>1 DEF Y!Answer
  <2>3. Y!OnOwnDescriptor'
    BY <2>2 DEF Y!OnOwnDescriptor, Y!HostFd, Y!Known, Y!NoFd, Y!Redirected
  <2>4. Y!ErrorsTold'
    <3>1. (Y!CutShort' <=> r.n \in 0 .. Y!Size - 1) /\ (r.n \in 0 .. Y!Size \/ r.n = Y!Invalid)
      BY <2>2, HostSays DEF Y!CutShort
    <3>2. r.n = Y!Invalid => Y!Left(r) = r.e
      BY HostSays DEF Y!Left
    <3>3. Y!Size = 2 /\ Y!Invalid = -1
      BY HostSays
    <3>4. r.n \in {-1, 0, 1, 2} /\ (Y!CutShort' <=> r.n \in {0, 1})
      BY <3>1, <3>3
    <3>5. ~Y!CutShort' => (result'.A3 # 0 <=> r.n = Y!Invalid) /\ (result'.A3 # 0 => result'.V0 = r.e)
      BY <2>2, <3>2, <3>3, <3>4
    <3>6. Y!CutShort' => result'.A3 # 0 /\ result'.V0 = errno'
      BY <2>2, <3>3, <3>4
    <3> QED
      BY <2>2, <3>5, <3>6 DEF Y!ErrorsTold
  <2>5. Y!BuffersKept'
    BY <2>2 DEF Y!BuffersKept, Y!Untouched
  <2> QED
    BY <2>3, <2>4, <2>5 DEF Answered
<1>3. CASE Y!lseek(c, fd)
  <2>1. PICK r \in Y!Amounts : Y!Simple(c, "lseek", fd, r)
    BY <1>3 DEF Y!lseek
  <2> QED
    BY <2>1, SimpleSound, HostSays DEF Y!Redirected, Y!Unlisted
<1>4. CASE Y!fsync(c, fd)
  <2>1. PICK r \in Y!Verdicts : Y!Simple(c, "fsync", fd, r)
    BY <1>4 DEF Y!fsync
  <2> QED
    BY <2>1, SimpleSound, HostSays DEF Y!Redirected, Y!Unlisted
<1>5. CASE Y!ftruncate(c, fd)
  <2>1. PICK r \in Y!Verdicts : Y!Simple(c, "ftruncate", fd, r)
    BY <1>5 DEF Y!ftruncate
  <2> QED
    BY <2>1, SimpleSound, HostSays DEF Y!Redirected, Y!Unlisted
<1>6. CASE Y!flock(c, fd)
  <2>1. PICK r \in Y!Verdicts : Y!Simple(c, "flock", fd, r)
    BY <1>6 DEF Y!flock
  <2> QED
    BY <2>1, SimpleSound, HostSays DEF Y!Redirected, Y!Unlisted
<1>7. CASE Y!fstat(c, fd)
  <2>1. PICK r \in Y!Verdicts : Y!Checked(c, "fstat", fd, r, Y!Struct(r, "junk"), r.n)
    BY <1>7 DEF Y!fstat
  <2>2. Fits("fstat", r, Y!Struct(r, "junk"))
    BY BuffersLeft DEF Y!Clears, Y!Leaks
  <2> QED
    BY <2>1, <2>2, CheckedSound, HostSays DEF Y!Redirected, Y!Unlisted
<1>8. CASE Y!getdirentries(c, fd)
  <2>1. PICK r \in Y!Amounts : Y!Checked(c, "getdirentries", fd, r, Y!Filled(r, "old"), r.n)
    BY <1>8 DEF Y!getdirentries
  <2>2. Fits("getdirentries", r, Y!Filled(r, "old"))
    BY BuffersLeft DEF Y!Clears, Y!Leaks
  <2> QED
    BY <2>1, <2>2, CheckedSound, HostSays DEF Y!Redirected, Y!Unlisted
<1>9. CASE Y!writev(c, fd)
  <2>1. PICK r \in Y!Amounts : Y!Simple(c, "writev", fd, r)
    BY <1>9 DEF Y!writev
  <2> QED
    BY <2>1, SimpleSound, HostSays DEF Y!Redirected, Y!Unlisted
<1>10. CASE Y!readv(c, fd)
  <2>1. PICK r \in Y!Amounts : Y!Checked(c, "readv", fd, r, Y!Filled(r, "zero"), r.n)
    BY <1>10 DEF Y!readv
  <2>2. Fits("readv", r, Y!Filled(r, "zero"))
    BY BuffersLeft DEF Y!Clears, Y!Leaks
  <2> QED
    BY <2>1, <2>2, CheckedSound, HostSays DEF Y!Redirected, Y!Unlisted
<1>11. CASE Y!ioctl(c, fd)
  <2>1. CASE \E A3, V0 : Y!Answer(c, "isatty", fd, Y!Unasked, Y!Untouched, A3, V0)
    <3>1. Fits("isatty", Y!Unasked, Y!Untouched)
      BY DEF Fits, Y!Untouched
    <3> QED
      BY <2>1, <3>1, AnswerSound
  <2>2. CASE \E r \in Y!Verdicts : Y!Checked(c, "ioctl", fd, r, Y!Struct(r, "junk"), r.n)
    <3>1. PICK r \in Y!Verdicts : Y!Checked(c, "ioctl", fd, r, Y!Struct(r, "junk"), r.n)
      BY <2>2
    <3>2. Fits("ioctl", r, Y!Struct(r, "junk"))
      BY BuffersLeft DEF Y!Leaks
    <3> QED
      BY <3>1, <3>2, CheckedSound, HostSays DEF Y!Redirected
  <2>3. CASE \E r \in Y!Verdicts : Y!Simple(c, "ioctl", fd, r)
    BY <2>3, SimpleSound, HostSays DEF Y!Redirected
  <2> QED
    BY <1>11, <2>1, <2>2, <2>3 DEF Y!ioctl
<1>12. CASE Y!poll(c, fd)
  <2>1. PICK r \in Y!Amounts : Y!Checked(c, "poll", fd, r, Y!Struct(r, "old"), r.n)
    BY <1>12 DEF Y!poll
  <2>2. Fits("poll", r, Y!Struct(r, "old"))
    BY BuffersLeft DEF Y!Clears, Y!Leaks
  <2> QED
    BY <2>1, <2>2, CheckedSound, HostSays DEF Y!Redirected, Y!Unlisted
<1> QED
  BY <1>1, <1>2, <1>3, <1>4, <1>5, <1>6, <1>7, <1>8, <1>9, <1>10, <1>11, <1>12 DEF Y!Descriptors

LEMMA SocketsSound ==
    ASSUME NEW c, NEW fd, Y!Sockets(c, fd), kit' = kit
    PROVE  Answered'
<1>1. CASE Y!bind(c, fd)
  <2>1. PICK r \in Y!Verdicts : Y!Simple(c, "bind", fd, r)
    BY <1>1 DEF Y!bind
  <2> QED
    BY <2>1, SimpleSound, HostSays DEF Y!Redirected, Y!Unlisted
<1>2. CASE Y!shutdown(c, fd)
  <2>1. PICK r \in Y!Verdicts : Y!Simple(c, "shutdown", fd, r)
    BY <1>2 DEF Y!shutdown
  <2> QED
    BY <2>1, SimpleSound, HostSays DEF Y!Redirected, Y!Unlisted
<1>3. CASE Y!send(c, fd)
  <2>1. PICK r \in Y!Amounts : Y!Simple(c, "send", fd, r)
    BY <1>3 DEF Y!send
  <2> QED
    BY <2>1, SimpleSound, HostSays DEF Y!Redirected, Y!Unlisted
<1>4. CASE Y!recvfrom(c, fd)
  <2>1. PICK r \in Y!Amounts : Y!Checked(c, "recvfrom", fd, r, Y!Filled(r, "old"), r.n)
    BY <1>4 DEF Y!recvfrom
  <2>2. Fits("recvfrom", r, Y!Filled(r, "old"))
    BY BuffersLeft DEF Y!Clears, Y!Leaks
  <2> QED
    BY <2>1, <2>2, CheckedSound, HostSays DEF Y!Redirected, Y!Unlisted
<1>5. CASE Y!connect(c, fd)
  <2>1. CASE \E r \in Y!Verdicts : Y!Simple(c, "connect", fd, r)
    BY <2>1, SimpleSound, HostSays DEF Y!Redirected
  <2>2. CASE Y!Simple(c, "connect", fd, [n |-> Y!Invalid, e |-> Y!EINVAL])
    BY <2>2, SimpleSound DEF Y!Redirected, Y!EINVAL
  <2> QED
    BY <1>5, <2>1, <2>2 DEF Y!connect
<1>6. CASE Y!setsockopt(c, fd)
  <2>1. PICK r \in Y!Verdicts : Y!Simple(c, "setsockopt", fd, r)
    BY <1>6 DEF Y!setsockopt
  <2> QED
    BY <2>1, SimpleSound, HostSays DEF Y!Redirected, Y!Unlisted
<1>7. CASE Y!getsockopt(c, fd)
  <2>1. PICK r \in Y!Verdicts : Y!Simple(c, "getsockopt", fd, r)
    BY <1>7 DEF Y!getsockopt
  <2> QED
    BY <2>1, SimpleSound, HostSays DEF Y!Redirected, Y!Unlisted
<1>8. CASE Y!getsockname(c, fd)
  <2>1. CASE \E r \in Y!Verdicts : Y!Checked(c, "getsockname", fd, r, Y!Struct(r, "zero"), r.n)
    <3>1. PICK r \in Y!Verdicts : Y!Checked(c, "getsockname", fd, r, Y!Struct(r, "zero"), r.n)
      BY <2>1
    <3>2. Fits("getsockname", r, Y!Struct(r, "zero"))
      BY BuffersLeft DEF Y!Clears
    <3> QED
      BY <3>1, <3>2, CheckedSound, HostSays DEF Y!Redirected
  <2>2. CASE Y!Simple(c, "getsockname", fd, [n |-> Y!Invalid, e |-> Y!ENOBUFS])
    BY <2>2, SimpleSound DEF Y!Redirected, Y!ENOBUFS
  <2> QED
    BY <1>8, <2>1, <2>2 DEF Y!getsockname
<1>9. CASE Y!getpeername(c, fd)
  <2>1. PICK r \in Y!Verdicts : Y!Checked(c, "getpeername", fd, r, Y!Struct(r, "zero"), r.n)
    BY <1>9 DEF Y!getpeername
  <2>2. Fits("getpeername", r, Y!Struct(r, "zero"))
    BY BuffersLeft DEF Y!Clears, Y!Leaks
  <2> QED
    BY <2>1, <2>2, CheckedSound, HostSays DEF Y!Redirected, Y!Unlisted
<1> QED
  BY <1>1, <1>2, <1>3, <1>4, <1>5, <1>6, <1>7, <1>8, <1>9 DEF Y!Sockets

LEMMA PathsSound ==
    ASSUME NEW c, Y!Paths(c), kit' = kit
    PROVE  Answered'
<1>1. CASE Y!link(c)
  <2>1. PICK r \in Y!Verdicts : Y!Simple(c, "link, unlink, chdir, chmod, chown", Y!NoFd, r)
    BY <1>1 DEF Y!link
  <2> QED
    BY <2>1, SimpleSound, HostSays DEF Y!Redirected, Y!Unlisted
<1>2. CASE Y!access(c)
  <2>1. PICK r \in Y!Verdicts : Y!Simple(c, "access", Y!NoFd, r)
    BY <1>2 DEF Y!access
  <2> QED
    BY <2>1, SimpleSound, HostSays DEF Y!Redirected, Y!Unlisted
<1>3. CASE Y!stat(c)
  <2>1. PICK r \in Y!Verdicts : Y!Checked(c, "stat", Y!NoFd, r, Y!Struct(r, "junk"), r.n)
    BY <1>3 DEF Y!stat
  <2>2. Fits("stat", r, Y!Struct(r, "junk"))
    BY BuffersLeft DEF Y!Clears, Y!Leaks
  <2> QED
    BY <2>1, <2>2, CheckedSound, HostSays DEF Y!Redirected, Y!Unlisted
<1>4. CASE Y!statfs(c)
  <2>1. PICK r \in Y!Verdicts : Y!Checked(c, "statfs", Y!NoFd, r, Y!Struct(r, "junk"), r.n)
    BY <1>4 DEF Y!statfs
  <2>2. Fits("statfs", r, Y!Struct(r, "junk"))
    BY BuffersLeft DEF Y!Clears, Y!Leaks
  <2> QED
    BY <2>1, <2>2, CheckedSound, HostSays DEF Y!Redirected, Y!Unlisted
<1>5. CASE Y!setreuid(c)
  <2>1. PICK r \in Y!Verdicts : Y!Simple(c, "setregid, setreuid", Y!NoFd, r)
    BY <1>5 DEF Y!setreuid
  <2> QED
    BY <2>1, SimpleSound, HostSays DEF Y!Redirected, Y!Unlisted
<1>6. CASE Y!mkdir(c)
  <2>1. PICK r \in Y!Verdicts : Y!Simple(c, "mkdir, rmdir, rename", Y!NoFd, r)
    BY <1>6 DEF Y!mkdir
  <2> QED
    BY <2>1, SimpleSound, HostSays DEF Y!Redirected, Y!Unlisted
<1>7. CASE Y!readlink(c)
  <2>1. PICK r \in Y!Amounts : Y!Simple(c, "readlink", Y!NoFd, r)
    BY <1>7 DEF Y!readlink
  <2> QED
    BY <2>1, SimpleSound, HostSays DEF Y!Redirected, Y!Unlisted
<1>8. CASE Y!gethostname(c)
  <2>1. PICK r \in Y!Verdicts :
          Y!Checked(c, "gethostname", Y!NoFd, r,
            [k \in 1 .. Y!Size |-> IF k = 1 /\ r.n = 0 THEN "new" ELSE "junk"], r.n)
    BY <1>8 DEF Y!gethostname
  <2>2. Fits("gethostname", r, [k \in 1 .. Y!Size |-> IF k = 1 /\ r.n = 0 THEN "new" ELSE "junk"])
    BY HostSays DEF Fits, Y!Leaks
  <2> QED
    BY <2>1, <2>2, CheckedSound, HostSays
<1>9. CASE Y!madvise(c)
  <2>1. Fits("madvise", Y!Unasked, Y!Untouched)
    BY DEF Fits, Y!Untouched
  <2> QED
    BY <1>9, <2>1, CheckedSound, HostSays DEF Y!madvise
<1>10. CASE Y!profil(c) \/ Y!pathconf(c) \/ Y!unimplemented(c) \/ Y!execve(c)
  <2>1. \A call \in {"profil", "pathconf", "unimplemented", "execve"} : \A r :
          Fits(call, r, Y!Untouched)
    BY DEF Fits, Y!Untouched
  <2>2. PICK call \in {"profil", "pathconf", "unimplemented", "execve"} : \E r, A3, V0 :
          Y!Answer(c, call, Y!NoFd, r, Y!Untouched, A3, V0)
    BY <1>10 DEF Y!profil, Y!pathconf, Y!unimplemented, Y!execve
  <2> QED
    BY <2>1, <2>2, AnswerSound
<1> QED
  BY <1>1, <1>2, <1>3, <1>4, <1>5, <1>6, <1>7, <1>8, <1>9, <1>10 DEF Y!Paths

(* The state of programs: a call changes that of its program, or makes     *)
(* another one join its group, and the history with it.                    *)
LEMMA ProcessSound ==
    ASSUME StateKept, NEW c \in Y!Programs, Y!Process(c), kit' = kit
    PROVE  StateKept' /\ Answered'
<1>1. /\ kit.Values \subseteq Nat /\ Y!Programs' = Y!Programs
      /\ brk[c] \in Nat /\ gpid[c] \in Nat
  BY KitsAssumption DEF StateKept, Y!Programs
<1>2. \A call : Fits(call, Y!Unasked, Y!Untouched)
  BY HostSays DEF Fits, Y!Untouched, Y!Unasked
<1>3. ASSUME NEW call \in {"sbrk", "obreak", "getpgrp", "setpgid", "audcntl"}, NEW V0,
             Y!Checked(c, call, Y!NoFd, Y!Unasked, Y!Untouched, V0),
             call \notin {"setpgid", "audcntl"} => V0 # Y!Invalid
      PROVE  Answered'
  <2>1. Fits(call, Y!Unasked, Y!Untouched)
    BY <1>2
  <2>2. Y!Unasked.n # Y!Invalid
    BY HostSays
  <2> QED
    BY <1>3, <2>1, <2>2, CheckedSound
<1>4. ASSUME Y!Still PROVE StateKept'
  BY <1>1, <1>4 DEF Y!Still, StateKept
<1>5. CASE Y!getpgrp(c)
  BY <1>1, <1>3, <1>4, <1>5, HostSays DEF Y!getpgrp
<1>6. ASSUME NEW v \in kit.Values \cup {0}, Y!obreak(c, v)
      PROVE  StateKept' /\ Answered'
  <2>1. v \in Nat
    BY <1>1
  <2>2. Answered'
    BY <1>1, <1>3, <1>6, HostSays DEF Y!obreak
  <2>3. CASE v = 0
    BY <1>1, <1>6, <2>2, <2>3 DEF Y!obreak, StateKept
  <2>4. CASE v # 0
    <3>1. /\ brk' = [brk EXCEPT ![c] = v] /\ told' = [told EXCEPT ![c].brk = v] /\ gpid' = gpid
      BY <1>6, <2>4 DEF Y!obreak
    <3> QED
      BY <1>1, <2>1, <2>2, <3>1 DEF StateKept
  <2> QED
    BY <2>3, <2>4
<1>7. ASSUME NEW v \in kit.Values \cup {0}, Y!audit(c, v)
      PROVE  StateKept' /\ Answered'
  <2>1. StateKept'
    BY <1>1, <1>7 DEF Y!audit, StateKept
  <2>2. CASE \E V0 : Y!Checked(c, "audcntl", Y!NoFd, Y!Unasked, Y!Untouched, V0)
    BY <1>3, <2>1, <2>2
  <2>3. CASE Y!Checked(c, "audcntl", Y!NoFd, Y!Unasked, Y!Whole("zero"), Y!Size)
    <3>1. Fits("audcntl", Y!Unasked, Y!Whole("zero"))
      BY DEF Fits, Y!Whole, Y!Clears
    <3> QED
      BY <2>1, <2>3, <3>1, CheckedSound
  <2> QED
    BY <1>7, <2>2, <2>3 DEF Y!audit
<1>8. ASSUME NEW v \in kit.Values \cup {0}, Y!SetsOwnGroup(c, v)
      PROVE  StateKept' /\ Answered'
  <2>1. Answered'
    BY <1>3, <1>8 DEF Y!SetsOwnGroup
  <2>2. v \in Nat /\ gpid' = [gpid EXCEPT ![c] = v] /\ told' = [told EXCEPT ![c].gpid = v] /\ brk' = brk
    BY <1>1, <1>8 DEF Y!SetsOwnGroup
  <2>3. StateKept'
    BY <1>1, <2>2 DEF StateKept
  <2> QED
    BY <2>1, <2>3
<1>9. ASSUME NEW who, Y!Joins(c, who)
      PROVE  StateKept' /\ Answered'
  <2>1. Answered'
    BY <1>3, <1>9 DEF Y!Joins
  <2>2. CASE who \in Y!Programs
    <3>1. /\ gpid' = [gpid EXCEPT ![who] = gpid[c]] /\ brk' = brk
          /\ told' = [told EXCEPT ![who].gpid = told[c].gpid]
      BY <1>9, <2>2 DEF Y!Joins
    <3> QED
      BY <1>1, <2>1, <2>2, <3>1 DEF StateKept
  <2>3. CASE who \notin Y!Programs
    BY <1>4, <1>9, <2>1, <2>3 DEF Y!Joins
  <2> QED
    BY <2>2, <2>3
<1>10. ASSUME NEW v \in kit.Values \cup {0}, NEW who \in 0 .. Y!Cardinality(Y!Programs) + 1,
              Y!setpgid(c, who, v)
       PROVE  StateKept' /\ Answered'
  <2>1. CASE who = 0
    BY <1>8, <1>10, <2>1 DEF Y!setpgid
  <2>2. CASE who # 0 /\ v = 0
    BY <1>9, <1>10, <2>2 DEF Y!setpgid
  <2>3. CASE who # 0 /\ v # 0
    <3>1. Y!Checked(c, "setpgid", Y!NoFd, Y!Unasked, Y!Untouched, 0) /\ Y!Still
      BY <1>10, <2>3 DEF Y!setpgid
    <3> QED
      BY <1>3, <1>4, <3>1
  <2> QED
    BY <2>1, <2>2, <2>3
<1>11. ASSUME NEW delta \in {-1, 1}, Y!sbrk(c, delta)
       PROVE  StateKept' /\ Answered'
  <2> DEFINE b == brk[c] + delta
  <2>1. /\ b \in kit.Values /\ brk' = [brk EXCEPT ![c] = @ + delta] /\ gpid' = gpid
        /\ told' = [told EXCEPT ![c].brk = b]
        /\ Y!Checked(c, "sbrk", Y!NoFd, Y!Unasked, Y!Untouched, b)
    BY <1>11 DEF Y!sbrk
  <2>2. b \in Nat /\ brk' = [brk EXCEPT ![c] = b]
    BY <1>1, <2>1
  <2> HIDE DEF b
  <2>3. Answered'
    BY <1>3, <2>1, <2>2, HostSays
  <2>4. StateKept'
    BY <1>1, <2>1, <2>2 DEF StateKept
  <2> QED
    BY <2>3, <2>4
<1> QED
  BY <1>4, <1>5, <1>6, <1>7, <1>10, <1>11 DEF Y!Process, Y!getpgrp

LEMMA InitCalls == Y!Init => CallsInv
<1> SUFFICES ASSUME Y!Init PROVE CallsInv
  OBVIOUS
<1>1. StateKept
  BY DEF Y!Init, StateKept
<1>2. /\ result.fd = Y!NoFd /\ result.call = "none" /\ result.r = Y!Unasked /\ result.A3 = 0
      /\ result.buffer = Y!Untouched
  BY DEF Y!Init, Y!None
<1>3. Y!OnOwnDescriptor
  BY <1>2 DEF Y!OnOwnDescriptor
<1>4. Y!ErrorsTold
  BY <1>2, HostSays DEF Y!ErrorsTold, Y!CutShort
<1>5. Y!BuffersKept
  BY <1>2 DEF Y!BuffersKept, Y!Untouched
<1> QED
  BY <1>1, <1>3, <1>4, <1>5 DEF CallsInv, Answered

LEMMA CallsNext ==
    ASSUME CallsInv, Y!Next
    PROVE  CallsInv'
<1>1. PICK c \in Y!Programs :
        \/ "descriptors" \in kit.Uses /\ (\E fd \in kit.Fds : Y!Descriptors(c, fd)) /\ Y!Still
        \/ "sockets" \in kit.Uses /\ (\E fd \in kit.Fds : Y!Sockets(c, fd)) /\ Y!Still
        \/ "paths" \in kit.Uses /\ Y!Paths(c) /\ Y!Still
        \/ "process" \in kit.Uses /\ Y!Process(c)
  BY DEF Y!Next
<1>2. kit' = kit /\ StateKept
  BY DEF Y!Next, CallsInv
<1>3. CASE Y!Still /\ ((\E fd \in kit.Fds : Y!Descriptors(c, fd) \/ Y!Sockets(c, fd)) \/ Y!Paths(c))
  <2>1. Answered'
    BY <1>2, <1>3, DescriptorsSound, SocketsSound, PathsSound
  <2>2. StateKept'
    BY <1>2, <1>3 DEF Y!Still, StateKept, Y!Programs
  <2> QED
    BY <2>1, <2>2 DEF CallsInv
<1>4. CASE Y!Process(c)
  BY <1>2, <1>4, ProcessSound DEF CallsInv
<1> QED
  BY <1>1, <1>3, <1>4

LEMMA CallsSame ==
    ASSUME CallsInv, UNCHANGED calling
    PROVE  CallsInv'
<1>1. /\ kit' = kit /\ errno' = errno /\ brk' = brk /\ gpid' = gpid /\ told' = told
      /\ result' = result
  BY DEF calling
<1>2. StateKept'
  BY <1>1 DEF CallsInv, StateKept, Y!Programs
<1>3. Answered'
  BY <1>1 DEF CallsInv, Answered, Y!OnOwnDescriptor, Y!Known, Y!ErrorsTold, Y!Own, Y!CutShort,
     Y!BuffersKept
<1> QED
  BY <1>2, <1>3 DEF CallsInv

(* Whatever the host answers and in whatever order programs call: a call   *)
(* is made on the host's descriptor of its own program, an error is told   *)
(* with its number, a buffer holds what the host gave, and a program has   *)
(* the break and the group it was given, all with the exceptions that the  *)
(* properties name (sys_syscall, check_error).                             *)
THEOREM CallsCorrect == Spec => []CallsSound
<1>1. Init => CallsInv
  BY InitCalls DEF Init
<1>2. CallsInv /\ [Next]_vars => CallsInv'
  <2> SUFFICES ASSUME CallsInv, [Next]_vars PROVE CallsInv'
    OBVIOUS
  <2>1. Y!Next \/ UNCHANGED calling
    BY DEF Next, vars, MemoryStep, StartupStep, LoopStep, CallStep
  <2> QED
    BY <2>1, CallsNext, CallsSame
<1>3. CallsInv => CallsSound
  BY DEF CallsInv, StateKept, Answered, CallsSound, Y!CallsSound, Y!OwnBreakAndGroup
<1> QED
  BY <1>1, <1>2, <1>3, PTL DEF Spec
-----------------------------------------------------------------------------
(* Memory *)

(* Of numbers one is least, as sets of numbers are well-founded; so that   *)
(* what holds of 0 and of the next of each number holds of all of them.    *)
LEMMA LeastNat ==
    ASSUME NEW bad \in SUBSET Nat, bad # {}
    PROVE  \E m \in bad : \A k \in bad : m <= k
<1>1. PICK n \in bad : TRUE
  OBVIOUS
<1> DEFINE T == {1 .. k : k \in bad}
<1>2. T \subseteq FiniteSubsetsOf(Nat)
  <2> SUFFICES ASSUME NEW k \in bad PROVE 1 .. k \in FiniteSubsetsOf(Nat)
    OBVIOUS
  <2>1. IsFiniteSet(1 .. k)
    BY FS_Interval
  <2> QED
    BY <2>1 DEF FiniteSubsetsOf
<1>3. T # {}
  BY <1>1
<1>4. IsWellFoundedOn(StrictSubsetOrdering(Nat), FiniteSubsetsOf(Nat))
  BY FS_StrictSubsetOrderingWellFounded
<1> HIDE DEF T
<1>5. PICK t \in T : \A s \in T : <<s, t>> \notin StrictSubsetOrdering(Nat)
  BY <1>2, <1>3, <1>4, WFMin
<1>6. PICK m \in bad : t = 1 .. m
  BY DEF T
<1>7. ASSUME NEW k \in bad, k < m PROVE FALSE
  <2>1. 1 .. k \in T
    BY DEF T
  <2>2. 1 .. k \subseteq 1 .. m /\ m \in 1 .. m /\ m \notin 1 .. k
    BY <1>7
  <2>3. <<1 .. k, 1 .. m>> \in StrictSubsetOrdering(Nat)
    BY <2>2 DEF StrictSubsetOrdering
  <2> QED
    BY <2>1, <2>3, <1>5, <1>6
<1> QED
  BY <1>6, <1>7

LEMMA AllNumbers ==
    ASSUME NEW n \in Nat, NEW good, 0 \in good, \A k \in 0 .. n - 1 : k \in good => k + 1 \in good
    PROVE  0 .. n \subseteq good
<1> DEFINE bad == {k \in 0 .. n : k \notin good}
<1>1. SUFFICES ASSUME bad # {} PROVE FALSE
  OBVIOUS
<1>2. bad \in SUBSET Nat
  OBVIOUS
<1>3. PICK m \in bad : \A k \in bad : m <= k
  BY <1>1, <1>2, LeastNat
<1>4. m \in 1 .. n /\ m - 1 \notin bad
  BY <1>3
<1> QED
  BY <1>3, <1>4

(* The recursive function that a fold from the left is defined by.         *)
DoneIter(s, units) ==
  CHOOSE iter : iter = [t \in SUBSET DOMAIN units |->
    IF t = {} THEN s ELSE M!UnitDone(iter[t \ {M!Max(t)}], units[M!Max(t)])]

DoneUpTo(iter, s, units, n) ==
  \A t \in SUBSET (1 .. n) :
    iter[t] = IF t = {} THEN s ELSE M!UnitDone(iter[t \ {M!Max(t)}], units[M!Max(t)])

LEMMA DoneIs ==
    ASSUME NEW s, NEW units
    PROVE  M!Done(s, units) = DoneIter(s, units)[DOMAIN units]
  BY DEF M!Done, M!FoldLeft, M!MapThenFoldSet, DoneIter

LEMMA MaxIs ==
    ASSUME NEW t, NEW m \in t, t \subseteq Int, \A k \in t : k <= m
    PROVE  M!Max(t) = m
<1> DEFINE is(x) == x \in t /\ \A y \in t : x >= y
<1>1. is(m)
  OBVIOUS
<1>2. ASSUME NEW x, is(x) PROVE x = m
  BY <1>2
<1>3. M!Max(t) = CHOOSE x : is(x)
  BY DEF M!Max
<1> HIDE DEF is
<1> QED
  BY <1>1, <1>2, <1>3

LEMMA DoneIterIs ==
    ASSUME NEW s, NEW n \in Nat, NEW units, DOMAIN units = 1 .. n
    PROVE  DoneUpTo(DoneIter(s, units), s, units, n)
<1> DEFINE Is(iter, k) == iter = [t \in SUBSET (1 .. k) |->
             IF t = {} THEN s ELSE M!UnitDone(iter[t \ {M!Max(t)}], units[M!Max(t)])]
           good == {k \in 0 .. n : \E iter : Is(iter, k)}
<1>1. 0 \in good
  <2> DEFINE none == [t \in SUBSET (1 .. 0) |-> s]
  <2>1. Is(none, 0)
    OBVIOUS
  <2> QED
    BY <2>1
<1>2. ASSUME NEW k \in 0 .. n - 1, k \in good PROVE k + 1 \in good
  <2>1. PICK iter : Is(iter, k)
    BY <1>2
  <2> DEFINE more == [t \in SUBSET (1 .. k + 1) |->
               IF k + 1 \in t THEN M!UnitDone(iter[t \ {k + 1}], units[k + 1]) ELSE iter[t]]
  <2>2. ASSUME NEW t \in SUBSET (1 .. k + 1)
        PROVE  more[t] = IF t = {} THEN s ELSE M!UnitDone(more[t \ {M!Max(t)}], units[M!Max(t)])
    <3>1. CASE k + 1 \in t
      <4>0. k + 1 \in t /\ t \subseteq Int /\ \A i \in t : i <= k + 1
        BY <3>1
      <4>1. M!Max(t) = k + 1
        BY <4>0, MaxIs
      <4>2. more[t \ {k + 1}] = iter[t \ {k + 1}]
        OBVIOUS
      <4> QED
        BY <3>1, <4>1, <4>2
    <3>2. CASE k + 1 \notin t
      <4>0. \A i \in 1 .. k + 1 : i # k + 1 => i \in 1 .. k
        OBVIOUS
      <4>1. t \in SUBSET (1 .. k) /\ t \ {M!Max(t)} \in SUBSET (1 .. k + 1)
        BY <3>2, <4>0
      <4>2. more[t] = iter[t] /\ more[t \ {M!Max(t)}] = iter[t \ {M!Max(t)}]
        BY <3>2, <4>1
      <4>3. iter[t] = IF t = {} THEN s ELSE M!UnitDone(iter[t \ {M!Max(t)}], units[M!Max(t)])
        BY <2>1, <4>1
      <4> QED
        BY <4>2, <4>3
    <3> QED
      BY <3>1, <3>2
  <2>3. more = [t \in SUBSET (1 .. k + 1) |->
                 IF t = {} THEN s ELSE M!UnitDone(more[t \ {M!Max(t)}], units[M!Max(t)])]
    BY <2>2
  <2>4. Is(more, k + 1)
    BY <2>3
  <2> HIDE DEF more, Is
  <2> QED
    BY <2>4
<1> HIDE DEF good
<1>3. n \in good
  <2>1. \A k \in 0 .. n - 1 : k \in good => k + 1 \in good
    BY <1>2
  <2>2. 0 .. n \subseteq good
    BY <1>1, <2>1, AllNumbers
  <2> QED
    BY <2>2
<1>4. \E iter : Is(iter, n)
  BY <1>3 DEF good
<1>5. DoneIter(s, units) = CHOOSE iter : Is(iter, n)
  BY DEF DoneIter
<1>6. Is(DoneIter(s, units), n)
  <2> HIDE DEF Is
  <2> QED
    BY <1>4, <1>5
<1> QED
  BY <1>6 DEF DoneUpTo

(* What the units of an access leave true, one after the other.            *)
LEMMA DoneStep ==
    ASSUME NEW s, NEW n \in Nat, NEW units, DOMAIN units = 1 .. n
    PROVE  \E after : /\ after[0] = s
                      /\ \A k \in 0 .. n - 1 : after[k + 1] = M!UnitDone(after[k], units[k + 1])
                      /\ M!Done(s, units) = after[n]
<1> DEFINE it == DoneIter(s, units)
<1>0. DoneUpTo(it, s, units, n)
  BY DoneIterIs
<1>1. \A t \in SUBSET (1 .. n) : it[t] =
             IF t = {} THEN s ELSE M!UnitDone(it[t \ {M!Max(t)}], units[M!Max(t)])
  BY <1>0, Zenon DEF DoneUpTo
<1> HIDE DEF it
<1>2. it[1 .. 0] = s
  <2>1. 1 .. 0 = {} /\ {} \in SUBSET (1 .. n)
    OBVIOUS
  <2> QED
    BY <1>1, <2>1
<1>3. ASSUME NEW k \in 0 .. n - 1 PROVE it[1 .. k + 1] = M!UnitDone(it[1 .. k], units[k + 1])
  <2>0. k + 1 \in 1 .. k + 1 /\ 1 .. k + 1 \subseteq Int /\ \A i \in 1 .. k + 1 : i <= k + 1
    OBVIOUS
  <2>1. M!Max(1 .. k + 1) = k + 1
    BY <2>0, MaxIs
  <2>2. (1 .. k + 1) \ {k + 1} = 1 .. k /\ 1 .. k + 1 \in SUBSET (1 .. n) /\ 1 .. k + 1 # {}
    OBVIOUS
  <2> QED
    BY <1>1, <2>1, <2>2
<1>4. M!Done(s, units) = it[1 .. n]
  BY DoneIs DEF it
<1> DEFINE after == [k \in 0 .. n |-> it[1 .. k]]
<1>5. /\ after[0] = s
      /\ \A k \in 0 .. n - 1 : after[k + 1] = M!UnitDone(after[k], units[k + 1])
      /\ M!Done(s, units) = after[n]
  BY <1>2, <1>3, <1>4
<1> HIDE DEF after
<1> QED
  BY <1>5

(* What a memory_map, the host and a program have for certain.              *)
IsSeq(s) == \E n \in Nat : s = [k \in 1 .. n |-> s[k]]

HostShaped(hosts) == IsSeq(hosts) /\ \A h \in DOMAIN hosts : "exists" \in DOMAIN hosts[h]
MemShaped(m) == {"ptab", "memory_map", "internal_map", "page_count"} \subseteq DOMAIN m

(* An access changes pages and contents, neither mappings nor what exists  *)
(* on the host.                                                            *)
SameMaps(m, w) ==
  MemShaped(w) /\ w.memory_map = m.memory_map /\ w.internal_map = m.internal_map
SameHosts(h, g) ==
  HostShaped(g) /\ DOMAIN g = DOMAIN h /\ \A i \in DOMAIN h : g[i].exists = h[i].exists
Kept(s, t) ==
  {"mem", "host", "file"} \subseteq DOMAIN t /\ SameMaps(s.mem, t.mem) /\ SameHosts(s.host, t.host)

LEMMA PagesKeep ==
    ASSUME NEW m, MemShaped(m), NEW addr, NEW v
    PROVE  SameMaps(m, M!mem_translate(m, addr)) /\ SameMaps(m, M!PageWritten(m, addr, v))
<1>1. SameMaps(m, M!mem_translate(m, addr))
  BY DEF MemShaped, SameMaps, M!mem_translate
<1>2. SameMaps(m, M!mem_newpage(m, addr))
  BY DEF MemShaped, SameMaps, M!mem_newpage
<1> DEFINE t == IF M!Found(m, addr) = {} THEN M!mem_newpage(m, addr) ELSE M!mem_translate(m, addr)
<1>3. SameMaps(m, t)
  BY <1>1, <1>2
<1>4. M!PageWritten(m, addr, v) =
        [t EXCEPT !.ptab[M!MEM_PTAB_SET(addr)][1].page[M!MEM_OFFSET(addr)] = v]
  BY DEF M!PageWritten
<1> HIDE DEF t
<1>5. SameMaps(m, M!PageWritten(m, addr, v))
  BY <1>3, <1>4 DEF MemShaped, SameMaps
<1> QED
  BY <1>1, <1>5

LEMMA UnitKeeps ==
    ASSUME NEW s, NEW t, NEW u, Kept(s, t)
    PROVE  Kept(s, M!UnitDone(t, u))
<1> DEFINE r == t.mem.memory_map[u.at]
<1>1. CASE u.at = 0 /\ u.v = M!Nothing
  <2>1. SameMaps(t.mem, M!mem_translate(t.mem, u.addr))
    BY PagesKeep DEF Kept, SameMaps
  <2> QED
    BY <1>1, <2>1 DEF M!UnitDone, Kept, SameMaps
<1>2. CASE u.at = 0 /\ u.v # M!Nothing
  <2>1. SameMaps(t.mem, M!PageWritten(t.mem, u.addr, u.v))
    BY PagesKeep DEF Kept, SameMaps
  <2> QED
    BY <1>2, <2>1 DEF M!UnitDone, Kept, SameMaps
<1>3. CASE u.at # 0 /\ u.v = M!Nothing
  BY <1>3 DEF M!UnitDone
<1>4. CASE u.at # 0 /\ u.v # M!Nothing /\ t.host[r.id].kind = "shared"
  BY <1>4 DEF M!UnitDone, Kept, SameMaps
<1>5. CASE u.at # 0 /\ u.v # M!Nothing /\ t.host[r.id].kind # "shared"
  <2> DEFINE g == [t.host EXCEPT ![r.id].data[u.addr - r.base] = u.v]
  <2>1. M!UnitDone(t, u) = [t EXCEPT !.host = g]
    BY <1>5 DEF M!UnitDone, Kept
  <2>2. SameHosts(t.host, g)
    BY DEF Kept, SameHosts, HostShaped, IsSeq
  <2>3. SameHosts(s.host, g)
    BY <2>2 DEF Kept, SameHosts
  <2> HIDE DEF g
  <2> QED
    BY <2>1, <2>3 DEF Kept, SameMaps
<1> QED
  BY <1>1, <1>2, <1>3, <1>4, <1>5

LEMMA DoneKeeps ==
    ASSUME NEW s, Kept(s, s), NEW n \in Nat, NEW units, DOMAIN units = 1 .. n
    PROVE  Kept(s, M!Done(s, units))
<1>1. PICK after :
        /\ after[0] = s
        /\ \A k \in 0 .. n - 1 : after[k + 1] = M!UnitDone(after[k], units[k + 1])
        /\ M!Done(s, units) = after[n]
  BY DoneStep
<1> DEFINE good == {k \in 0 .. n : Kept(s, after[k])}
<1>2. 0 \in good
  BY <1>1
<1>3. \A k \in 0 .. n - 1 : k \in good => k + 1 \in good
  BY <1>1, UnitKeeps
<1>4. 0 .. n \subseteq good
  <2> HIDE DEF good
  <2> QED
    BY <1>2, <1>3, AllNumbers
<1> QED
  BY <1>1, <1>4

(* The recursive function that a fold from the left is defined by.         *)
KeptIter(maps) ==
  CHOOSE iter : iter = [t \in SUBSET DOMAIN maps |->
    IF t = {} THEN <<>> ELSE M!WithInherited(iter[t \ {M!Max(t)}], maps[M!Max(t)])]

KeptUpTo(iter, maps, n) ==
  \A t \in SUBSET (1 .. n) :
    iter[t] = IF t = {} THEN <<>> ELSE M!WithInherited(iter[t \ {M!Max(t)}], maps[M!Max(t)])

LEMMA KeptIs ==
    ASSUME NEW maps
    PROVE  M!Inherited(maps) = KeptIter(maps)[DOMAIN maps]
  BY DEF M!Inherited, M!FoldLeft, M!MapThenFoldSet, KeptIter

LEMMA KeptIterIs ==
    ASSUME NEW n \in Nat, NEW maps, DOMAIN maps = 1 .. n
    PROVE  KeptUpTo(KeptIter(maps), maps, n)
<1> DEFINE Is(iter, k) == iter = [t \in SUBSET (1 .. k) |->
             IF t = {} THEN <<>> ELSE M!WithInherited(iter[t \ {M!Max(t)}], maps[M!Max(t)])]
           good == {k \in 0 .. n : \E iter : Is(iter, k)}
<1>1. 0 \in good
  <2> DEFINE none == [t \in SUBSET (1 .. 0) |-> <<>>]
  <2>1. Is(none, 0)
    OBVIOUS
  <2> QED
    BY <2>1
<1>2. ASSUME NEW k \in 0 .. n - 1, k \in good PROVE k + 1 \in good
  <2>1. PICK iter : Is(iter, k)
    BY <1>2
  <2> DEFINE more == [t \in SUBSET (1 .. k + 1) |->
               IF k + 1 \in t THEN M!WithInherited(iter[t \ {k + 1}], maps[k + 1]) ELSE iter[t]]
  <2>2. ASSUME NEW t \in SUBSET (1 .. k + 1)
        PROVE  more[t] = IF t = {} THEN <<>> ELSE M!WithInherited(more[t \ {M!Max(t)}], maps[M!Max(t)])
    <3>1. CASE k + 1 \in t
      <4>0. k + 1 \in t /\ t \subseteq Int /\ \A i \in t : i <= k + 1
        BY <3>1
      <4>1. M!Max(t) = k + 1
        BY <4>0, MaxIs
      <4>2. more[t \ {k + 1}] = iter[t \ {k + 1}]
        OBVIOUS
      <4> QED
        BY <3>1, <4>1, <4>2
    <3>2. CASE k + 1 \notin t
      <4>0. \A i \in 1 .. k + 1 : i # k + 1 => i \in 1 .. k
        OBVIOUS
      <4>1. t \in SUBSET (1 .. k) /\ t \ {M!Max(t)} \in SUBSET (1 .. k + 1)
        BY <3>2, <4>0
      <4>2. more[t] = iter[t] /\ more[t \ {M!Max(t)}] = iter[t \ {M!Max(t)}]
        BY <3>2, <4>1
      <4>3. iter[t] = IF t = {} THEN <<>> ELSE M!WithInherited(iter[t \ {M!Max(t)}], maps[M!Max(t)])
        BY <2>1, <4>1
      <4> QED
        BY <4>2, <4>3
    <3> QED
      BY <3>1, <3>2
  <2>3. more = [t \in SUBSET (1 .. k + 1) |->
                 IF t = {} THEN <<>> ELSE M!WithInherited(more[t \ {M!Max(t)}], maps[M!Max(t)])]
    BY <2>2
  <2>4. Is(more, k + 1)
    BY <2>3
  <2> HIDE DEF more, Is
  <2> QED
    BY <2>4
<1> HIDE DEF good
<1>3. n \in good
  <2>1. \A k \in 0 .. n - 1 : k \in good => k + 1 \in good
    BY <1>2
  <2>2. 0 .. n \subseteq good
    BY <1>1, <2>1, AllNumbers
  <2> QED
    BY <2>2
<1>4. \E iter : Is(iter, n)
  BY <1>3 DEF good
<1>5. KeptIter(maps) = CHOOSE iter : Is(iter, n)
  BY DEF KeptIter
<1>6. Is(KeptIter(maps), n)
  <2> HIDE DEF Is
  <2> QED
    BY <1>4, <1>5
<1> QED
  BY <1>6 DEF KeptUpTo

(* What execve keeps of a list, one mapping after the other.               *)
LEMMA KeptStep ==
    ASSUME NEW n \in Nat, NEW maps, DOMAIN maps = 1 .. n
    PROVE  \E after : /\ after[0] = <<>>
                      /\ \A k \in 0 .. n - 1 : after[k + 1] = M!WithInherited(after[k], maps[k + 1])
                      /\ M!Inherited(maps) = after[n]
<1> DEFINE it == KeptIter(maps)
<1>0. KeptUpTo(it, maps, n)
  BY KeptIterIs
<1>1. \A t \in SUBSET (1 .. n) : it[t] =
             IF t = {} THEN <<>> ELSE M!WithInherited(it[t \ {M!Max(t)}], maps[M!Max(t)])
  BY <1>0, Zenon DEF KeptUpTo
<1> HIDE DEF it
<1>2. it[1 .. 0] = <<>>
  <2>1. 1 .. 0 = {} /\ {} \in SUBSET (1 .. n)
    OBVIOUS
  <2> QED
    BY <1>1, <2>1
<1>3. ASSUME NEW k \in 0 .. n - 1 PROVE it[1 .. k + 1] = M!WithInherited(it[1 .. k], maps[k + 1])
  <2>0. k + 1 \in 1 .. k + 1 /\ 1 .. k + 1 \subseteq Int /\ \A i \in 1 .. k + 1 : i <= k + 1
    OBVIOUS
  <2>1. M!Max(1 .. k + 1) = k + 1
    BY <2>0, MaxIs
  <2>2. (1 .. k + 1) \ {k + 1} = 1 .. k /\ 1 .. k + 1 \in SUBSET (1 .. n) /\ 1 .. k + 1 # {}
    OBVIOUS
  <2> QED
    BY <1>1, <2>1, <2>2
<1>4. M!Inherited(maps) = it[1 .. n]
  BY KeptIs DEF it
<1> DEFINE after == [k \in 0 .. n |-> it[1 .. k]]
<1>5. /\ after[0] = <<>>
      /\ \A k \in 0 .. n - 1 : after[k + 1] = M!WithInherited(after[k], maps[k + 1])
      /\ M!Inherited(maps) = after[n]
  BY <1>2, <1>3, <1>4
<1> HIDE DEF after
<1> QED
  BY <1>5

(* What of a list is inherited is on it, each at a place of its own.       *)
PickedBy(from, kept, maps, k, n) ==
  /\ from \in [1 .. n -> 1 .. k]
  /\ kept = [i \in 1 .. n |-> maps[from[i]]]
  /\ \A i \in 1 .. n : "inherit" \in kept[i].flags
  /\ \A i, l \in 1 .. n : i # l => from[i] # from[l]
FromList(kept, maps, k) == \E n \in Nat : \E from : PickedBy(from, kept, maps, k, n)

LEMMA InheritedFrom ==
    ASSUME NEW n \in Nat, NEW maps, DOMAIN maps = 1 .. n
    PROVE  FromList(M!Inherited(maps), maps, n)
<1>1. PICK after :
        /\ after[0] = <<>>
        /\ \A k \in 0 .. n - 1 : after[k + 1] = M!WithInherited(after[k], maps[k + 1])
        /\ M!Inherited(maps) = after[n]
  BY KeptStep
<1> DEFINE good == {k \in 0 .. n : FromList(after[k], maps, k)}
<1>2. 0 \in good
  <2> DEFINE none == [i \in 1 .. 0 |-> 1]
  <2>1. PickedBy(none, <<>>, maps, 0, 0)
    BY DEF PickedBy
  <2> HIDE DEF none
  <2>2. FromList(<<>>, maps, 0)
    BY <2>1 DEF FromList
  <2> QED
    BY <1>1, <2>2
<1>3. ASSUME NEW k \in 0 .. n - 1, k \in good PROVE k + 1 \in good
  <2>1. PICK m \in Nat : \E from : PickedBy(from, after[k], maps, k, m)
    BY <1>3 DEF FromList
  <2>9. PICK from : PickedBy(from, after[k], maps, k, m)
    BY <2>1
  <2>0. /\ from \in [1 .. m -> 1 .. k]
        /\ after[k] = [i \in 1 .. m |-> maps[from[i]]]
        /\ \A i \in 1 .. m : "inherit" \in after[k][i].flags
        /\ \A i, l \in 1 .. m : i # l => from[i] # from[l]
    BY <2>9 DEF PickedBy
  <2>2. after[k + 1] = M!WithInherited(after[k], maps[k + 1])
    BY <1>1
  <2>3. CASE "inherit" \notin maps[k + 1].flags
    <3>1. after[k + 1] = after[k]
      BY <2>2, <2>3 DEF M!WithInherited
    <3>2. PickedBy(from, after[k + 1], maps, k + 1, m)
      BY <2>0, <3>1 DEF PickedBy
    <3> QED
      BY <3>2 DEF FromList
  <2>4. CASE "inherit" \in maps[k + 1].flags
    <3> DEFINE more == [i \in 1 .. m + 1 |-> IF i = m + 1 THEN k + 1 ELSE from[i]]
    <3>1. more \in [1 .. m + 1 -> 1 .. k + 1]
      BY <2>0
    <3>2. after[k + 1] = Append(after[k], maps[k + 1])
      BY <2>2, <2>4 DEF M!WithInherited
    <3>3. after[k] \in Seq({maps[i] : i \in 1 .. n}) /\ Len(after[k]) = m
      BY <2>0
    <3>4. after[k + 1] = [i \in 1 .. m + 1 |-> maps[more[i]]]
      BY <2>0, <3>2, <3>3
    <3>5. \A i \in 1 .. m + 1 : "inherit" \in after[k + 1][i].flags
      BY <2>0, <2>4, <3>4
    <3>6. \A i, l \in 1 .. m + 1 : i # l => more[i] # more[l]
      BY <2>0
    <3> HIDE DEF more
    <3>7. PickedBy(more, after[k + 1], maps, k + 1, m + 1)
      BY <3>1, <3>4, <3>5, <3>6 DEF PickedBy
    <3> QED
      BY <3>7 DEF FromList
  <2> QED
    BY <2>3, <2>4
<1>4. \A k \in 0 .. n - 1 : k \in good => k + 1 \in good
  BY <1>3
<1>5. 0 .. n \subseteq good
  <2> HIDE DEF good
  <2> QED
    BY <1>2, <1>4, AllNumbers
<1> QED
  BY <1>1, <1>5

LEMMA Split ==
    ASSUME NEW m \in Nat \ {0}, NEW a \in Nat
    PROVE  a \div m \in Nat /\ a % m \in 0 .. m - 1 /\ a = (a \div m) * m + (a % m)
<1>1. a \div m \in Int /\ a % m \in 0 .. m - 1 /\ a = m * (a \div m) + (a % m)
  BY SMT
<1>2. a \div m >= 0
  BY SMT
<1> QED
  BY <1>1, <1>2, SMT

LEMMA Below ==
    ASSUME NEW m \in Nat \ {0}, NEW p \in Int, NEW q \in Int, NEW r \in 0 .. m - 1
    PROVE  /\ (p + 1) * m = p * m + m /\ p * m \in Int /\ q * m \in Int
           /\ p * m + r < q * m => p + 1 <= q
           /\ p >= 0 => p * m >= 0
BY SMT

LEMMA SplitOnce ==
    ASSUME NEW m \in Nat \ {0}, NEW q \in Nat, NEW r \in 0 .. m - 1
    PROVE  (q * m + r) \div m = q /\ (q * m + r) % m = r
<1>1. PICK a \in Nat : a = q * m + r
  BY SMT
<1>2. a \div m \in Nat /\ a % m \in 0 .. m - 1 /\ a = (a \div m) * m + (a % m)
  BY <1>1, Split
<1> DEFINE d == a \div m
           e == a % m
<1>3. d \in Nat /\ e \in 0 .. m - 1 /\ d * m + e = q * m + r
  BY <1>1, <1>2
<1> HIDE DEF d, e
<1>4. d = q
  <2>1. ~(d < q) /\ ~(q < d)
    BY <1>3, SMT
  <2> QED
    BY <1>3, <2>1
<1>5. e = r
  BY <1>3, <1>4, SMT
<1> QED
  BY <1>1, <1>4, <1>5 DEF d, e

LEMMA Ordered ==
    ASSUME NEW m \in Nat \ {0}, NEW p \in Int, NEW q \in Int, p <= q
    PROVE  p * m \in Int /\ q * m \in Int /\ p * m <= q * m
BY SMT

(* A region inside simulated memory, and two whose pages differ, if they    *)
(* were chosen.                                                            *)
P == setting.PageSize

IsRegion(r) ==
  r.base \in Nat /\ r.size \in Nat \ {0} /\ r.id \in Nat /\ r.base + r.size <= setting.Top
Apart(r, q) ==
  M!Chosen(r) /\ M!Chosen(q) => M!Covered(r) \cap M!Covered(q) = {}
\* what bounds_verify looks for of a region r
Misses(r, place, len) ==
  \A p \in 0 .. (M!RoundUp(r.base + r.size) - r.base - 1) \div P :
    ~M!is_within([base |-> place, size |-> len], r.base + p * P)

LEMMA RoundedUp ==
    ASSUME P \in Nat \ {0}, NEW x \in Nat
    PROVE  \E k \in Nat : M!RoundUp(x) = k * P /\ x <= k * P /\ k * P <= x + P - 1
<1> DEFINE k == (x + P - 1) \div P
<1>1. k \in Nat /\ (x + P - 1) % P \in 0 .. P - 1 /\ x + P - 1 = k * P + ((x + P - 1) % P)
  <2>1. x + P - 1 \in Nat
    OBVIOUS
  <2> QED
    BY <2>1, Split
<1>2. M!RoundUp(x) = k * P
  BY DEF M!RoundUp, M!PageSize, P
<1>3. k * P \in Int
  BY <1>1
<1> HIDE DEF k
<1> QED
  BY <1>1, <1>2, <1>3

(* Two regions that begin with a page are apart, if no page of the one      *)
(* begins in the other.                                                    *)
LEMMA MissesApart ==
    ASSUME P \in Nat \ {0}, NEW r, NEW q, IsRegion(r), IsRegion(q), Misses(r, q.base, q.size)
    PROVE  Apart(r, q) /\ Apart(q, r)
<1> SUFFICES ASSUME M!Chosen(r), M!Chosen(q), NEW a \in M!Covered(r), a \in M!Covered(q)
             PROVE  FALSE
  BY DEF Apart
<1>1. r.base % P = 0 /\ q.base % P = 0
  BY DEF M!Chosen, M!PageSize, P
<1>0. r.base + r.size \in Nat /\ q.base + q.size \in Nat
  BY DEF IsRegion
<1>2. PICK k \in Nat : M!RoundUp(r.base + r.size) = k * P /\ k * P <= r.base + r.size + P - 1
  BY <1>0, RoundedUp
<1>3. PICK l \in Nat : M!RoundUp(q.base + q.size) = l * P /\ l * P <= q.base + q.size + P - 1
  BY <1>0, RoundedUp
<1>4. r.base \in Nat /\ q.base \in Nat /\ q.size \in Nat
  BY DEF IsRegion
<1> DEFINE rb == r.base \div P
           qb == q.base \div P
           g == a \div P
<1>5. rb \in Nat /\ r.base = rb * P /\ qb \in Nat /\ q.base = qb * P
  <2>1. ASSUME NEW x \in Nat, x % P = 0 PROVE x \div P \in Nat /\ x = (x \div P) * P
    <3>1. x \div P \in Nat /\ x % P \in 0 .. P - 1 /\ x = (x \div P) * P + (x % P)
      BY Split
    <3> QED
      BY <2>1, <3>1
  <2> QED
    BY <1>1, <1>4, <2>1
<1>6. a \in Nat /\ a >= rb * P /\ a < k * P /\ a >= qb * P /\ a < l * P
  BY <1>2, <1>3, <1>5 DEF M!Covered, M!PageSize, P, M!Addresses
<1>7. g \in Nat /\ a % P \in 0 .. P - 1 /\ a = g * P + (a % P)
  BY <1>6, Split
<1> HIDE DEF rb, qb, g
<1> DEFINE e == a % P
<1>8. e \in 0 .. P - 1 /\ a = g * P + e
  BY <1>7
<1> HIDE DEF e
<1>9. g >= rb /\ g >= qb
  <2>1. (g + 1) * P = g * P + P
    BY <1>7, Below
  <2>2. ~(g + 1 <= rb) /\ ~(g + 1 <= qb)
    <3>1. g + 1 <= rb => (g + 1) * P <= rb * P
      BY <1>5, <1>7, Ordered
    <3>2. g + 1 <= qb => (g + 1) * P <= qb * P
      BY <1>5, <1>7, Ordered
    <3>3. g * P \in Int /\ rb * P \in Int /\ qb * P \in Int
      BY <1>5, <1>7
    <3> QED
      BY <1>6, <1>8, <2>1, <3>1, <3>2, <3>3
  <2> QED
    BY <1>5, <1>7, <2>2
<1>10. g + 1 <= k /\ g + 1 <= l
  BY <1>6, <1>7, <1>8, Below
<1> DEFINE p == g - rb
<1>11. p \in 0 .. (k * P - r.base - 1) \div P
  <2>1. PICK d \in Nat : d = k - rb - 1
    BY <1>5, <1>7, <1>9, <1>10
  <2>2. (d + 1) * P = d * P + P /\ k = d + 1 + rb
    BY <1>5, <2>1, Below
  <2>3. k * P = (d + 1) * P + rb * P
    BY <1>5, <2>1, <2>2, SMT
  <2>4. d * P \in Int /\ rb * P \in Int
    BY <1>5, <2>1
  <2>5. k * P - r.base - 1 = d * P + (P - 1)
    BY <1>5, <2>2, <2>3, <2>4
  <2>6. (d * P + (P - 1)) \div P = d
    <3>1. P - 1 \in 0 .. P - 1
      OBVIOUS
    <3> QED
      BY <3>1, SplitOnce
  <2> QED
    BY <1>5, <1>7, <1>9, <1>10, <2>1, <2>5, <2>6
<1>12. r.base + p * P = g * P
  <2>1. (g - rb) * P = g * P - rb * P
    BY <1>5, <1>7, SMT
  <2>2. g * P \in Int /\ rb * P \in Int
    BY <1>5, <1>7
  <2> QED
    BY <1>5, <2>1, <2>2
<1>13. ~M!is_within([base |-> q.base, size |-> q.size], g * P)
  BY <1>2, <1>11, <1>12 DEF Misses
<1>14. g * P >= q.base
  BY <1>5, <1>7, <1>9, Ordered
<1>15. g * P - q.base < q.size
  <2>1. (g + 1) * P <= l * P /\ (g + 1) * P = g * P + P
    BY <1>7, <1>10, Ordered, Below
  <2>2. g * P \in Int /\ l * P \in Int
    BY <1>7
  <2> QED
    BY <1>3, <1>4, <2>1, <2>2
<1> QED
  BY <1>13, <1>14, <1>15 DEF M!is_within

RegionsOK(maps) == IsSeq(maps) /\ \A i \in DOMAIN maps : IsRegion(maps[i])

LEMMA MinIn ==
    ASSUME NEW t \in SUBSET Nat, t # {}
    PROVE  M!Min(t) \in t /\ \A k \in t : M!Min(t) <= k
<1> DEFINE is(x) == x \in t /\ \A y \in t : x =< y
<1>1. \E x : is(x)
  BY LeastNat
<1>2. M!Min(t) = CHOOSE x : is(x)
  BY DEF M!Min
<1>3. is(M!Min(t))
  <2> HIDE DEF is
  <2> QED
    BY <1>1, <1>2
<1> QED
  BY <1>3

LEMMA TwiceAround ==
    ASSUME NEW t \in Nat \ {0}, NEW u \in Nat \ {0}
    PROVE  (2 * t) * u >= t + u - 1
BY SMT

(* Behind all of simulated memory there is room.                           *)
LEMMA FarMisses ==
    ASSUME P \in Nat \ {0}, setting.Top \in Nat, NEW r, IsRegion(r),
           NEW place \in Nat, place >= (2 * setting.Top) * P, NEW len
    PROVE  Misses(r, place, len)
<1> SUFFICES ASSUME NEW p \in 0 .. (M!RoundUp(r.base + r.size) - r.base - 1) \div P
             PROVE  r.base + p * P < place /\ r.base + p * P \in Int
  BY DEF Misses, M!is_within
<1>1. r.base \in Nat /\ r.size \in Nat \ {0} /\ r.base + r.size \in Nat /\ r.base + r.size <= setting.Top
  BY DEF IsRegion
<1>2. PICK k \in Nat : /\ M!RoundUp(r.base + r.size) = k * P /\ r.base + r.size <= k * P
                       /\ k * P <= r.base + r.size + P - 1
  BY <1>1, RoundedUp
<1>3. k * P \in Int
  OBVIOUS
<1>4. PICK x \in Nat : x = k * P - r.base - 1
  BY <1>1, <1>2, <1>3
<1>5. x \div P \in Nat /\ x % P \in 0 .. P - 1 /\ x = (x \div P) * P + (x % P)
  BY Split
<1>6. p \in Nat /\ p <= x \div P
  BY <1>2, <1>4, <1>5
<1>7. p * P \in Int /\ p * P <= x
  <2>1. p * P \in Int /\ (x \div P) * P \in Int /\ p * P <= (x \div P) * P
    BY <1>5, <1>6, Ordered
  <2> QED
    BY <1>5, <2>1
<1>8. (2 * setting.Top) * P >= setting.Top + P - 1
  <2>1. setting.Top \in Nat \ {0}
    BY <1>1
  <2> QED
    BY <2>1, TwiceAround
<1> QED
  BY <1>1, <1>2, <1>3, <1>4, <1>7, <1>8

(* A place that acquire_address gives is missed by all mappings.           *)
LEMMA PlaceMisses ==
    ASSUME P \in Nat \ {0}, setting.Top \in Nat, base_addr \in Nat,
           NEW m, RegionsOK(m.memory_map), RegionsOK(m.internal_map), NEW addr \in Nat, NEW len
    PROVE  /\ M!acquire_address(m, addr, len) \in Nat
           /\ \A i \in DOMAIN m.memory_map :
                Misses(m.memory_map[i], M!acquire_address(m, addr, len), len)
           /\ \A i \in DOMAIN m.internal_map :
                Misses(m.internal_map[i], M!acquire_address(m, addr, len), len)
<1> DEFINE from == IF addr = 0 THEN base_addr ELSE addr
           steps == {k \in M!Above : M!Free(m, from + k * P, len)}
           far == 2 * setting.Top
<1>1. from \in Nat
  OBVIOUS
<1> HIDE DEF from
<1>2. from + far * P \in Nat /\ from + far * P >= far * P /\ far \in M!Above
  <2>1. far * P \in Nat
    BY SMT
  <2> QED
    BY <1>1, <2>1 DEF M!Above
<1>3. M!Free(m, from + far * P, len)
  <2>1. /\ \A i \in DOMAIN m.memory_map : Misses(m.memory_map[i], from + far * P, len)
        /\ \A i \in DOMAIN m.internal_map : Misses(m.internal_map[i], from + far * P, len)
    BY <1>2, FarMisses DEF RegionsOK
  <2> QED
    BY <2>1 DEF M!Free, M!bounds_verify, Misses, M!PageSize, P
<1>4. M!Min(steps) \in steps
  <2>1. steps \in SUBSET Nat
    BY DEF M!Above
  <2>2. steps # {}
    BY <1>2, <1>3
  <2> HIDE DEF steps
  <2> QED
    BY <2>1, <2>2, MinIn
<1>5. M!acquire_address(m, addr, len) = from + M!Min(steps) * P
  BY DEF M!acquire_address, from, M!PageSize, P
<1> DEFINE k == M!Min(steps)
<1>6. k \in Nat /\ M!Free(m, from + k * P, len)
  BY <1>4 DEF M!Above
<1> HIDE DEF steps, k
<1>7. k * P \in Nat
  BY <1>6, SMT
<1>8. /\ \A i \in DOMAIN m.memory_map : Misses(m.memory_map[i], from + k * P, len)
      /\ \A i \in DOMAIN m.internal_map : Misses(m.internal_map[i], from + k * P, len)
  BY <1>6 DEF M!Free, M!bounds_verify, Misses, M!PageSize, P
<1> QED
  BY <1>1, <1>5, <1>7, <1>8 DEF k

LEMMA SeqFacts ==
    ASSUME NEW s, IsSeq(s)
    PROVE  /\ s \in Seq({s[k] : k \in DOMAIN s}) /\ Len(s) \in Nat /\ DOMAIN s = 1 .. Len(s)
           /\ s = [k \in 1 .. Len(s) |-> s[k]]
<1>1. PICK n \in Nat : s = [k \in 1 .. n |-> s[k]]
  BY DEF IsSeq
<1>2. DOMAIN s = 1 .. n
  BY <1>1
<1>3. s \in [1 .. n -> {s[k] : k \in DOMAIN s}]
  BY <1>1, <1>2
<1>4. s \in Seq({s[k] : k \in DOMAIN s})
  BY <1>3
<1> QED
  BY <1>1, <1>2, <1>4

LEMMA SeqIs ==
    ASSUME NEW V, NEW s \in Seq(V)
    PROVE  IsSeq(s)
<1>1. DOMAIN s = 1 .. Len(s) /\ Len(s) \in Nat
  OBVIOUS
<1>2. s \in [1 .. Len(s) -> V]
  OBVIOUS
<1>3. s = [k \in 1 .. Len(s) |-> s[k]]
  BY <1>2
<1> QED
  BY <1>1, <1>3 DEF IsSeq

LEMMA SeqAppended ==
    ASSUME NEW s, IsSeq(s), NEW x
    PROVE  /\ IsSeq(Append(s, x)) /\ Len(Append(s, x)) = Len(s) + 1
           /\ DOMAIN Append(s, x) = 1 .. Len(s) + 1
           /\ \A k \in 1 .. Len(s) + 1 : Append(s, x)[k] = IF k = Len(s) + 1 THEN x ELSE s[k]
<1> DEFINE V == {s[k] : k \in DOMAIN s} \cup {x}
<1>1. s \in Seq(V) /\ x \in V /\ Len(s) \in Nat
  <2>1. s \in [1 .. Len(s) -> V] /\ Len(s) \in Nat
    BY SeqFacts
  <2> QED
    BY <2>1
<1> HIDE DEF V
<1>2. Append(s, x) \in Seq(V) /\ Len(Append(s, x)) = Len(s) + 1
  BY <1>1
<1>3. \A k \in 1 .. Len(s) + 1 : Append(s, x)[k] = IF k = Len(s) + 1 THEN x ELSE s[k]
  BY <1>1
<1>4. DOMAIN Append(s, x) = 1 .. Len(s) + 1
  BY <1>1, <1>2
<1>5. IsSeq(Append(s, x))
  BY <1>2, SeqIs
<1> QED
  BY <1>2, <1>3, <1>4, <1>5

LEMMA SeqJoined ==
    ASSUME NEW s, IsSeq(s), NEW t, IsSeq(t)
    PROVE  /\ IsSeq(s \o t) /\ DOMAIN (s \o t) = 1 .. Len(s) + Len(t)
           /\ \A k \in 1 .. Len(s) + Len(t) :
                (s \o t)[k] = IF k <= Len(s) THEN s[k] ELSE t[k - Len(s)]
<1> DEFINE V == {s[k] : k \in DOMAIN s} \cup {t[k] : k \in DOMAIN t}
<1>1. s \in Seq(V) /\ t \in Seq(V) /\ Len(s) \in Nat /\ Len(t) \in Nat
  <2>1. s \in [1 .. Len(s) -> V] /\ Len(s) \in Nat
    BY SeqFacts
  <2>2. t \in [1 .. Len(t) -> V] /\ Len(t) \in Nat
    BY SeqFacts
  <2> QED
    BY <2>1, <2>2
<1> HIDE DEF V
<1>2. s \o t \in Seq(V) /\ Len(s \o t) = Len(s) + Len(t)
  BY <1>1
<1>3. \A k \in 1 .. Len(s) + Len(t) :
        (s \o t)[k] = IF k <= Len(s) THEN s[k] ELSE t[k - Len(s)]
  BY <1>1
<1>4. DOMAIN (s \o t) = 1 .. Len(s) + Len(t)
  BY <1>1, <1>2
<1>5. IsSeq(s \o t)
  BY <1>2, SeqIs
<1> QED
  BY <1>3, <1>4, <1>5

LEMMA SeqRemoved ==
    ASSUME NEW s, IsSeq(s), NEW i \in DOMAIN s
    PROVE  /\ IsSeq(M!RemoveAt(s, i)) /\ DOMAIN M!RemoveAt(s, i) = 1 .. Len(s) - 1
           /\ \A k \in 1 .. Len(s) - 1 :
                M!RemoveAt(s, i)[k] = IF k < i THEN s[k] ELSE s[k + 1]
<1> DEFINE V == {s[k] : k \in DOMAIN s}
           u == SubSeq(s, 1, i - 1)
           w == SubSeq(s, i + 1, Len(s))
<1>1. s \in Seq(V) /\ Len(s) \in Nat /\ i \in 1 .. Len(s)
  BY SeqFacts
<1> HIDE DEF V
<1>2. /\ u \in Seq(V) /\ Len(u) = i - 1 /\ \A k \in 1 .. i - 1 : u[k] = s[k]
  BY <1>1
<1>3. /\ w \in Seq(V) /\ Len(w) = Len(s) - i /\ \A k \in 1 .. Len(s) - i : w[k] = s[i + k]
  BY <1>1
<1>4. M!RemoveAt(s, i) = u \o w
  BY DEF M!RemoveAt
<1>5. IsSeq(u) /\ IsSeq(w)
  BY <1>2, <1>3, SeqIs
<1> HIDE DEF u, w
<1>8. Len(u) + Len(w) = Len(s) - 1
  BY <1>1, <1>2, <1>3
<1>6. /\ IsSeq(u \o w) /\ DOMAIN (u \o w) = 1 .. Len(s) - 1
      /\ \A k \in 1 .. Len(s) - 1 : (u \o w)[k] = IF k <= i - 1 THEN u[k] ELSE w[k - (i - 1)]
  <2>1. /\ IsSeq(u \o w) /\ DOMAIN (u \o w) = 1 .. Len(u) + Len(w)
        /\ \A k \in 1 .. Len(u) + Len(w) :
             (u \o w)[k] = IF k <= Len(u) THEN u[k] ELSE w[k - Len(u)]
    BY <1>5, SeqJoined
  <2>2. Len(u) = i - 1
    BY <1>2
  <2> QED
    BY <1>8, <2>1, <2>2
<1>7. ASSUME NEW k \in 1 .. Len(s) - 1
      PROVE  (u \o w)[k] = IF k < i THEN s[k] ELSE s[k + 1]
  <2>1. CASE k < i
    BY <1>1, <1>2, <1>6, <2>1
  <2>2. CASE k >= i
    <3>1. k - (i - 1) \in 1 .. Len(s) - i
      BY <1>1, <2>2
    <3>2. w[k - (i - 1)] = s[i + (k - (i - 1))] /\ i + (k - (i - 1)) = k + 1
      BY <1>1, <1>3, <3>1
    <3>3. (u \o w)[k] = w[k - (i - 1)]
      BY <1>1, <1>6, <2>2
    <3> QED
      BY <1>1, <2>2, <3>2, <3>3
  <2>3. k < i \/ k >= i
    BY <1>1
  <2> QED
    BY <2>1, <2>2, <2>3
<1> QED
  BY <1>4, <1>6, <1>7

(* No two regions of a memory that acquire_address chose overlap.          *)
Disjoint(m) ==
  /\ \A i, l \in DOMAIN m.memory_map : i # l => Apart(m.memory_map[i], m.memory_map[l])
  /\ \A i, l \in DOMAIN m.internal_map : i # l => Apart(m.internal_map[i], m.internal_map[l])
  /\ \A i \in DOMAIN m.memory_map, l \in DOMAIN m.internal_map :
       Apart(m.memory_map[i], m.internal_map[l])
MemOK(m) ==
  MemShaped(m) /\ RegionsOK(m.memory_map) /\ RegionsOK(m.internal_map) /\ Disjoint(m)

(* Each mapping of the host is one that exists there, of its own.          *)
Backed(m, h) ==
  /\ \A i \in DOMAIN m.memory_map :
       m.memory_map[i].id \in DOMAIN h /\ h[m.memory_map[i].id].exists
  /\ \A i, l \in DOMAIN m.memory_map : i # l => m.memory_map[i].id # m.memory_map[l].id

LEMMA ApartKept ==
    ASSUME setting' = setting
    PROVE  \A r, q : Apart(r, q) => Apart(r, q)'
BY DEF Apart, M!Chosen, M!Covered, M!PageSize, M!Addresses, M!RoundUp

LEMMA OfSetting ==
    ASSUME setting' = setting, NEW d, MemOK(mem'[d])
    PROVE  MemOK(mem[d])'
<1>1. RegionsOK(mem[d].memory_map)' /\ RegionsOK(mem[d].internal_map)'
  BY DEF MemOK, RegionsOK, IsRegion
<1>2. Disjoint(mem[d])'
  BY ApartKept DEF MemOK, Disjoint
<1>3. MemShaped(mem[d])'
  BY DEF MemOK
<1> QED
  BY <1>1, <1>2, <1>3 DEF MemOK

CheckpointOK == checkpoint # M!Fresh => MemOK(M!ReadBack(checkpoint[1]))

MemInv ==
  /\ setting \in Memories /\ base_addr \in Nat
  /\ IsSeq(mem) /\ 1 \in DOMAIN mem /\ HostShaped(host)
  /\ \A c \in DOMAIN mem : MemOK(mem[c])
  /\ Len(mem) = 1 => Backed(mem[1], host)
  /\ CheckpointOK

LEMMA SettingIs ==
    ASSUME MemInv
    PROVE  /\ P \in Nat \ {0} /\ setting.Top \in Nat /\ setting.Sets \in Nat \ {0}
           /\ setting.Hints \subseteq Nat /\ setting.Lens \subseteq Nat \ {0} /\ setting.Sizes \subseteq Nat
           /\ setting.Kinds \subseteq {"fixed", "anon", "shared", "private"}
  BY MemoriesAssumption DEF MemInv, P

LEMMA SavedOK ==
    ASSUME setting' = setting, MemOK(M!ReadBack(checkpoint'[1]))
    PROVE  CheckpointOK'
<1>1. RegionsOK(M!ReadBack(checkpoint[1]).memory_map)' /\ RegionsOK(M!ReadBack(checkpoint[1]).internal_map)'
  BY DEF MemOK, RegionsOK, IsRegion
<1>2. Disjoint(M!ReadBack(checkpoint[1]))'
  BY ApartKept DEF MemOK, Disjoint
<1>3. MemShaped(M!ReadBack(checkpoint[1]))'
  BY DEF MemOK
<1>4. (checkpoint # M!Fresh => MemOK(M!ReadBack(checkpoint[1])))'
  BY <1>1, <1>2, <1>3 DEF MemOK
<1> QED
  BY <1>4 DEF CheckpointOK

LEMMA SameCheckpoint ==
    ASSUME setting' = setting, checkpoint' = checkpoint, CheckpointOK
    PROVE  CheckpointOK'
<1>1. CASE checkpoint # M!Fresh
  BY <1>1, SavedOK DEF CheckpointOK
<1>2. CASE checkpoint = M!Fresh
  BY <1>2 DEF CheckpointOK, M!Fresh
<1> QED
  BY <1>1, <1>2

(* A list whose regions are those of another one, each at most once, and    *)
(* at most once r, where the place is 0.                                   *)
Rearranged(f, new, old, r) ==
  /\ IsSeq(new) /\ f \in [DOMAIN new -> DOMAIN old \cup {0}]
  /\ \A i, l \in DOMAIN new : i # l => f[i] # f[l]
  /\ \A i \in DOMAIN new : new[i] = IF f[i] = 0 THEN r ELSE old[f[i]]
Adds(f) == \E i \in DOMAIN f : f[i] = 0
FitsIn(m, r) ==
  /\ IsRegion(r)
  /\ \A i \in DOMAIN m.memory_map : Apart(m.memory_map[i], r) /\ Apart(r, m.memory_map[i])
  /\ \A i \in DOMAIN m.internal_map : Apart(m.internal_map[i], r) /\ Apart(r, m.internal_map[i])

LEMMA MemFrom ==
    ASSUME NEW m, MemOK(m), NEW w, MemShaped(w), NEW r, NEW f, NEW g,
           Rearranged(f, w.memory_map, m.memory_map, r),
           Rearranged(g, w.internal_map, m.internal_map, r),
           Adds(f) \/ Adds(g) => FitsIn(m, r), ~(Adds(f) /\ Adds(g))
    PROVE  MemOK(w)
<1>1. RegionsOK(w.memory_map) /\ RegionsOK(w.internal_map)
  BY DEF RegionsOK, Rearranged, MemOK, FitsIn, Adds
<1>2. ASSUME NEW i \in DOMAIN w.memory_map, NEW l \in DOMAIN w.memory_map, i # l
      PROVE  Apart(w.memory_map[i], w.memory_map[l])
  <2>1. CASE f[i] # 0 /\ f[l] # 0
    BY <1>2, <2>1 DEF Rearranged, MemOK, Disjoint
  <2>2. CASE f[i] = 0 \/ f[l] = 0
    BY <1>2, <2>2 DEF Rearranged, FitsIn, Adds
  <2> QED
    BY <2>1, <2>2
<1>3. ASSUME NEW i \in DOMAIN w.internal_map, NEW l \in DOMAIN w.internal_map, i # l
      PROVE  Apart(w.internal_map[i], w.internal_map[l])
  <2>1. CASE g[i] # 0 /\ g[l] # 0
    BY <1>3, <2>1 DEF Rearranged, MemOK, Disjoint
  <2>2. CASE g[i] = 0 \/ g[l] = 0
    BY <1>3, <2>2 DEF Rearranged, FitsIn, Adds
  <2> QED
    BY <2>1, <2>2
<1>4. ASSUME NEW i \in DOMAIN w.memory_map, NEW l \in DOMAIN w.internal_map
      PROVE  Apart(w.memory_map[i], w.internal_map[l])
  <2>1. CASE f[i] # 0 /\ g[l] # 0
    BY <2>1 DEF Rearranged, MemOK, Disjoint
  <2>2. CASE f[i] = 0 \/ g[l] = 0
    BY <2>2 DEF Rearranged, FitsIn, Adds
  <2> QED
    BY <2>1, <2>2
<1> QED
  BY <1>1, <1>2, <1>3, <1>4 DEF MemOK, Disjoint

LEMMA SameArranged ==
    ASSUME NEW s, IsSeq(s), NEW r
    PROVE  \E f : Rearranged(f, s, s, r) /\ ~Adds(f)
<1> DEFINE f == [i \in DOMAIN s |-> i]
<1>1. DOMAIN s = 1 .. Len(s)
  BY SeqFacts
<1>2. Rearranged(f, s, s, r)
  BY <1>1 DEF Rearranged
<1>3. ~Adds(f)
  BY <1>1 DEF Adds
<1> HIDE DEF f
<1> QED
  BY <1>2, <1>3

LEMMA AppendArranged ==
    ASSUME NEW s, IsSeq(s), NEW r
    PROVE  \E f : Rearranged(f, Append(s, r), s, r)
<1> DEFINE f == [i \in 1 .. Len(s) + 1 |-> IF i = Len(s) + 1 THEN 0 ELSE i]
<1>1. DOMAIN s = 1 .. Len(s) /\ Len(s) \in Nat
  BY SeqFacts
<1>2. /\ IsSeq(Append(s, r)) /\ DOMAIN Append(s, r) = 1 .. Len(s) + 1
      /\ \A k \in 1 .. Len(s) + 1 : Append(s, r)[k] = IF k = Len(s) + 1 THEN r ELSE s[k]
  BY SeqAppended
<1> DEFINE t == Append(s, r)
<1> HIDE DEF t
<1>3. Rearranged(f, t, s, r)
  <2>1. f \in [DOMAIN t -> DOMAIN s \cup {0}]
    BY <1>1, <1>2 DEF t
  <2>2. \A i, l \in 1 .. Len(s) + 1 : i # l => f[i] # f[l]
    BY <1>1
  <2>3. \A i \in 1 .. Len(s) + 1 : t[i] = IF f[i] = 0 THEN r ELSE s[f[i]]
    BY <1>1, <1>2 DEF t
  <2> QED
    BY <1>2, <2>1, <2>2, <2>3 DEF Rearranged, t
<1> QED
  BY <1>3 DEF t

LEMMA PrependArranged ==
    ASSUME NEW s, IsSeq(s), NEW r
    PROVE  \E f : Rearranged(f, <<r>> \o s, s, r)
<1> DEFINE f == [i \in 1 .. Len(s) + 1 |-> i - 1]
<1>1. DOMAIN s = 1 .. Len(s) /\ Len(s) \in Nat
  BY SeqFacts
<1> DEFINE t == <<r>> \o s
<1>2. /\ IsSeq(t) /\ DOMAIN t = 1 .. Len(s) + 1
      /\ \A k \in 1 .. Len(s) + 1 : t[k] = IF k = 1 THEN r ELSE s[k - 1]
  <2>1. IsSeq(<<r>>) /\ Len(<<r>>) = 1 /\ <<r>>[1] = r
    <3>1. <<r>> \in Seq({r})
      OBVIOUS
    <3> QED
      BY <3>1, SeqIs
  <2>2. /\ IsSeq(t) /\ DOMAIN t = 1 .. 1 + Len(s)
        /\ \A k \in 1 .. 1 + Len(s) : t[k] = IF k <= 1 THEN <<r>>[k] ELSE s[k - 1]
    BY <2>1, SeqJoined
  <2> HIDE DEF t
  <2> QED
    BY <1>1, <2>1, <2>2
<1> HIDE DEF t
<1>3. Rearranged(f, t, s, r)
  <2>1. f \in [DOMAIN t -> DOMAIN s \cup {0}]
    BY <1>1, <1>2
  <2>2. \A i, l \in 1 .. Len(s) + 1 : i # l => f[i] # f[l]
    BY <1>1
  <2>3. \A i \in 1 .. Len(s) + 1 : t[i] = IF f[i] = 0 THEN r ELSE s[f[i]]
    BY <1>1, <1>2
  <2> QED
    BY <1>2, <2>1, <2>2, <2>3 DEF Rearranged
<1> QED
  BY <1>3 DEF t

LEMMA RemoveArranged ==
    ASSUME NEW s, IsSeq(s), NEW k \in DOMAIN s, NEW r
    PROVE  \E f : /\ Rearranged(f, M!RemoveAt(s, k), s, r) /\ ~Adds(f)
                  /\ \A i \in DOMAIN f : f[i] # k
<1> DEFINE f == [i \in 1 .. Len(s) - 1 |-> IF i < k THEN i ELSE i + 1]
           t == M!RemoveAt(s, k)
<1>1. DOMAIN s = 1 .. Len(s) /\ Len(s) \in Nat
  BY SeqFacts
<1>2. /\ IsSeq(t) /\ DOMAIN t = 1 .. Len(s) - 1
      /\ \A i \in 1 .. Len(s) - 1 : t[i] = IF i < k THEN s[i] ELSE s[i + 1]
  BY SeqRemoved
<1> HIDE DEF t
<1>3. Rearranged(f, t, s, r)
  <2>1. f \in [DOMAIN t -> DOMAIN s \cup {0}]
    BY <1>1, <1>2
  <2>2. \A i, l \in 1 .. Len(s) - 1 : i # l => f[i] # f[l]
    BY <1>1
  <2>3. \A i \in 1 .. Len(s) - 1 : t[i] = IF f[i] = 0 THEN r ELSE s[f[i]]
    BY <1>1, <1>2
  <2> QED
    BY <1>2, <2>1, <2>2, <2>3 DEF Rearranged
<1>4. ~Adds(f) /\ \A i \in DOMAIN f : f[i] # k
  BY <1>1 DEF Adds
<1> HIDE DEF f
<1> QED
  BY <1>3, <1>4 DEF t

LEMMA InheritArranged ==
    ASSUME NEW s, IsSeq(s), NEW r
    PROVE  \E f : /\ Rearranged(f, M!Inherited(s), s, r) /\ ~Adds(f)
                  /\ \A i \in DOMAIN f : "inherit" \in s[f[i]].flags
<1>1. DOMAIN s = 1 .. Len(s) /\ Len(s) \in Nat
  BY SeqFacts
<1>2. FromList(M!Inherited(s), s, Len(s))
  BY <1>1, InheritedFrom
<1>3. PICK n \in Nat : \E f : PickedBy(f, M!Inherited(s), s, Len(s), n)
  BY <1>2 DEF FromList
<1>4. PICK f : PickedBy(f, M!Inherited(s), s, Len(s), n)
  BY <1>3
<1> DEFINE t == M!Inherited(s)
<1>5. /\ f \in [1 .. n -> 1 .. Len(s)]
      /\ t = [i \in 1 .. n |-> s[f[i]]]
      /\ \A i \in 1 .. n : "inherit" \in t[i].flags
      /\ \A i, l \in 1 .. n : i # l => f[i] # f[l]
  BY <1>4 DEF PickedBy
<1> HIDE DEF t
<1>6. IsSeq(t) /\ DOMAIN t = 1 .. n
  BY <1>5 DEF IsSeq
<1>7. Rearranged(f, t, s, r)
  BY <1>1, <1>5, <1>6 DEF Rearranged
<1>8. ~Adds(f) /\ \A i \in DOMAIN f : "inherit" \in s[f[i]].flags
  BY <1>1, <1>5 DEF Adds
<1> QED
  BY <1>7, <1>8 DEF t

(* One program's memory is w now.                                          *)
LEMMA NowIs ==
    ASSUME MemInv, NEW c \in DOMAIN mem, NEW w, MemOK(w), mem' = [mem EXCEPT ![c] = w],
           HostShaped(host'), Len(mem) = 1 => Backed(w, host'),
           setting' = setting, base_addr' \in Nat, checkpoint' = checkpoint
    PROVE  MemInv'
<1>1. IsSeq(mem) /\ DOMAIN mem = 1 .. Len(mem) /\ Len(mem) \in Nat
  BY SeqFacts DEF MemInv
<1>2. mem' = [k \in 1 .. Len(mem) |-> mem'[k]]
  BY <1>1
<1>3. IsSeq(mem')
  BY <1>1, <1>2 DEF IsSeq
<1>4. DOMAIN mem' = 1 .. Len(mem) /\ Len(mem') = Len(mem)
  <2>1. DOMAIN mem' = 1 .. Len(mem') /\ Len(mem') \in Nat
    BY <1>3, SeqFacts
  <2>2. DOMAIN mem' = 1 .. Len(mem)
    BY <1>1
  <2> QED
    BY <1>1, <2>1, <2>2
<1>5. \A d \in DOMAIN mem' : MemOK(mem'[d])
  BY <1>1, <1>4 DEF MemInv
<1>6. (\A d \in DOMAIN mem : MemOK(mem[d]))'
  BY <1>5, OfSetting
<1>7. (Len(mem) = 1 => Backed(mem[1], host))'
  <2>1. Len(mem) = 1 => Backed(mem'[1], host')
    BY <1>1
  <2> QED
    BY <1>4, <2>1 DEF Backed
<1>8. CheckpointOK'
  BY SameCheckpoint DEF MemInv
<1>9. (1 \in DOMAIN mem)'
  BY <1>1, <1>4 DEF MemInv
<1> QED
  BY <1>3, <1>6, <1>7, <1>8, <1>9 DEF MemInv, HostShaped, IsSeq

LEMMA SameMapsOK ==
    ASSUME NEW m, MemOK(m), NEW w, SameMaps(m, w)
    PROVE  MemOK(w)
  BY DEF MemOK, SameMaps, Disjoint

LEMMA StateShaped ==
    ASSUME MemInv, NEW c \in DOMAIN mem
    PROVE  /\ Kept(M!State(c), M!State(c)) /\ M!State(c).mem = mem[c] /\ M!State(c).host = host
           /\ MemOK(mem[c])
  BY DEF M!State, Kept, SameMaps, SameHosts, MemInv, MemOK

LEMMA BackedStays ==
    ASSUME NEW m, NEW w, NEW h, NEW g, SameMaps(m, w), SameHosts(h, g), Backed(m, h)
    PROVE  Backed(w, g)
  BY DEF SameMaps, SameHosts, Backed

(* A read or a write, whatever it meets.                                   *)
LEMMA AccessKept ==
    ASSUME MemInv, NEW c \in M!Programs, M!Access(c)
    PROVE  MemInv'
<1>1. PICK addr \in setting.Accessed, n \in setting.Sizes, v \in setting.Writes \cup {M!Nothing},
           direct \in BOOLEAN : M!mem_access(c, addr, n, v, direct)
  BY DEF M!Access
<1>2. c \in DOMAIN mem /\ n \in Nat
  BY SettingIs DEF M!Programs
<1> DEFINE t == M!Done(M!State(c), M!Units(mem[c], addr, n, v))
<1>3. /\ setting' = setting /\ base_addr' = base_addr /\ checkpoint' = checkpoint
      /\ UNCHANGED <<mem, host>> \/ (mem' = [mem EXCEPT ![c] = t.mem] /\ host' = t.host)
  BY <1>1 DEF M!mem_access, M!Becomes
<1>4. Kept(M!State(c), t)
  <2>1. DOMAIN M!Units(mem[c], addr, n, v) = 1 .. n
    BY DEF M!Units
  <2> QED
    BY <1>2, <2>1, StateShaped, DoneKeeps
<1> HIDE DEF t
<1>5. SameMaps(mem[c], t.mem) /\ SameHosts(host, t.host)
  BY <1>2, <1>4, StateShaped DEF Kept
<1>6. CASE mem' = [mem EXCEPT ![c] = t.mem] /\ host' = t.host
  <2>1. MemOK(t.mem)
    BY <1>2, <1>5, SameMapsOK DEF MemInv
  <2>2. HostShaped(host') /\ base_addr' \in Nat
    BY <1>3, <1>5, <1>6 DEF SameHosts, MemInv
  <2>3. Len(mem) = 1 => Backed(t.mem, host')
    <3>1. Len(mem) = 1 => c = 1
      BY <1>2, SeqFacts DEF MemInv
    <3> QED
      BY <1>5, <1>6, <3>1, BackedStays DEF MemInv
  <2> QED
    BY <1>2, <1>3, <1>6, <2>1, <2>2, <2>3, NowIs
<1>7. CASE UNCHANGED <<mem, host>>
  <2>1. mem' = [mem EXCEPT ![c] = mem[c]]
    BY <1>2, <1>7, SeqFacts DEF MemInv
  <2>2. Len(mem) = 1 => Backed(mem[c], host')
    <3>1. Len(mem) = 1 => c = 1
      BY <1>2, SeqFacts DEF MemInv
    <3> QED
      BY <1>7, <3>1 DEF MemInv
  <2>3. HostShaped(host') /\ base_addr' \in Nat /\ MemOK(mem[c])
    BY <1>2, <1>3, <1>7 DEF MemInv
  <2> QED
    BY <1>2, <1>3, <2>1, <2>2, <2>3, NowIs
<1> QED
  BY <1>3, <1>6, <1>7

LEMMA MaxIn ==
    ASSUME NEW n \in Nat, NEW t \in SUBSET (0 .. n), t # {}
    PROVE  M!Max(t) \in t
<1> DEFINE left == {n - k : k \in t}
<1>1. left \in SUBSET Nat /\ left # {}
  <2>1. \A k \in t : n - k \in Nat
    OBVIOUS
  <2>2. PICK k \in t : TRUE
    OBVIOUS
  <2> QED
    BY <2>1, <2>2
<1> HIDE DEF left
<1>2. PICK x \in left : \A y \in left : x <= y
  BY <1>1, LeastNat
<1>3. PICK m \in t : x = n - m
  BY <1>2 DEF left
<1>4. t \subseteq Int /\ \A k \in t : k <= m
  <2> SUFFICES ASSUME NEW k \in t PROVE k <= m
    OBVIOUS
  <2>1. n - k \in left
    BY DEF left
  <2> QED
    BY <1>2, <1>3, <2>1
<1> QED
  BY <1>4, MaxIs

LEMMA CopiedKeeps ==
    ASSUME NEW s, Kept(s, s), NEW addr, NEW values, Len(values) \in Nat
    PROVE  Kept(s, M!Copied(s, addr, values))
<1> DEFINE fits == {k \in 0 .. Len(values) :
                     \A i \in 1 .. k : M!Fault(s.mem, addr + i - 1, 1, "write", FALSE) = "none"}
           units == [k \in 1 .. M!Max(fits) |->
                       M!Unit(M!Meets(s.mem, addr + k - 1), addr + k - 1, values[k])]
<1>1. M!Copied(s, addr, values) = M!Done(s, units)
  BY DEF M!Copied
<1>2. M!Max(fits) \in Nat
  <2>1. fits \in SUBSET (0 .. Len(values))
    OBVIOUS
  <2>2. 0 \in fits
    <3>1. 0 \in 0 .. Len(values) /\ \A i \in 1 .. 0 : FALSE
      OBVIOUS
    <3> QED
      BY <3>1
  <2> HIDE DEF fits
  <2>3. M!Max(fits) \in fits
    BY <2>1, <2>2, MaxIn
  <2>4. M!Max(fits) \in 0 .. Len(values)
    BY <2>1, <2>3
  <2> QED
    BY <2>4
<1>3. DOMAIN units = 1 .. M!Max(fits)
  OBVIOUS
<1> HIDE DEF fits, units
<1> QED
  BY <1>1, <1>2, <1>3, DoneKeeps

LEMMA MaxOfTwo ==
    ASSUME NEW a \in Nat, NEW b \in Nat
    PROVE  M!Max({a, b}) \in Nat /\ M!Max({a, b}) >= a /\ M!Max({a, b}) >= b
<1>1. CASE a <= b
  <2>1. b \in {a, b} /\ {a, b} \subseteq Int /\ \A k \in {a, b} : k <= b
    BY <1>1
  <2>2. M!Max({a, b}) = b
    BY <2>1, MaxIs
  <2> QED
    BY <1>1, <2>2
<1>2. CASE b <= a
  <2>1. a \in {a, b} /\ {a, b} \subseteq Int /\ \A k \in {a, b} : k <= a
    BY <1>2
  <2>2. M!Max({a, b}) = a
    BY <2>1, MaxIs
  <2> QED
    BY <1>2, <2>2
<1> QED
  BY <1>1, <1>2

(* A region at the place that was given is apart from all others, and so   *)
(* is one that nobody chose.                                               *)
LEMMA PlaceFits ==
    ASSUME MemInv, NEW m, MemOK(m), NEW hint \in Nat, NEW r, IsRegion(r),
           r.base = M!acquire_address(m, hint, r.size) \/ ~M!Chosen(r)
    PROVE  FitsIn(m, r)
<1>1. CASE ~M!Chosen(r)
  BY <1>1 DEF FitsIn, Apart
<1>2. CASE r.base = M!acquire_address(m, hint, r.size)
  <2>1. /\ \A i \in DOMAIN m.memory_map : Misses(m.memory_map[i], r.base, r.size)
        /\ \A i \in DOMAIN m.internal_map : Misses(m.internal_map[i], r.base, r.size)
    BY <1>2, PlaceMisses, SettingIs DEF MemInv, MemOK
  <2>2. /\ \A i \in DOMAIN m.memory_map : IsRegion(m.memory_map[i])
        /\ \A i \in DOMAIN m.internal_map : IsRegion(m.internal_map[i])
    BY DEF MemOK, RegionsOK
  <2> QED
    BY <2>1, <2>2, MissesApart, SettingIs DEF FitsIn
<1> QED
  BY <1>1, <1>2

LEMMA InsideOK ==
    ASSUME NEW s, MemOK(s.mem), {"mem", "host", "file"} \subseteq DOMAIN s, NEW r, FitsIn(s.mem, r),
           NEW front \in BOOLEAN
    PROVE  LET w == M!WithRegion(s, r, front)
           IN  /\ MemOK(w.mem) /\ w.mem.memory_map = s.mem.memory_map /\ w.host = s.host
               /\ {"mem", "host", "file"} \subseteq DOMAIN w
<1> DEFINE w == M!WithRegion(s, r, front)
           new == IF front THEN <<r>> \o s.mem.internal_map ELSE Append(s.mem.internal_map, r)
<1>1. /\ MemShaped(w.mem) /\ w.mem.memory_map = s.mem.memory_map /\ w.mem.internal_map = new
      /\ w.host = s.host /\ {"mem", "host", "file"} \subseteq DOMAIN w
  BY DEF M!WithRegion, MemOK, MemShaped
<1>2. IsSeq(s.mem.memory_map) /\ IsSeq(s.mem.internal_map)
  BY DEF MemOK, RegionsOK
<1>3. PICK f : Rearranged(f, s.mem.memory_map, s.mem.memory_map, r) /\ ~Adds(f)
  BY <1>2, SameArranged
<1>4. PICK g : Rearranged(g, new, s.mem.internal_map, r)
  <2>1. CASE front
    BY <1>2, <2>1, PrependArranged
  <2>2. CASE ~front
    BY <1>2, <2>2, AppendArranged
  <2> QED
    BY <2>1, <2>2
<1> HIDE DEF w, new
<1>5. MemOK(w.mem)
  BY <1>1, <1>3, <1>4, MemFrom
<1> QED
  BY <1>1, <1>5 DEF w

(* A memory with a new region, and what it is backed by.                   *)
LEMMA MapBecomes ==
    ASSUME MemInv, NEW c \in DOMAIN mem, NEW s, Kept(s, s), MemOK(s.mem), M!Becomes(c, s),
           s.mem.memory_map = mem[c].memory_map, SameHosts(host, s.host),
           setting' = setting, base_addr' \in Nat, checkpoint' = checkpoint
    PROVE  MemInv'
<1>1. HostShaped(host')
  BY DEF M!Becomes, SameHosts
<1>2. Len(mem) = 1 => Backed(s.mem, host')
  <2>1. Len(mem) = 1 => c = 1
    BY SeqFacts DEF MemInv
  <2> QED
    BY <2>1 DEF MemInv, Backed, SameHosts, M!Becomes
<1>3. mem' = [mem EXCEPT ![c] = s.mem]
  BY DEF M!Becomes
<1> QED
  BY <1>1, <1>2, <1>3, NowIs

LEMMA MapInside ==
    ASSUME MemInv, NEW c \in DOMAIN mem, NEW hint \in Nat, NEW r, IsRegion(r), NEW values, Len(values) \in Nat,
           r.base = M!acquire_address(mem[c], hint, r.size) \/ ~M!Chosen(r),
           \/ M!Becomes(c, M!Copied(M!WithRegion(M!State(c), r, TRUE), r.base, values))
           \/ M!Becomes(c, M!WithRegion(M!Copied(M!State(c), r.base, values), r, FALSE)),
           setting' = setting, base_addr' \in Nat, checkpoint' = checkpoint
    PROVE  MemInv'
<1>1. /\ Kept(M!State(c), M!State(c)) /\ M!State(c).mem = mem[c] /\ M!State(c).host = host
      /\ MemOK(mem[c])
  BY StateShaped
<1>2. FitsIn(mem[c], r)
  BY <1>1, PlaceFits
<1>3. CASE M!Becomes(c, M!Copied(M!WithRegion(M!State(c), r, TRUE), r.base, values))
  <2> DEFINE w == M!WithRegion(M!State(c), r, TRUE)
             t == M!Copied(w, r.base, values)
  <2>1. /\ MemOK(w.mem) /\ w.mem.memory_map = mem[c].memory_map /\ w.host = host
        /\ {"mem", "host", "file"} \subseteq DOMAIN w
    BY <1>1, <1>2, InsideOK DEF Kept
  <2> HIDE DEF w
  <2>2. Kept(w, w)
    BY <1>1, <2>1 DEF Kept, SameMaps, SameHosts, MemOK
  <2>3. Kept(w, t)
    BY <2>2, CopiedKeeps
  <2> HIDE DEF t
  <2>4. MemOK(t.mem)
    BY <2>1, <2>3, SameMapsOK DEF Kept
  <2>5. Kept(t, t) /\ SameHosts(host, t.host) /\ t.mem.memory_map = mem[c].memory_map
    BY <2>1, <2>3 DEF Kept, SameMaps, SameHosts
  <2>6. M!Becomes(c, t)
    BY <1>3 DEF t, w
  <2> QED
    BY <2>4, <2>5, <2>6, MapBecomes
<1>4. CASE M!Becomes(c, M!WithRegion(M!Copied(M!State(c), r.base, values), r, FALSE))
  <2> DEFINE t == M!Copied(M!State(c), r.base, values)
             w == M!WithRegion(t, r, FALSE)
  <2>1. Kept(M!State(c), t)
    BY <1>1, CopiedKeeps
  <2> HIDE DEF t
  <2>2. MemOK(t.mem) /\ {"mem", "host", "file"} \subseteq DOMAIN t
    BY <1>1, <2>1, SameMapsOK DEF Kept
  <2>3. FitsIn(t.mem, r)
    BY <1>1, <1>2, <2>1 DEF FitsIn, Kept, SameMaps
  <2>4. /\ MemOK(w.mem) /\ w.mem.memory_map = t.mem.memory_map /\ w.host = t.host
        /\ {"mem", "host", "file"} \subseteq DOMAIN w
    BY <2>2, <2>3, InsideOK
  <2> HIDE DEF w
  <2>5. Kept(w, w) /\ SameHosts(host, w.host) /\ w.mem.memory_map = mem[c].memory_map
    BY <1>1, <2>1, <2>4 DEF Kept, SameMaps, SameHosts, MemOK
  <2>6. M!Becomes(c, w)
    BY <1>4 DEF t, w
  <2> QED
    BY <2>4, <2>5, <2>6, MapBecomes
<1> QED
  BY <1>3, <1>4

LEMMA MapOutside ==
    ASSUME MemInv, NEW c \in DOMAIN mem, NEW hint \in Nat, NEW r, IsRegion(r), NEW kind,
           r.base = M!acquire_address(mem[c], hint, r.size), r.id = Len(host) + 1,
           M!Becomes(c, M!WithHostRegion(M!State(c), r, kind)),
           setting' = setting, base_addr' \in Nat, checkpoint' = checkpoint
    PROVE  MemInv'
<1> DEFINE s == M!WithHostRegion(M!State(c), r, kind)
           m == mem[c]
           new == Append(m.memory_map, r)
<1>1. MemOK(m) /\ FitsIn(m, r) /\ IsSeq(m.memory_map) /\ IsSeq(m.internal_map) /\ MemShaped(m)
  BY StateShaped, PlaceFits DEF MemOK, RegionsOK
<1>2. /\ s.mem = [m EXCEPT !.memory_map = new]
      /\ s.host = Append(host, M!NewHost(kind, r.size))
  BY DEF M!WithHostRegion, M!State
<1> DEFINE w == [m EXCEPT !.memory_map = new]
<1>3. MemShaped(w) /\ w.memory_map = new /\ w.internal_map = m.internal_map
  BY <1>1 DEF MemShaped
<1>4. PICK f : Rearranged(f, new, m.memory_map, r)
  BY <1>1, AppendArranged
<1>5. PICK g : Rearranged(g, m.internal_map, m.internal_map, r) /\ ~Adds(g)
  BY <1>1, SameArranged
<1>6. MemOK(w)
  <2> HIDE DEF w, new, m
  <2> QED
    BY <1>1, <1>3, <1>4, <1>5, MemFrom
<1>7. /\ IsSeq(host) /\ Len(host) \in Nat /\ DOMAIN host = 1 .. Len(host)
      /\ \A h \in DOMAIN host : "exists" \in DOMAIN host[h]
  BY SeqFacts DEF MemInv, HostShaped
<1>8. /\ IsSeq(host') /\ DOMAIN host' = 1 .. Len(host) + 1
      /\ \A h \in 1 .. Len(host) + 1 :
           host'[h] = IF h = Len(host) + 1 THEN M!NewHost(kind, r.size) ELSE host[h]
  <2>1. host' = Append(host, M!NewHost(kind, r.size))
    BY <1>2 DEF M!Becomes
  <2> QED
    BY <1>7, <2>1, SeqAppended
<1>9. HostShaped(host')
  <2>1. "exists" \in DOMAIN M!NewHost(kind, r.size)
    BY DEF M!NewHost
  <2> QED
    BY <1>7, <1>8, <2>1 DEF HostShaped
<1>10. Len(mem) = 1 => Backed(w, host')
  <2> SUFFICES ASSUME Len(mem) = 1 PROVE Backed(w, host')
    OBVIOUS
  <2>1. Backed(m, host)
    <3>1. c = 1
      BY SeqFacts DEF MemInv
    <3> QED
      BY <3>1 DEF MemInv
  <2>2. M!NewHost(kind, r.size).exists
    BY DEF M!NewHost
  <2>3. /\ DOMAIN new = 1 .. Len(m.memory_map) + 1 /\ DOMAIN m.memory_map = 1 .. Len(m.memory_map)
        /\ Len(m.memory_map) \in Nat
        /\ \A k \in 1 .. Len(m.memory_map) + 1 :
             new[k] = IF k = Len(m.memory_map) + 1 THEN r ELSE m.memory_map[k]
    BY <1>1, SeqAppended, SeqFacts
  <2> HIDE DEF new, w, m
  <2> DEFINE n == Len(m.memory_map)
             hn == Len(host)
  <2>a. n \in Nat /\ hn \in Nat /\ new[n + 1] = r /\ DOMAIN new = 1 .. n + 1
    BY <1>7, <2>3
  <2>b. ASSUME NEW k \in 1 .. n
        PROVE  new[k] = m.memory_map[k] /\ new[k].id \in 1 .. hn /\ host[new[k].id].exists
    <3>1. k # n + 1 /\ k \in 1 .. n + 1 /\ k \in DOMAIN m.memory_map
      BY <2>a, <2>3
    <3>2. new[k] = m.memory_map[k]
      BY <2>3, <3>1
    <3> QED
      BY <1>7, <2>1, <3>1, <3>2 DEF Backed
  <2>c. /\ DOMAIN host' = 1 .. hn + 1 /\ host'[hn + 1].exists
        /\ \A h \in 1 .. hn : host'[h] = host[h]
    BY <1>8, <2>2, <2>a
  <2>d. \A k \in 1 .. n + 1 : k \in 1 .. n \/ k = n + 1
    BY <2>a
  <2>e. ASSUME NEW k \in 1 .. n, NEW l \in 1 .. n, k # l
        PROVE  new[k].id # new[l].id
    <3>1. k \in DOMAIN m.memory_map /\ l \in DOMAIN m.memory_map
      BY <2>3
    <3>2. m.memory_map[k].id # m.memory_map[l].id
      BY <2>1, <2>e, <3>1 DEF Backed
    <3> QED
      BY <2>b, <3>2
  <2> HIDE DEF n, hn
  <2>f. r.id = hn + 1
    BY DEF hn
  <2>4. \A k \in DOMAIN new : new[k].id \in DOMAIN host' /\ host'[new[k].id].exists
    BY <2>a, <2>b, <2>c, <2>d, <2>f
  <2>5. ASSUME NEW k \in DOMAIN new, NEW l \in DOMAIN new, k # l
        PROVE  new[k].id # new[l].id
    <3>1. CASE k \in 1 .. n /\ l \in 1 .. n
      BY <2>5, <2>e, <3>1
    <3>2. CASE k \in 1 .. n /\ l = n + 1
      <4>1. new[k].id \in 1 .. hn
        BY <2>b, <3>2
      <4> QED
        BY <2>a, <2>f, <3>2, <4>1
    <3>3. CASE k = n + 1 /\ l \in 1 .. n
      <4>1. new[l].id \in 1 .. hn
        BY <2>b, <3>3
      <4> QED
        BY <2>a, <2>f, <3>3, <4>1
    <3>4. k \in 1 .. n + 1 /\ l \in 1 .. n + 1
      BY <2>a
    <3> QED
      BY <2>5, <2>d, <3>1, <3>2, <3>3, <3>4
  <2> QED
    BY <1>3, <2>4, <2>5 DEF Backed
<1>11. mem' = [mem EXCEPT ![c] = w]
  BY <1>2 DEF M!Becomes
<1> HIDE DEF w
<1> QED
  BY <1>6, <1>9, <1>10, <1>11, NowIs

(* mem and host stay as they are.                                          *)
LEMMA MemStays ==
    ASSUME MemInv, NEW c \in DOMAIN mem, mem' = mem, host' = host, setting' = setting,
           base_addr' \in Nat, checkpoint' = checkpoint
    PROVE  MemInv'
<1>1. mem' = [mem EXCEPT ![c] = mem[c]]
  BY SeqFacts DEF MemInv
<1>2. Len(mem) = 1 => Backed(mem[c], host')
  <2>1. Len(mem) = 1 => c = 1
    BY SeqFacts DEF MemInv
  <2> QED
    BY <2>1 DEF MemInv
<1>3. HostShaped(host') /\ MemOK(mem[c])
  BY DEF MemInv
<1> QED
  BY <1>1, <1>2, <1>3, NowIs

(* mmap: a mapping in simulated memory or of the host, or nothing.          *)
LEMMA MapKept ==
    ASSUME MemInv, NEW c \in DOMAIN mem, NEW hint \in setting.Hints, NEW len \in setting.Lens,
           NEW fd, NEW prot, NEW flags, NEW kind \in setting.Kinds,
           M!mem_map(c, hint, fd, len, prot, flags, kind)
    PROVE  MemInv'
<1> DEFINE place == M!acquire_address(mem[c], hint, len)
           base == IF kind = "fixed" THEN hint ELSE place
           inside == M!Region(base, len, 0, prot,
                              IF kind = "fixed" THEN flags \cup {"fixed"} ELSE flags)
           outside(p) == M!Region(base, len, Len(host) + 1, p, flags)
           values == M!Contents(fd, len)
<1>1. /\ MemOK(mem[c]) /\ hint \in Nat /\ len \in Nat \ {0} /\ base_addr \in Nat
      /\ kind \in {"fixed", "anon", "shared", "private"}
      /\ P \in Nat \ {0} /\ setting.Top \in Nat /\ IsSeq(host)
  BY StateShaped, SettingIs DEF MemInv, HostShaped
<1>2. place \in Nat
  BY <1>1, PlaceMisses DEF MemOK
<1>3. /\ M!Max({base, place}) + len <= setting.Top
      /\ base_addr' = (IF hint = 0 THEN M!RoundUp(place + len) ELSE base_addr)
      /\ setting' = setting /\ checkpoint' = checkpoint
  BY DEF M!mem_map
<1>4. \/ UNCHANGED <<mem, host>>
      \/ kind = "fixed" /\ M!Becomes(c, M!Copied(M!WithRegion(M!State(c), inside, TRUE), base, values))
      \/ kind # "fixed" /\ M!Becomes(c, M!WithRegion(M!Copied(M!State(c), base, values), inside, FALSE))
      \/ kind # "fixed" /\ \E p : M!Becomes(c, M!WithHostRegion(M!State(c), outside(p), kind))
  <2> HIDE DEF place, values
  <2>1. CASE kind = "fixed"
    BY <2>1 DEF M!mem_map, place, values
  <2>2. CASE kind = "anon"
    BY <2>2 DEF M!mem_map, place, values
  <2>3. CASE kind = "shared"
    BY <2>3 DEF M!mem_map, place, values
  <2>4. CASE kind = "private"
    BY <2>4 DEF M!mem_map, place, values
  <2> QED
    BY <1>1, <2>1, <2>2, <2>3, <2>4
<1> HIDE DEF place
<1>5. base \in Nat /\ base + len <= setting.Top
  BY <1>1, <1>2, <1>3, MaxOfTwo
<1>6. base_addr' \in Nat
  <2>1. place + len \in Nat
    BY <1>1, <1>2
  <2>2. M!RoundUp(place + len) \in Nat
    <3>1. PICK k \in Nat : M!RoundUp(place + len) = k * P
      BY <1>1, <2>1, RoundedUp
    <3> QED
      BY <1>1, <3>1, SMT
  <2> QED
    BY <1>1, <1>3, <2>2
<1>7. Len(values) \in Nat
  <2> DEFINE V == {values[k] : k \in 1 .. len}
  <2>1. values \in [1 .. len -> V]
    BY DEF M!Contents
  <2>2. values \in Seq(V)
    BY <1>1, <2>1
  <2> QED
    BY <2>2
<1>8. IsRegion(inside) /\ inside.base = base /\ inside.size = len
  BY <1>1, <1>5 DEF IsRegion, M!Region
<1>9. inside.base = M!acquire_address(mem[c], hint, inside.size) \/ ~M!Chosen(inside)
  BY <1>8 DEF M!Chosen, M!Region, place
<1>10. CASE UNCHANGED <<mem, host>>
  BY <1>3, <1>6, <1>10, MemStays
<1> HIDE DEF inside, values
<1>11. CASE M!Becomes(c, M!Copied(M!WithRegion(M!State(c), inside, TRUE), base, values))
  <2>1. M!Becomes(c, M!Copied(M!WithRegion(M!State(c), inside, TRUE), inside.base, values))
    BY <1>8, <1>11
  <2> HIDE DEF base
  <2> QED
    BY <1>1, <1>3, <1>6, <1>7, <1>8, <1>9, <2>1, MapInside
<1>12. CASE M!Becomes(c, M!WithRegion(M!Copied(M!State(c), base, values), inside, FALSE))
  <2>1. M!Becomes(c, M!WithRegion(M!Copied(M!State(c), inside.base, values), inside, FALSE))
    BY <1>8, <1>12
  <2> HIDE DEF base
  <2> QED
    BY <1>1, <1>3, <1>6, <1>7, <1>8, <1>9, <2>1, MapInside
<1>13. CASE kind # "fixed" /\ \E p : M!Becomes(c, M!WithHostRegion(M!State(c), outside(p), kind))
  <2>1. PICK p : M!Becomes(c, M!WithHostRegion(M!State(c), outside(p), kind))
    BY <1>13
  <2> DEFINE r == outside(p)
  <2>2. Len(host) \in Nat
    BY <1>1, SeqFacts
  <2>3. IsRegion(r) /\ r.base = base /\ r.size = len /\ r.id = Len(host) + 1
    BY <1>1, <1>5, <2>2 DEF IsRegion, M!Region
  <2>4. r.base = M!acquire_address(mem[c], hint, r.size)
    BY <1>13, <2>3 DEF place
  <2>5. M!Becomes(c, M!WithHostRegion(M!State(c), r, kind))
    BY <2>1
  <2> HIDE DEF r, base
  <2> QED
    BY <1>1, <1>3, <1>6, <2>3, <2>4, <2>5, MapOutside
<1> QED
  BY <1>4, <1>10, <1>11, <1>12, <1>13

(* What is left of a memory, on a host where that has not changed.         *)
LEMMA BackedFrom ==
    ASSUME NEW m, NEW w, NEW h, NEW g, NEW f, NEW r, Backed(m, h),
           Rearranged(f, w.memory_map, m.memory_map, r), ~Adds(f), DOMAIN g = DOMAIN h,
           \A i \in DOMAIN f : g[m.memory_map[f[i]].id].exists = h[m.memory_map[f[i]].id].exists
    PROVE  Backed(w, g)
<1>1. ASSUME NEW i \in DOMAIN w.memory_map
      PROVE  f[i] \in DOMAIN m.memory_map /\ w.memory_map[i] = m.memory_map[f[i]] /\ i \in DOMAIN f
  BY DEF Rearranged, Adds
<1>2. \A i, l \in DOMAIN w.memory_map : i # l => f[i] # f[l]
  BY DEF Rearranged
<1> QED
  BY <1>1, <1>2 DEF Backed

LEMMA FirstAt ==
    ASSUME NEW s, IsSeq(s), NEW addr, M!At(s, addr) # {}
    PROVE  M!Min(M!At(s, addr)) \in DOMAIN s
<1>1. M!At(s, addr) \in SUBSET Nat
  BY SeqFacts DEF M!At
<1>2. M!Min(M!At(s, addr)) \in M!At(s, addr)
  BY <1>1, MinIn
<1> QED
  BY <1>2 DEF M!At

(* munmap: of the host a mapping that no other one of the program shows.   *)
LEMMA UnmapKept ==
    ASSUME MemInv, NEW c \in DOMAIN mem, NEW addr, M!mem_unmap(c, addr)
    PROVE  MemInv'
<1> DEFINE m == mem[c]
           h == M!At(m.memory_map, addr)
           i == M!At(m.internal_map, addr)
<1>1. /\ MemOK(m) /\ IsSeq(m.memory_map) /\ IsSeq(m.internal_map) /\ MemShaped(m)
      /\ HostShaped(host)
  BY StateShaped DEF MemOK, RegionsOK, MemInv
<1>2. setting' = setting /\ base_addr' \in Nat /\ checkpoint' = checkpoint
  BY DEF M!mem_unmap, MemInv
<1>3. CASE h # {}
  <2> DEFINE k == M!Min(h)
             id == m.memory_map[k].id
             w == [m EXCEPT !.memory_map = M!RemoveAt(m.memory_map, k)]
  <2>1. k \in DOMAIN m.memory_map
    BY <1>1, <1>3, FirstAt
  <2>2. mem' = [mem EXCEPT ![c] = w] /\ host' = [host EXCEPT ![id].exists = FALSE]
    BY <1>3 DEF M!mem_unmap
  <2>3. /\ MemShaped(w) /\ w.memory_map = M!RemoveAt(m.memory_map, k)
        /\ w.internal_map = m.internal_map
    BY <1>1 DEF MemShaped
  <2> HIDE DEF k, w, m
  <2>4. PICK f : /\ Rearranged(f, M!RemoveAt(m.memory_map, k), m.memory_map, 0) /\ ~Adds(f)
                 /\ \A l \in DOMAIN f : f[l] # k
    BY <1>1, <2>1, RemoveArranged
  <2>5. PICK g : Rearranged(g, m.internal_map, m.internal_map, 0) /\ ~Adds(g)
    BY <1>1, SameArranged
  <2>6. MemOK(w)
    BY <1>1, <2>3, <2>4, <2>5, MemFrom
  <2>7. HostShaped(host') /\ DOMAIN host' = DOMAIN host
    <3>1. PICK n \in Nat : host = [x \in 1 .. n |-> host[x]]
      BY <1>1 DEF HostShaped, IsSeq
    <3>2. DOMAIN host' = 1 .. n /\ host' = [x \in 1 .. n |-> host'[x]] /\ DOMAIN host = 1 .. n
      BY <2>2, <3>1
    <3>3. \A x \in DOMAIN host' : "exists" \in DOMAIN host'[x]
      BY <1>1, <2>2, <3>2 DEF HostShaped
    <3> QED
      BY <3>2, <3>3 DEF HostShaped, IsSeq
  <2>8. Len(mem) = 1 => Backed(w, host')
    <3> SUFFICES ASSUME Len(mem) = 1 PROVE Backed(w, host')
      OBVIOUS
    <3>1. Backed(m, host)
      <4>1. c = 1
        BY SeqFacts DEF MemInv
      <4> QED
        BY <4>1 DEF MemInv, m
    <3>2. ASSUME NEW l \in DOMAIN f
          PROVE  host'[m.memory_map[f[l]].id].exists = host[m.memory_map[f[l]].id].exists
      <4>1. f[l] \in DOMAIN m.memory_map /\ f[l] # k
        BY <2>4 DEF Rearranged, Adds
      <4>2. m.memory_map[f[l]].id # id /\ m.memory_map[f[l]].id \in DOMAIN host
        BY <2>1, <3>1, <4>1 DEF Backed
      <4> QED
        BY <2>2, <4>2
    <3> QED
      BY <2>3, <2>4, <2>7, <3>1, <3>2, BackedFrom
  <2> QED
    BY <1>2, <2>2, <2>6, <2>7, <2>8, NowIs
<1>4. CASE h = {}
  <2> DEFINE k == M!Min(i)
             w == [m EXCEPT !.internal_map = M!RemoveAt(m.internal_map, k)]
  <2>1. mem' = [mem EXCEPT ![c] = w] /\ host' = host /\ i # {}
    BY <1>4 DEF M!mem_unmap
  <2>2. k \in DOMAIN m.internal_map
    BY <1>1, <2>1, FirstAt
  <2>3. /\ MemShaped(w) /\ w.memory_map = m.memory_map
        /\ w.internal_map = M!RemoveAt(m.internal_map, k)
    BY <1>1 DEF MemShaped
  <2> HIDE DEF k, w, m
  <2>4. PICK f : Rearranged(f, M!RemoveAt(m.internal_map, k), m.internal_map, 0) /\ ~Adds(f)
    BY <1>1, <2>2, RemoveArranged
  <2>5. PICK g : Rearranged(g, m.memory_map, m.memory_map, 0) /\ ~Adds(g)
    BY <1>1, SameArranged
  <2>6. MemOK(w)
    BY <1>1, <2>3, <2>4, <2>5, MemFrom
  <2>7. Len(mem) = 1 => Backed(w, host')
    <3>1. Len(mem) = 1 => c = 1
      BY SeqFacts DEF MemInv
    <3>2. Len(mem) = 1 => Backed(m, host)
      BY <3>1 DEF MemInv, m
    <3> QED
      BY <2>1, <2>3, <3>2 DEF Backed
  <2>8. HostShaped(host')
    BY <1>1, <2>1
  <2> QED
    BY <1>2, <2>1, <2>6, <2>7, <2>8, NowIs
<1> QED
  BY <1>3, <1>4

(* execve: what is to be inherited stays, and so does what it shows.        *)
LEMMA ExecKept ==
    ASSUME MemInv, NEW c \in DOMAIN mem, M!exec_flush(c)
    PROVE  MemInv'
<1> DEFINE m == mem[c]
           gone(h) == \E r \in M!ToSet(m.memory_map) : r.id = h /\ "inherit" \notin r.flags
<1>1. /\ MemOK(m) /\ IsSeq(m.memory_map) /\ IsSeq(m.internal_map) /\ MemShaped(m)
      /\ HostShaped(host)
  BY StateShaped DEF MemOK, RegionsOK, MemInv
<1>2. setting' = setting /\ base_addr' \in Nat /\ checkpoint' = checkpoint
  BY DEF M!exec_flush, MemInv
<1>3. PICK w : /\ mem' = [mem EXCEPT ![c] = w] /\ MemShaped(w)
               /\ w.memory_map = M!Inherited(m.memory_map)
               /\ w.internal_map = M!Inherited(m.internal_map)
  <2> DEFINE u == [m EXCEPT !.memory_map = M!Inherited(m.memory_map),
                            !.internal_map = M!Inherited(m.internal_map)]
             kept == [s \in DOMAIN u.ptab |-> M!KeptPages(u, s)]
             left == M!MapThenSumSet(LAMBDA s : Len(u.ptab[s]) - Len(kept[s]), DOMAIN kept)
             w == [u EXCEPT !.ptab = kept, !.page_count = u.page_count - left]
  <2>1. mem' = [mem EXCEPT ![c] = w]
    BY DEF M!exec_flush
  <2>2. /\ MemShaped(u) /\ u.memory_map = M!Inherited(m.memory_map)
        /\ u.internal_map = M!Inherited(m.internal_map)
    BY <1>1 DEF MemShaped
  <2> HIDE DEF u, kept, left
  <2>3. /\ MemShaped(w) /\ w.memory_map = u.memory_map /\ w.internal_map = u.internal_map
    BY <2>2 DEF MemShaped
  <2> HIDE DEF w
  <2> QED
    BY <2>1, <2>2, <2>3
<1>4. host' = [h \in DOMAIN host |-> IF gone(h) THEN [host[h] EXCEPT !.exists = FALSE] ELSE host[h]]
  BY DEF M!exec_flush
<1> HIDE DEF m
<1>5. PICK f : /\ Rearranged(f, M!Inherited(m.memory_map), m.memory_map, 0) /\ ~Adds(f)
               /\ \A l \in DOMAIN f : "inherit" \in m.memory_map[f[l]].flags
  BY <1>1, InheritArranged
<1>6. PICK g : Rearranged(g, M!Inherited(m.internal_map), m.internal_map, 0) /\ ~Adds(g)
  BY <1>1, InheritArranged
<1>7. MemOK(w)
  BY <1>1, <1>3, <1>5, <1>6, MemFrom
<1>8. HostShaped(host') /\ DOMAIN host' = DOMAIN host
  <2>1. PICK n \in Nat : host = [x \in 1 .. n |-> host[x]]
    BY <1>1 DEF HostShaped, IsSeq
  <2>2. DOMAIN host' = 1 .. n /\ host' = [x \in 1 .. n |-> host'[x]] /\ DOMAIN host = 1 .. n
    BY <1>4, <2>1
  <2> HIDE DEF gone
  <2>3. \A x \in DOMAIN host' : "exists" \in DOMAIN host'[x]
    BY <1>1, <1>4, <2>2 DEF HostShaped
  <2> QED
    BY <2>2, <2>3 DEF HostShaped, IsSeq
<1>9. Len(mem) = 1 => Backed(w, host')
  <2> SUFFICES ASSUME Len(mem) = 1 PROVE Backed(w, host')
    OBVIOUS
  <2>1. Backed(m, host)
    <3>1. c = 1
      BY SeqFacts DEF MemInv
    <3> QED
      BY <3>1 DEF MemInv, m
  <2>2. ASSUME NEW l \in DOMAIN f
        PROVE  host'[m.memory_map[f[l]].id].exists = host[m.memory_map[f[l]].id].exists
    <3>1. f[l] \in DOMAIN m.memory_map
      BY <1>5 DEF Rearranged, Adds
    <3>2. m.memory_map[f[l]].id \in DOMAIN host
      BY <2>1, <3>1 DEF Backed
    <3>3. ~gone(m.memory_map[f[l]].id)
      <4> SUFFICES ASSUME NEW x \in DOMAIN m.memory_map,
                          m.memory_map[x].id = m.memory_map[f[l]].id
                   PROVE  "inherit" \in m.memory_map[x].flags
        BY DEF M!ToSet
      <4>1. x = f[l]
        BY <2>1, <3>1 DEF Backed
      <4> QED
        BY <1>5, <4>1
    <3> HIDE DEF gone
    <3> QED
      BY <1>4, <3>2, <3>3
  <2> QED
    BY <1>3, <1>5, <1>8, <2>1, <2>2, BackedFrom
<1> QED
  BY <1>2, <1>3, <1>7, <1>8, <1>9, NowIs DEF m

(* One more program: what is mapped from the host is no longer its own.     *)
LEMMA ProgramAdded ==
    ASSUME MemInv, NEW w, MemOK(w), mem' = Append(mem, w), host' = host, setting' = setting,
           base_addr' = base_addr, checkpoint' = checkpoint
    PROVE  MemInv'
<1>1. IsSeq(mem) /\ DOMAIN mem = 1 .. Len(mem) /\ Len(mem) \in Nat /\ 1 \in DOMAIN mem
  BY SeqFacts DEF MemInv
<1>2. /\ IsSeq(mem') /\ Len(mem') = Len(mem) + 1 /\ DOMAIN mem' = 1 .. Len(mem) + 1
      /\ \A k \in 1 .. Len(mem) + 1 : mem'[k] = IF k = Len(mem) + 1 THEN w ELSE mem[k]
  BY <1>1, SeqAppended
<1>3. \A d \in DOMAIN mem' : MemOK(mem'[d])
  BY <1>1, <1>2 DEF MemInv
<1>4. (\A d \in DOMAIN mem : MemOK(mem[d]))'
  BY <1>3, OfSetting
<1>5. Len(mem') # 1 /\ 1 \in DOMAIN mem'
  BY <1>1, <1>2
<1>6. CheckpointOK'
  BY SameCheckpoint DEF MemInv
<1> QED
  BY <1>2, <1>4, <1>5, <1>6 DEF MemInv, HostShaped, IsSeq

LEMMA ForkKept ==
    ASSUME MemInv, NEW c \in DOMAIN mem, M!fork(c)
    PROVE  MemInv'
<1>1. MemOK(mem[c]) /\ MemShaped(mem[c])
  BY DEF MemInv, MemOK
<1>2. SameMaps(mem[c], M!CopyOf(mem[c]))
  BY <1>1 DEF M!CopyOf, SameMaps, MemShaped
<1>3. MemOK(M!CopyOf(mem[c]))
  BY <1>1, <1>2, SameMapsOK
<1> QED
  BY <1>3, ProgramAdded DEF M!fork

LEMMA ReadCheckpointKept ==
    ASSUME MemInv, M!eio_read_chkpt
    PROVE  MemInv'
<1>1. MemOK(M!ReadBack(checkpoint[1]))
  BY DEF MemInv, CheckpointOK, M!eio_read_chkpt
<1> QED
  BY <1>1, ProgramAdded DEF M!eio_read_chkpt

LEMMA NoMapsOK ==
    ASSUME NEW m, MemShaped(m), m.memory_map = <<>>, m.internal_map = <<>>
    PROVE  MemOK(m)
<1>1. IsSeq(<<>>)
  <2>1. <<>> \in Seq({})
    OBVIOUS
  <2> QED
    BY <2>1, SeqIs
<1>2. DOMAIN <<>> = {}
  OBVIOUS
<1> QED
  BY <1>1, <1>2 DEF MemOK, RegionsOK, Disjoint

(* The two ends of a step that leaves the programs alone.                  *)
LEMMA SameProgramsKept ==
    ASSUME MemInv, mem' = mem, host' = host, setting' = setting, base_addr' = base_addr,
           CheckpointOK'
    PROVE  MemInv'
<1>1. (\A d \in DOMAIN mem : MemOK(mem[d]))'
  <2>1. \A d \in DOMAIN mem' : MemOK(mem'[d])
    BY DEF MemInv
  <2> QED
    BY <2>1, OfSetting
<1> QED
  BY <1>1 DEF MemInv, HostShaped, IsSeq, Backed

LEMMA WriteCheckpointKept ==
    ASSUME MemInv, M!eio_write_chkpt
    PROVE  MemInv'
<1> DEFINE s == M!Saved(mem[1])
           w == M!ReadBack(s)
<1>1. MemShaped(s) /\ s.memory_map = <<>> /\ s.internal_map = <<>>
  BY DEF M!Saved, M!Blank, MemShaped
<1> HIDE DEF s
<1>2. MemShaped(w) /\ w.memory_map = <<>> /\ w.internal_map = <<>>
  BY <1>1 DEF M!ReadBack, M!CopyOf, MemShaped
<1> HIDE DEF w
<1>3. MemOK(w)
  BY <1>2, NoMapsOK
<1>4. checkpoint'[1] = s
  BY DEF M!eio_write_chkpt, s
<1>5. CheckpointOK'
  BY <1>3, <1>4, SavedOK DEF M!eio_write_chkpt, w
<1> QED
  BY <1>5, SameProgramsKept DEF M!eio_write_chkpt

LEMMA MemStart ==
    ASSUME M!Init
    PROVE  MemInv
<1>1. setting \in Memories /\ mem = <<M!Blank>> /\ host = <<>> /\ checkpoint = M!Fresh
      /\ base_addr \in Nat
  BY MemoriesAssumption DEF M!Init
<1>2. MemShaped(M!Blank) /\ M!Blank.memory_map = <<>> /\ M!Blank.internal_map = <<>>
  BY DEF M!Blank, MemShaped
<1>3. MemOK(M!Blank)
  BY <1>2, NoMapsOK
<1>4. IsSeq(mem) /\ DOMAIN mem = {1} /\ mem[1] = M!Blank
  <2>1. mem \in Seq({M!Blank}) /\ Len(mem) = 1 /\ mem[1] = M!Blank
    BY <1>1
  <2> QED
    BY <2>1, SeqIs
<1>5. HostShaped(host)
  <2>1. host \in Seq({}) /\ DOMAIN host = {}
    BY <1>1
  <2> QED
    BY <2>1, SeqIs DEF HostShaped
<1>6. Backed(mem[1], host)
  BY <1>2, <1>4 DEF Backed
<1> QED
  BY <1>1, <1>3, <1>4, <1>5, <1>6 DEF MemInv, CheckpointOK

LEMMA MemKept ==
    ASSUME MemInv, [Next]_vars
    PROVE  MemInv'
<1>1. CASE MemoryStep
  <2>1. CASE \E c \in M!Programs : M!Access(c)
    BY <2>1, AccessKept
  <2>2. CASE \E c \in M!Programs : M!Mapping(c)
    <3>1. PICK c \in DOMAIN mem : M!Mapping(c)
      BY <2>2 DEF M!Programs
    <3>2. CASE \E addr \in M!Addresses : M!mem_unmap(c, addr)
      BY <3>2, UnmapKept
    <3>3. CASE \E hint \in setting.Hints, len \in setting.Lens, fd \in setting.Files,
                  prot \in setting.Rights, flags \in {{}} \cup setting.Inherit,
                  kind \in setting.Kinds : M!mem_map(c, hint, fd, len, prot, flags, kind)
      BY <3>3, MapKept
    <3> QED
      BY <3>1, <3>2, <3>3 DEF M!Mapping
  <2>3. CASE \E c \in M!Programs : M!fork(c)
    BY <2>3, ForkKept DEF M!Programs
  <2>4. CASE \E c \in M!Programs : M!exec_flush(c)
    BY <2>4, ExecKept DEF M!Programs
  <2>5. CASE M!eio_write_chkpt
    BY <2>5, WriteCheckpointKept
  <2>6. CASE M!eio_read_chkpt
    BY <2>6, ReadCheckpointKept
  <2> QED
    BY <1>1, <2>1, <2>2, <2>3, <2>4, <2>5, <2>6 DEF MemoryStep, M!Next
<1>2. CASE UNCHANGED memory
  <2>1. CheckpointOK'
    BY <1>2, SameCheckpoint DEF memory, MemInv
  <2> QED
    BY <1>2, <2>1, SameProgramsKept DEF memory
<1> QED
  BY <1>1, <1>2 DEF Next, StartupStep, LoopStep, CallStep, vars

LEMMA MemSound ==
    ASSUME MemInv
    PROVE  M!MappingsSound
<1> SUFFICES ASSUME NEW c \in DOMAIN mem
             PROVE  /\ \A k, l \in DOMAIN M!Regions(c) :
                         k # l /\ M!Chosen(M!Regions(c)[k]) /\ M!Chosen(M!Regions(c)[l]) =>
                           M!Covered(M!Regions(c)[k]) \cap M!Covered(M!Regions(c)[l]) = {}
                    /\ Len(mem) = 1 => \A r \in M!ToSet(mem[c].memory_map) : host[r.id].exists
  BY DEF M!MappingsSound, M!Programs
<1> DEFINE s == mem[c].memory_map
           t == mem[c].internal_map
<1>1. MemOK(mem[c]) /\ IsSeq(s) /\ IsSeq(t)
  BY DEF MemInv, MemOK, RegionsOK
<1>2. /\ DOMAIN s = 1 .. Len(s) /\ Len(s) \in Nat
      /\ DOMAIN t = 1 .. Len(t) /\ Len(t) \in Nat
  BY <1>1, SeqFacts
<1>3. /\ DOMAIN M!Regions(c) = 1 .. Len(s) + Len(t)
      /\ \A k \in 1 .. Len(s) + Len(t) :
           M!Regions(c)[k] = IF k <= Len(s) THEN s[k] ELSE t[k - Len(s)]
  BY <1>1, SeqJoined DEF M!Regions
<1>4. /\ \A k, l \in DOMAIN s : k # l => Apart(s[k], s[l])
      /\ \A k, l \in DOMAIN t : k # l => Apart(t[k], t[l])
      /\ \A k \in DOMAIN s, l \in DOMAIN t : Apart(s[k], t[l]) /\ Apart(t[l], s[k])
  BY <1>1 DEF MemOK, Disjoint, Apart
<1> HIDE DEF s, t
<1>5. ASSUME NEW k \in DOMAIN M!Regions(c), NEW l \in DOMAIN M!Regions(c), k # l
      PROVE  Apart(M!Regions(c)[k], M!Regions(c)[l])
  <2>1. /\ k \in DOMAIN s \/ k - Len(s) \in DOMAIN t
        /\ l \in DOMAIN s \/ l - Len(s) \in DOMAIN t
        /\ k \in Int /\ l \in Int
    BY <1>2, <1>3
  <2>2. CASE k <= Len(s) /\ l <= Len(s)
    <3>1. k \in DOMAIN s /\ l \in DOMAIN s
      BY <1>2, <1>3, <2>2
    <3> QED
      BY <1>3, <1>4, <1>5, <2>2, <3>1
  <2>3. CASE k <= Len(s) /\ ~(l <= Len(s))
    <3>1. k \in DOMAIN s /\ l - Len(s) \in DOMAIN t
      BY <1>2, <1>3, <2>3
    <3> QED
      BY <1>3, <1>4, <2>3, <3>1
  <2>4. CASE ~(k <= Len(s)) /\ l <= Len(s)
    <3>1. l \in DOMAIN s /\ k - Len(s) \in DOMAIN t
      BY <1>2, <1>3, <2>4
    <3> QED
      BY <1>3, <1>4, <2>4, <3>1
  <2>5. CASE ~(k <= Len(s)) /\ ~(l <= Len(s))
    <3>1. k - Len(s) \in DOMAIN t /\ l - Len(s) \in DOMAIN t /\ k - Len(s) # l - Len(s)
      BY <1>2, <1>3, <1>5, <2>5
    <3> QED
      BY <1>3, <1>4, <2>5, <3>1
  <2> QED
    BY <2>2, <2>3, <2>4, <2>5
<1>6. ASSUME Len(mem) = 1, NEW r \in M!ToSet(s)
      PROVE  host[r.id].exists
  <2>1. c = 1
    BY <1>6, SeqFacts DEF MemInv
  <2>2. Backed(mem[c], host)
    BY <1>6, <2>1 DEF MemInv
  <2> QED
    BY <1>6, <2>2 DEF Backed, M!ToSet, s
<1> QED
  BY <1>5, <1>6 DEF Apart, s

(* mmap gives no two regions that overlap, but where the program insists or *)
(* asks for a place inside a page, and what a program that never forked has *)
(* mapped from the host exists there (mem_map, mem_unmap, acquire_address,  *)
(* bounds_verify and exec_flush in memory.c).                               *)
THEOREM MappingsCorrect == Spec => []MappingsSound
<1>1. Init => MemInv
  BY MemStart DEF Init
<1>2. MemInv /\ [Next]_vars => MemInv'
  BY MemKept
<1>3. MemInv => MappingsSound
  BY MemSound DEF MappingsSound
<1> QED
  BY <1>1, <1>2, <1>3, PTL DEF Spec
=============================================================================
