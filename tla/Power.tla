------------------------------- MODULE Power --------------------------------
(***************************************************************************)
(* What a core is charged for (the Wattch power model, power.c): the       *)
(* stages of a cycle reserve functional units (Units) and count their      *)
(* accesses, and the end of the cycle charges every array for them in four *)
(* ways: index 1 always full power, index 2 (cc1) full power if there was  *)
(* an access, index 3 (cc2) power in proportion to the accesses, index 4   *)
(* (cc3) the same but a tenth of full power when there was none.           *)
(*                                                                         *)
(* Power is measured in fractions: an array at full power costs Full a     *)
(* cycle, of which Bitline follows the share of bits that are zero;        *)
(* divisions drop fractions.  The static estimates (calculate_power) are   *)
(* not modelled but for what the sums of sub-arrays are.                   *)
(***************************************************************************)
EXTENDS Units

CONSTANT Chips

VARIABLES stage,        \* the part of the cycle: before or after update_fu, idle
          events,       \* accesses made so far, over all cycles
          cycles,       \* calls of update_power_stats
          accesses,     \* of every counter, in this cycle
          pops,         \* of the arrays with data: values seen and their ones
          power,        \* of every part, in the four ways
          clock_power,
          cycle_power,  \* total_cycle_power and what is derived from it
          access_stats  \* accesses over all cycles, and most in a cycle

powervars == <<stage, events, cycles, accesses, pops, power, clock_power,
               cycle_power, access_stats>>
vars == <<unitvars, powervars>>

Full == 60
Bitline == 40
Clock == 60
data_width == 2
Ways == 1..4

Structures == {"rename", "bpred", "window", "lsq", "regfile", "resultbus", "icache",
               "dcache", "dcache2", "dcache3", "alu"}
Counters == Structures \cup {"ialu", "falu", "preg", "selection", "wakeup", "lsq_preg",
                             "lsq_wakeup"}
Data == {"window", "lsq", "regfile", "resultbus"}

NoAccess == [c \in Counters |-> 0]
NoPops == [d \in Data |-> [num |-> 0, total |-> 0]]
-----------------------------------------------------------------------------
(* One access: the counters it increments (a sequence, with repetitions)   *)
(* and the values whose ones it counts.                                    *)
CountOf(c, seq) == Cardinality({i \in DOMAIN seq : seq[i] = c})

Count(counters, data, num, total) ==
  /\ events < chip.MaxEvents
  /\ events' = events + 1
  /\ accesses' = [c \in Counters |-> accesses[c] + CountOf(c, counters)]
  /\ pops' = [d \in Data |->
               IF d \in data THEN [num |-> pops[d].num + num, total |-> pops[d].total + total]
               ELSE pops[d]]
  /\ UNCHANGED <<stage, cycles, power, clock_power, cycle_power, access_stats>>

Counted(counters) == Count(counters, {}, 0, 0)
Ones(values) == {0, values * data_width}   \* the values are all zeros or all ones

(* commit: a result is written to the register file, a store goes to the   *)
(* cache if a port is free.  It runs before update_fu.                     *)
CommitResult == /\ stage = "commit"
                /\ \E n \in Ones(1) : Count(<<"regfile">>, {"regfile"}, 1, n)
                /\ UNCHANGED unitvars

CommitStore == /\ stage = "commit"
               /\ \/ Reserve("WrPort") /\ Counted(<<"dcache">>)
                  \/ Refused("WrPort") /\ Counted(<<>>)

UpdateFu == /\ stage = "commit"
            /\ stage' = "rest"
            /\ update_fu
            /\ UNCHANGED <<events, cycles, accesses, pops, power, clock_power, cycle_power,
                           access_stats>>

(* writeback of anything but a jump, and the training of the predictor     *)
(* (which commit and rename may do instead).                               *)
Writeback ==
  /\ stage = "rest"
  /\ \/ \E n \in Ones(1) : Count(<<"window", "preg", "wakeup", "resultbus">>,
                                 {"window", "resultbus"}, 1, n)
     \/ Counted(<<"bpred">>)
  /\ UNCHANGED unitvars

(* selection: stores complete at once, the others ask for a unit.  A load  *)
(* finds its value in the LSQ or goes to the cache, multiplications count  *)
(* as accesses of the integer ALUs.                                        *)
SelectStore ==
  /\ stage = "rest"
  /\ \E n \in Ones(1) : Count(<<"selection", "lsq", "lsq_preg">>, {"lsq"}, 1, n)
  /\ UNCHANGED unitvars

Operands == <<"selection", "window", "preg", "preg">>
AluOf(rclass) == IF rclass \in {"FloatADD", "FloatDIV"} THEN "falu" ELSE "ialu"

SelectWithUnit ==
  /\ stage = "rest"
  /\ \E rclass \in chip.classes, n \in Ones(2) :
       \/ /\ Reserve(rclass)
          /\ IF rclass = "RdPort"
             THEN \E where \in {<<>>, <<"dcache">>} :
                    Count(Operands \o <<"lsq", "lsq_wakeup">> \o where, {"window"}, 2, n)
             ELSE Count(Operands \o <<"alu", AluOf(rclass)>>, {"window"}, 2, n)
       \/ n = 0 /\ Refused(rclass) /\ Counted(<<"selection">>)

SelectWithout ==
  /\ stage = "rest"
  /\ \E n \in Ones(2) : Count(Operands, {"window"}, 2, n)
  /\ UNCHANGED unitvars

(* dispatch with both or one operand ready: the ones are counted for the   *)
(* register file.  rename, fetch, and a miss of the first level.           *)
Dispatch ==
  /\ stage = "rest"
  /\ \E k \in 1..2 : \E n \in Ones(k) :
       Count(SubSeq(<<"window", "preg", "window", "preg">>, 1, 2 * k), {"regfile"}, k, n)
  /\ UNCHANGED unitvars

FrontEnd == /\ stage = "rest"
            /\ \E c \in {"rename", "icache", "dcache2", "dcache3"} : Counted(<<c>>)
            /\ UNCHANGED unitvars
-----------------------------------------------------------------------------
(* compute_af, of an array with Bitline b: what its bitlines draw.         *)
compute_af(b, p) == IF p.num = 0 THEN b ELSE b - (b * p.total) \div (p.num * data_width)

(* An array: the part it belongs to, its accesses, its ports, what it      *)
(* draws when used, and whether cc1 stays at that above its ports.         *)
Array(part, count, ports, live, capped) ==
  [part |-> part, count |-> count, ports |-> ports, live |-> live, capped |-> capped]
Plain(part, counter, ports) == Array(part, accesses[counter], ports, Full, FALSE)
Bits(part, counter, ports, b) ==
  Array(part, accesses[counter], ports, Full - b + compute_af(b, pops[part]), FALSE)

FrontArrays == <<Array("rename", accesses["rename"], chip.decode_width, Full, TRUE),
                 Plain("bpred", "bpred", 2)>>

DataArrays == <<Bits("window", "preg", 3 * chip.issue_width, Bitline),
                Bits("lsq", "lsq_preg", chip.res_memport, Bitline),
                Bits("regfile", "regfile", 3 * chip.commit_width, Bitline),
                Bits("resultbus", "resultbus", chip.issue_width, Full)>>

IssueArrays == <<Plain("window", "selection", chip.issue_width),
                 Plain("window", "wakeup", chip.issue_width),
                 Plain("lsq", "lsq_wakeup", chip.res_memport)>>

(* An access of the instruction cache is a whole line: it is not scaled.   *)
CacheArrays == <<Array("icache", IF accesses["icache"] > 0 THEN 1 ELSE 0, 1, Full, FALSE),
                 Plain("dcache", "dcache", chip.res_memport),
                 Plain("dcache2", "dcache2", chip.res_memport),
                 Plain("dcache3", "dcache3", chip.res_memport)>>

AluArrays == <<Array("alu", accesses["ialu"], chip.res_ialu, Full, TRUE),
               Array("alu", accesses["falu"], chip.res_fpalu, Full, TRUE)>>

Arrays == FrontArrays \o DataArrays \o IssueArrays \o CacheArrays \o AluArrays

(* (for a mutant) cc1 is not raised above the ports of an array.           *)
ChargeCapped(a) ==
  LET scaled == (a.count * a.live) \div a.ports
  IN IF a.count = 0 THEN <<Full, 0, 0, Full \div 10>>
     ELSE <<Full, a.live, scaled, scaled>>

Charge(a) ==
  LET scaled == (a.count * a.live) \div a.ports
  IN IF a.count = 0 THEN <<Full, 0, 0, Full \div 10>>
     ELSE <<Full, IF a.capped \/ a.count <= a.ports THEN a.live ELSE scaled, scaled, scaled>>

Charged ==
  FoldLeft(LAMBDA spent, a :
             LET charge == Charge(a)
             IN [spent EXCEPT ![a.part] = [i \in Ways |-> @[i] + charge[i]]],
           power, Arrays)
-----------------------------------------------------------------------------
SumOf(f, i, parts) == FoldSet(LAMBDA p, sum : sum + f[p][i], 0, parts)
Higher(a, b) == IF a > b THEN a ELSE b

(* The clock is charged by the share of all power so far (cc0 never counts *)
(* it), and total_cycle_power leaves out the lower caches.                 *)
InTotal == Structures \ {"dcache2", "dcache3"}
Totals(now) == [i \in Ways |-> SumOf(now, i, InTotal)]
Clocked(totals) == [i \in Ways |-> clock_power[i] + (Clock * totals[i]) \div totals[1]]

CycleTotals(totals, clock) ==
  [i \in Ways |->
    LET total == totals[i] + (IF i = 1 THEN 0 ELSE clock[i])
        current == total - cycle_power[i].last
    IN IF i = 1 THEN [cycle_power[i] EXCEPT !.total = total]
       ELSE [total |-> total, current |-> current, last |-> total,
             max |-> Higher(cycle_power[i].max, current)]]

(* update_power_stats, then clear_access_stats of the next cycle.  A core  *)
(* without contexts goes through neither its stages nor update_fu.         *)
EndOfCycle ==
  /\ stage \in {"rest", "idle"}
  /\ cycles < chip.MaxCycles
  /\ cycles' = cycles + 1
  /\ \E now \in {Charged} : \E totals \in {Totals(now)} : \E clock \in {Clocked(totals)} :
       /\ power' = now
       /\ clock_power' = clock
       /\ cycle_power' = CycleTotals(totals, clock)
  /\ access_stats' = [c \in Counters |->
                        [total |-> access_stats[c].total + accesses[c],
                         max |-> Higher(access_stats[c].max, accesses[c])]]
  /\ accesses' = NoAccess
  /\ pops' = NoPops
  /\ stage' \in {"commit", "idle"}
  /\ UNCHANGED <<unitvars, events>>

Init ==
  /\ chip \in Chips
  /\ UnitsInit
  /\ stage = "commit" /\ events = 0 /\ cycles = 0
  /\ accesses = NoAccess /\ pops = NoPops
  /\ power = [p \in Structures |-> [i \in Ways |-> 0]]
  /\ clock_power = [i \in Ways |-> 0]
  /\ cycle_power = [i \in Ways |-> [total |-> 0, current |-> 0, last |-> 0, max |-> 0]]
  /\ access_stats = [c \in Counters |-> [total |-> 0, max |-> 0]]

Next == \/ CommitResult \/ CommitStore \/ UpdateFu \/ Writeback \/ SelectStore
        \/ SelectWithUnit \/ SelectWithout \/ Dispatch \/ FrontEnd \/ EndOfCycle

Spec == Init /\ [][Next]_vars
-----------------------------------------------------------------------------
(* The statistics that are reported, as formulas over the others.          *)
fetch_stage_power(i) == SumOf(power, i, {"icache", "bpred"})
dispatch_stage_power(i) == SumOf(power, i, {"rename"})
issue_stage_power(i) ==
  SumOf(power, i, {"resultbus", "alu", "dcache", "dcache2", "dcache3", "window", "lsq"})
total_power(i) == SumOf(power, i, Structures) + clock_power[i]
-----------------------------------------------------------------------------
TypeOK == /\ UnitsTypeOK
          /\ stage \in {"commit", "rest", "idle"}
          /\ accesses \in [Counters -> Nat]
          /\ access_stats \in [Counters -> [total : Nat, max : Nat]]

(* A stricter way of gating clocks is never charged more: cc2 at most cc1  *)
(* and at most cc3, which adds at most a tenth of full power.  The two     *)
(* exceptions are parts whose accesses can exceed the ports they are       *)
(* charged by, cc1 not following: the width of rename is learned while its *)
(* power is that of the starting width, and multiplications are charged to *)
(* the ALUs.  These stay within the accesses that can be made.             *)
GatingOrdered ==
  /\ \A p \in Structures :
       /\ p \notin {"rename", "alu"} => power[p][3] <= power[p][2]
       /\ power[p][3] <= power[p][4]
       /\ 10 * (power[p][4] - power[p][3]) <= power[p][1]
  /\ power["alu"][3] <= 2 * power["alu"][1]

(* Ports bound what is charged: commit and selection can each use all      *)
(* memory ports in a cycle, as update_fu runs between them.                *)
PortsBound ==
  /\ access_stats["dcache"].max <= 2 * chip.res_memport
  /\ power["dcache"][2] <= 2 * power["dcache"][1]

(* What is reported adds up: the stages, the register file and the clock   *)
(* are the total, and the total is what the cycles cost, none of them more *)
(* than the maximum, beside the lower caches.                              *)
AddsUp ==
  \A i \in Ways :
    /\ total_power(i) = fetch_stage_power(i) + dispatch_stage_power(i) + issue_stage_power(i)
                          + power["regfile"][i] + clock_power[i]
    /\ i # 1 => /\ cycle_power[i].total = total_power(i) - SumOf(power, i, {"dcache2", "dcache3"})
                /\ cycle_power[i].total <= cycles * cycle_power[i].max

(* They change at the end of a cycle only.                                 *)
PowerSound == accesses = NoAccess => GatingOrdered /\ PortsBound /\ AddsUp
=============================================================================
