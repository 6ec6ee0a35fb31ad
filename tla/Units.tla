------------------------------- MODULE Units --------------------------------
(***************************************************************************)
(* The functional units of a core: res_pool and res_get (resource.c), the  *)
(* pool they are made of (fu_config, sim-outorder.c) and update_fu, which  *)
(* releases them (cmp.c).  Operations are grouped in classes; a unit may   *)
(* serve several (integer multiplication and division, loads and stores)   *)
(* and is one piece of hardware: whatever class reserves it, it is taken   *)
(* from all of them for the issue latency of the operation, which may be   *)
(* shorter than the latency of its result.                                 *)
(*                                                                         *)
(* chip.pool is the description of the pool, a sequence of records         *)
(* [quantity, x] where x gives each class its issue latency, in the order  *)
(* of the table.                                                           *)
(***************************************************************************)
EXTENDS Integers, Sequences, SequencesExt, FiniteSetsExt

VARIABLES chip,      \* the configuration of the core
          fu_pool,   \* its units: what each executes, and for how long it is busy
          releases,  \* calls of update_fu so far
          started    \* every operation that reserved a unit (history)

unitvars == <<chip, fu_pool, releases, started>>

NULL == 0

(* The instances of all descriptors, in order. *)
WithInstances(all, desc) ==
  all \o [i \in 1..desc.quantity |-> [x |-> desc.x, busy |-> 0]]
res_pool(pool) == FoldLeft(WithInstances, <<>>, pool)

(* table[rclass]: the units of a class, by their index. *)
table(rclass) == {u \in DOMAIN fu_pool : rclass \in DOMAIN fu_pool[u].x}

(* The first unit of the class that is not busy, through the master that   *)
(* its templates share; NULL if there is none.                             *)
res_get(rclass) ==
  LET free == {u \in table(rclass) : fu_pool[u].busy = 0}
  IN IF free = {} THEN NULL ELSE CHOOSE u \in free : \A v \in free : u <= v

Reserve(rclass) ==
  \E u \in {res_get(rclass)} \ {NULL} :
    LET issuelat == fu_pool[u].x[rclass]
    IN /\ fu_pool' = [fu_pool EXCEPT ![u].busy = issuelat]
       /\ started' = Append(started, [unit |-> u, at |-> releases, issuelat |-> issuelat])
       /\ UNCHANGED <<chip, releases>>

(* Nothing is free: the operation stays in the ready queue (or the store   *)
(* at the head of the LSQ) and asks again in a later cycle.                *)
Refused(rclass) == res_get(rclass) = NULL /\ UNCHANGED unitvars

(* (for a mutant) A unit is free again after one cycle, whatever it runs. *)
FreedAtOnce == [u \in DOMAIN fu_pool |-> [fu_pool[u] EXCEPT !.busy = 0]]

Released ==
  [u \in DOMAIN fu_pool |-> [fu_pool[u] EXCEPT !.busy = IF @ > 0 THEN @ - 1 ELSE 0]]

update_fu == /\ fu_pool' = Released
             /\ releases' = releases + 1
             /\ UNCHANGED <<chip, started>>

UnitsInit == /\ fu_pool = res_pool(chip.pool)
             /\ releases = 0
             /\ started = <<>>
-----------------------------------------------------------------------------
UnitsTypeOK == /\ \A u \in DOMAIN fu_pool : fu_pool[u].busy \in Nat
               /\ \A i \in DOMAIN started : started[i].unit \in DOMAIN fu_pool

(* A unit never runs two operations at a time, of whatever classes: the    *)
(* next one starts on it only after as many calls of update_fu as the      *)
(* issue latency of the one before.                                        *)
OneAtATime ==
  \A i, j \in DOMAIN started :
    i < j /\ started[i].unit = started[j].unit =>
      started[j].at >= started[i].at + started[i].issuelat

(* It takes no longer either: a unit is refused only to the operations     *)
(* that come while an earlier one still occupies it.                       *)
NotHeldLonger ==
  \A u \in DOMAIN fu_pool :
    fu_pool[u].busy > 0 => \E i \in DOMAIN started :
                     /\ started[i].unit = u
                     /\ started[i].at + started[i].issuelat = releases + fu_pool[u].busy

UnitsSound == OneAtATime /\ NotHeldLonger
=============================================================================
