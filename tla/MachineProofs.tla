---------------------------- MODULE MachineProofs ----------------------------
(***************************************************************************)
(* The parts of MCMachine, for every core, predictor, hierarchy, window    *)
(* and chip.                                                               *)
(***************************************************************************)
EXTENDS MCMachine, FiniteSetTheorems, WellFoundedInduction, TLAPS

(* Of numbers one is least, as sets of numbers are well-founded; so that   *)
(* what holds of 0 and of the next of each number holds of all of them.    *)
LEMMA LeastNat ==
    ASSUME NEW bad \in SUBSET Nat, bad # {}
    PROVE  \E m \in bad : \A k \in bad : m <= k
<1>1. PICK n \in bad : TRUE
  OBVIOUS
<1> DEFINE T == {1 .. k : k \in bad}
<1>2. T \subseteq FiniteSubsetsOf(Nat)
  <2> SUFFICES ASSUME NEW k \in bad PROVE 1 .. k \in FiniteSubsetsOf(Nat)
    OBVIOUS
  <2>1. IsFiniteSet(1 .. k)
    BY FS_Interval
  <2> QED
    BY <2>1 DEF FiniteSubsetsOf
<1>3. T # {}
  BY <1>1
<1>4. IsWellFoundedOn(StrictSubsetOrdering(Nat), FiniteSubsetsOf(Nat))
  BY FS_StrictSubsetOrderingWellFounded
<1> HIDE DEF T
<1>5. PICK t \in T : \A s \in T : <<s, t>> \notin StrictSubsetOrdering(Nat)
  BY <1>2, <1>3, <1>4, WFMin
<1>6. PICK m \in bad : t = 1 .. m
  BY DEF T
<1>7. ASSUME NEW k \in bad, k < m PROVE FALSE
  <2>1. 1 .. k \in T
    BY DEF T
  <2>2. 1 .. k \subseteq 1 .. m /\ m \in 1 .. m /\ m \notin 1 .. k
    BY <1>7
  <2>3. <<1 .. k, 1 .. m>> \in StrictSubsetOrdering(Nat)
    BY <2>2 DEF StrictSubsetOrdering
  <2> QED
    BY <2>1, <2>3, <1>5, <1>6
<1> QED
  BY <1>6, <1>7

LEMMA AllNumbers ==
    ASSUME NEW n \in Nat, NEW good, 0 \in good, \A k \in 0 .. n - 1 : k \in good => k + 1 \in good
    PROVE  0 .. n \subseteq good
<1> DEFINE bad == {k \in 0 .. n : k \notin good}
<1>1. SUFFICES ASSUME bad # {} PROVE FALSE
  OBVIOUS
<1>2. bad \in SUBSET Nat
  OBVIOUS
<1>3. PICK m \in bad : \A k \in bad : m <= k
  BY <1>1, <1>2, LeastNat
<1>4. m \in 1 .. n /\ m - 1 \notin bad
  BY <1>3
<1> QED
  BY <1>3, <1>4

LEMMA MaxIs ==
    ASSUME NEW t, NEW m \in t, t \subseteq Int, \A k \in t : k <= m
    PROVE  W!Max(t) = m
<1> DEFINE is(x) == x \in t /\ \A y \in t : x >= y
<1>1. is(m)
  OBVIOUS
<1>2. ASSUME NEW x, is(x) PROVE x = m
  BY <1>2
<1>3. W!Max(t) = CHOOSE x : is(x)
  BY DEF W!Max
<1> HIDE DEF is
<1> QED
  BY <1>1, <1>2, <1>3

(* The recursive function that a fold from the left is defined by.         *)
PoolIter(units) ==
  CHOOSE iter : iter = [t \in SUBSET DOMAIN units |->
    IF t = {} THEN <<>> ELSE W!WithInstances(iter[t \ {W!Max(t)}], units[W!Max(t)])]

PoolUpTo(iter, units, n) ==
  \A t \in SUBSET (1 .. n) :
    iter[t] = IF t = {} THEN <<>> ELSE W!WithInstances(iter[t \ {W!Max(t)}], units[W!Max(t)])

LEMMA PoolIs ==
    ASSUME NEW units
    PROVE  W!res_pool(units) = PoolIter(units)[DOMAIN units]
  BY DEF W!res_pool, W!FoldLeft, W!MapThenFoldSet, PoolIter

LEMMA PoolIterIs ==
    ASSUME NEW n \in Nat, NEW units, DOMAIN units = 1 .. n
    PROVE  PoolUpTo(PoolIter(units), units, n)
<1> DEFINE Is(iter, k) == iter = [t \in SUBSET (1 .. k) |->
             IF t = {} THEN <<>> ELSE W!WithInstances(iter[t \ {W!Max(t)}], units[W!Max(t)])]
           good == {k \in 0 .. n : \E iter : Is(iter, k)}
<1>1. 0 \in good
  <2> DEFINE none == [t \in SUBSET (1 .. 0) |-> <<>>]
  <2>1. Is(none, 0)
    OBVIOUS
  <2> QED
    BY <2>1
<1>2. ASSUME NEW k \in 0 .. n - 1, k \in good PROVE k + 1 \in good
  <2>1. PICK iter : Is(iter, k)
    BY <1>2
  <2> DEFINE more == [t \in SUBSET (1 .. k + 1) |->
               IF k + 1 \in t THEN W!WithInstances(iter[t \ {k + 1}], units[k + 1]) ELSE iter[t]]
  <2>2. ASSUME NEW t \in SUBSET (1 .. k + 1)
        PROVE  more[t] = IF t = {} THEN <<>> ELSE W!WithInstances(more[t \ {W!Max(t)}], units[W!Max(t)])
    <3>1. CASE k + 1 \in t
      <4>0. k + 1 \in t /\ t \subseteq Int /\ \A i \in t : i <= k + 1
        BY <3>1
      <4>1. W!Max(t) = k + 1
        BY <4>0, MaxIs
      <4>2. more[t \ {k + 1}] = iter[t \ {k + 1}]
        OBVIOUS
      <4> QED
        BY <3>1, <4>1, <4>2
    <3>2. CASE k + 1 \notin t
      <4>0. \A i \in 1 .. k + 1 : i # k + 1 => i \in 1 .. k
        OBVIOUS
      <4>1. t \in SUBSET (1 .. k) /\ t \ {W!Max(t)} \in SUBSET (1 .. k + 1)
        BY <3>2, <4>0
      <4>2. more[t] = iter[t] /\ more[t \ {W!Max(t)}] = iter[t \ {W!Max(t)}]
        BY <3>2, <4>1
      <4>3. iter[t] = IF t = {} THEN <<>> ELSE W!WithInstances(iter[t \ {W!Max(t)}], units[W!Max(t)])
        BY <2>1, <4>1
      <4> QED
        BY <4>2, <4>3
    <3> QED
      BY <3>1, <3>2
  <2>3. more = [t \in SUBSET (1 .. k + 1) |->
                 IF t = {} THEN <<>> ELSE W!WithInstances(more[t \ {W!Max(t)}], units[W!Max(t)])]
    BY <2>2
  <2>4. Is(more, k + 1)
    BY <2>3
  <2> HIDE DEF more, Is
  <2> QED
    BY <2>4
<1> HIDE DEF good
<1>3. n \in good
  <2>1. \A k \in 0 .. n - 1 : k \in good => k + 1 \in good
    BY <1>2
  <2>2. 0 .. n \subseteq good
    BY <1>1, <2>1, AllNumbers
  <2> QED
    BY <2>2
<1>4. \E iter : Is(iter, n)
  BY <1>3 DEF good
<1>5. PoolIter(units) = CHOOSE iter : Is(iter, n)
  BY DEF PoolIter
<1>6. Is(PoolIter(units), n)
  <2> HIDE DEF Is
  <2> QED
    BY <1>4, <1>5
<1> QED
  BY <1>6 DEF PoolUpTo

LEMMA PoolStep ==
    ASSUME NEW n \in Nat, NEW units, DOMAIN units = 1 .. n
    PROVE  \E after : /\ after[0] = <<>>
                      /\ \A k \in 0 .. n - 1 : after[k + 1] = W!WithInstances(after[k], units[k + 1])
                      /\ W!res_pool(units) = after[n]
<1> DEFINE it == PoolIter(units)
<1>0. PoolUpTo(it, units, n)
  BY PoolIterIs
<1>1. \A t \in SUBSET (1 .. n) : it[t] =
             IF t = {} THEN <<>> ELSE W!WithInstances(it[t \ {W!Max(t)}], units[W!Max(t)])
  BY <1>0, Zenon DEF PoolUpTo
<1> HIDE DEF it
<1>2. it[1 .. 0] = <<>>
  <2>1. 1 .. 0 = {} /\ {} \in SUBSET (1 .. n)
    OBVIOUS
  <2> QED
    BY <1>1, <2>1
<1>3. ASSUME NEW k \in 0 .. n - 1 PROVE it[1 .. k + 1] = W!WithInstances(it[1 .. k], units[k + 1])
  <2>0. k + 1 \in 1 .. k + 1 /\ 1 .. k + 1 \subseteq Int /\ \A i \in 1 .. k + 1 : i <= k + 1
    OBVIOUS
  <2>1. W!Max(1 .. k + 1) = k + 1
    BY <2>0, MaxIs
  <2>2. (1 .. k + 1) \ {k + 1} = 1 .. k /\ 1 .. k + 1 \in SUBSET (1 .. n) /\ 1 .. k + 1 # {}
    OBVIOUS
  <2> QED
    BY <1>1, <2>1, <2>2
<1>4. W!res_pool(units) = it[1 .. n]
  BY PoolIs DEF it
<1> DEFINE after == [k \in 0 .. n |-> it[1 .. k]]
<1>5. /\ after[0] = <<>>
      /\ \A k \in 0 .. n - 1 : after[k + 1] = W!WithInstances(after[k], units[k + 1])
      /\ W!res_pool(units) = after[n]
  BY <1>2, <1>3, <1>4
<1> HIDE DEF after
<1> QED
  BY <1>5

-----------------------------------------------------------------------------
(* Functional units *)

(* The units of a pool are idle and have the latencies of a descriptor.    *)
Latencies(pool) == {pool[d].x : d \in DOMAIN pool}
UnitOf(pool) == [x : Latencies(pool), busy : Nat]
IdleUnits(pool, units) ==
  \E n \in Nat : units \in [1 .. n -> {v \in UnitOf(pool) : v.busy = 0}]

LEMMA InstancesIdle ==
    ASSUME NEW pool, NEW d \in DOMAIN pool, pool[d].quantity \in Nat,
           NEW all, IdleUnits(pool, all)
    PROVE  IdleUnits(pool, W!WithInstances(all, pool[d]))
<1> DEFINE Idle == {v \in UnitOf(pool) : v.busy = 0}
           q == pool[d].quantity
           new == [i \in 1 .. q |-> [x |-> pool[d].x, busy |-> 0]]
<1>1. new \in [1 .. q -> Idle]
  BY DEF UnitOf, Latencies
<1>2. PICK n \in Nat : all \in [1 .. n -> Idle]
  BY DEF IdleUnits
<1> HIDE DEF Idle, new
<1>3. all \in Seq(Idle) /\ new \in Seq(Idle)
  BY <1>1, <1>2
<1>4. all \o new \in Seq(Idle)
  BY <1>3
<1>5. \A s \in Seq(Idle) : Len(s) \in Nat /\ s \in [1 .. Len(s) -> Idle]
  OBVIOUS
<1>6. W!WithInstances(all, pool[d]) = all \o new
  BY DEF W!WithInstances, new
<1> QED
  BY <1>4, <1>5, <1>6 DEF IdleUnits, Idle

LEMMA PoolIdle ==
    ASSUME NEW pool, IsPool(pool)
    PROVE  IdleUnits(pool, W!res_pool(pool))
<1>1. PICK n \in Nat : /\ DOMAIN pool = 1 .. n
                       /\ \A d \in 1 .. n : pool[d].quantity \in Nat
  <2>1. /\ Len(pool) \in Nat /\ DOMAIN pool = 1 .. Len(pool)
        /\ \A d \in 1 .. Len(pool) : pool[d].quantity \in Nat
    BY DEF IsPool
  <2> QED
    BY <2>1
<1>2. PICK after : /\ after[0] = <<>>
                   /\ \A k \in 0 .. n - 1 :
                        after[k + 1] = W!WithInstances(after[k], pool[k + 1])
                   /\ W!res_pool(pool) = after[n]
  BY <1>1, PoolStep
<1> DEFINE good == {k \in 0 .. n : IdleUnits(pool, after[k])}
<1>3. 0 \in good
  <2>1. <<>> \in [1 .. 0 -> {v \in UnitOf(pool) : v.busy = 0}]
    OBVIOUS
  <2>2. IdleUnits(pool, after[0])
    <3>1. after[0] \in [1 .. 0 -> {v \in UnitOf(pool) : v.busy = 0}] /\ 0 \in Nat
      BY <1>2, <2>1
    <3> QED
      BY <3>1 DEF IdleUnits
  <2> QED
    BY <2>2
<1>4. ASSUME NEW k \in 0 .. n - 1, k \in good PROVE k + 1 \in good
  <2>1. k + 1 \in DOMAIN pool /\ pool[k + 1].quantity \in Nat /\ IdleUnits(pool, after[k])
    BY <1>1, <1>4
  <2>2. IdleUnits(pool, W!WithInstances(after[k], pool[k + 1]))
    BY <2>1, InstancesIdle
  <2> QED
    BY <1>2, <2>2
<1> HIDE DEF good
<1>5. n \in good
  BY <1>3, <1>4, AllNumbers
<1> QED
  BY <1>2, <1>5 DEF good

(* The inductive invariant: an operation that has reserved a unit has it   *)
(* until as many calls of update_fu have come as its issue latency, or the *)
(* unit is idle sooner.                                                    *)
Starts == [unit : DOMAIN fu_pool, at : Nat, issuelat : Nat]
UnitsInv ==
  /\ IsPool(chip.pool) /\ releases \in Nat
  /\ fu_pool \in [DOMAIN fu_pool -> UnitOf(chip.pool)] /\ DOMAIN fu_pool \subseteq Nat
  /\ started \in Seq(Starts)
  /\ \A i \in DOMAIN started :
       /\ started[i].at <= releases
       /\ started[i].at + started[i].issuelat <= releases + fu_pool[started[i].unit].busy
  /\ W!UnitsSound

LEMMA UnitsFacts ==
    ASSUME UnitsInv
    PROVE  /\ releases \in Nat
           /\ \A v \in DOMAIN fu_pool : fu_pool[v].busy \in Nat
           /\ \A i \in DOMAIN started : /\ started[i] \in Starts
                                        /\ started[i].unit \in DOMAIN fu_pool
                                        /\ started[i].at \in Nat
                                        /\ started[i].issuelat \in Nat
<1>1. \A i \in DOMAIN started : started[i] \in Starts
  BY DEF UnitsInv
<1>2. \A v \in DOMAIN fu_pool : fu_pool[v] \in UnitOf(chip.pool)
  BY DEF UnitsInv
<1> QED
  BY <1>1, <1>2 DEF UnitsInv, Starts, UnitOf

LEMMA InitUnits == W!Init => UnitsInv
<1> SUFFICES ASSUME W!Init PROVE UnitsInv
  OBVIOUS
<1>1. IsPool(chip.pool) /\ fu_pool = W!res_pool(chip.pool) /\ releases = 0 /\ started = <<>>
  BY ChipsAssumption DEF W!Init, W!UnitsInit
<1>2. PICK n \in Nat : fu_pool \in [1 .. n -> {v \in UnitOf(chip.pool) : v.busy = 0}]
  BY <1>1, PoolIdle DEF IdleUnits
<1>3. \A u \in DOMAIN fu_pool : fu_pool[u] \in UnitOf(chip.pool) /\ fu_pool[u].busy = 0
  BY <1>2
<1>4. fu_pool \in [DOMAIN fu_pool -> UnitOf(chip.pool)] /\ DOMAIN fu_pool \subseteq Nat
  BY <1>2
<1>5. started \in Seq(Starts) /\ DOMAIN started = {}
  BY <1>1
<1> QED
  BY <1>1, <1>3, <1>4, <1>5 DEF UnitsInv, W!UnitsSound, W!OneAtATime, W!NotHeldLonger

LEMMA SameUnits ==
    ASSUME UnitsInv, W!unitvars' = W!unitvars
    PROVE  UnitsInv'
<1>1. chip' = chip /\ fu_pool' = fu_pool /\ releases' = releases /\ started' = started
  BY DEF W!unitvars
<1>2. UnitOf(chip.pool)' = UnitOf(chip.pool) /\ IsPool(chip.pool)' = IsPool(chip.pool)
  BY <1>1
<1>3. Starts' = Starts
  BY <1>1 DEF Starts
<1>4. W!UnitsSound' = W!UnitsSound
  BY <1>1 DEF W!UnitsSound, W!OneAtATime, W!NotHeldLonger
<1> QED
  BY <1>1, <1>2, <1>3, <1>4 DEF UnitsInv

(* A free unit of a class is one.                                          *)
LEMMA FreeUnit ==
    ASSUME NEW rclass, NEW u \in {W!res_get(rclass)} \ {W!NULL},
           \A v \in DOMAIN fu_pool : v \in Nat
    PROVE  u \in DOMAIN fu_pool /\ rclass \in DOMAIN fu_pool[u].x /\ fu_pool[u].busy = 0
<1> DEFINE free == {v \in W!table(rclass) : fu_pool[v].busy = 0}
<1>1. free # {} /\ u = CHOOSE v \in free : \A w \in free : v <= w
  BY DEF W!res_get
<1>2. free \in SUBSET Nat
  BY DEF W!table
<1>3. \E v \in free : \A w \in free : v <= w
  <2> HIDE DEF free
  <2> QED
    BY <1>1, <1>2, LeastNat
<1>4. u \in free
  <2> HIDE DEF free
  <2> QED
    BY <1>1, <1>3
<1> QED
  BY <1>4 DEF W!table
LEMMA ReserveUnit ==
    ASSUME UnitsInv, NEW rclass, W!Reserve(rclass)
    PROVE  UnitsInv'
<1>1. PICK u \in {W!res_get(rclass)} \ {W!NULL} :
        /\ fu_pool' = [fu_pool EXCEPT ![u].busy = fu_pool[u].x[rclass]]
        /\ started' = Append(started, [unit |-> u, at |-> releases,
                                       issuelat |-> fu_pool[u].x[rclass]])
        /\ chip' = chip /\ releases' = releases
  BY DEF W!Reserve
<1>2. u \in DOMAIN fu_pool /\ rclass \in DOMAIN fu_pool[u].x /\ fu_pool[u].busy = 0
  BY <1>1, FreeUnit DEF UnitsInv
<1> DEFINE lat == fu_pool[u].x[rclass]
           n == Len(started)
<1>3. lat \in Nat
  <2>1. fu_pool[u] \in UnitOf(chip.pool) /\ IsPool(chip.pool)
    BY <1>2 DEF UnitsInv
  <2>2. PICK d \in DOMAIN chip.pool : fu_pool[u].x = chip.pool[d].x
    BY <2>1 DEF UnitOf, Latencies
  <2>3. /\ DOMAIN chip.pool = 1 .. Len(chip.pool)
        /\ \A k \in 1 .. Len(chip.pool) : \A r \in DOMAIN chip.pool[k].x :
             chip.pool[k].x[r] \in Nat
    BY <2>1 DEF IsPool
  <2> QED
    BY <1>2, <2>2, <2>3
<1>4. /\ fu_pool' \in [DOMAIN fu_pool -> UnitOf(chip.pool)]
      /\ fu_pool'[u].busy = lat
      /\ \A v \in DOMAIN fu_pool : v # u => fu_pool'[v] = fu_pool[v]
  BY <1>1, <1>2, <1>3 DEF UnitsInv, UnitOf
<1>5. UnitOf(chip.pool)' = UnitOf(chip.pool) /\ IsPool(chip.pool)' = IsPool(chip.pool)
  BY <1>1
<1>6. DOMAIN fu_pool' = DOMAIN fu_pool
  BY <1>4
<1>7. [unit |-> u, at |-> releases, issuelat |-> lat] \in Starts /\ Starts' = Starts
  BY <1>2, <1>3, <1>6 DEF Starts, UnitsInv
<1> HIDE DEF lat
<1>8. /\ started' \in Seq(Starts) /\ n \in Nat /\ DOMAIN started = 1 .. n
      /\ DOMAIN started' = 1 .. n + 1
      /\ \A i \in 1 .. n : started'[i] = started[i]
      /\ started'[n + 1] = [unit |-> u, at |-> releases, issuelat |-> lat]
  BY <1>1, <1>7 DEF UnitsInv, lat
<1>9. /\ releases \in Nat
      /\ \A i \in 1 .. n : started[i] \in Starts
      /\ \A i \in 1 .. n : /\ started[i].unit \in DOMAIN fu_pool
                           /\ started[i].at \in Nat /\ started[i].issuelat \in Nat
                           /\ started[i].at <= releases
                           /\ started[i].at + started[i].issuelat <=
                                releases + fu_pool[started[i].unit].busy
      /\ \A v \in DOMAIN fu_pool : fu_pool[v].busy \in Nat
  BY <1>8, UnitsFacts DEF UnitsInv
<1>10. \A i \in DOMAIN started' :
         /\ started'[i].at <= releases
         /\ started'[i].at + started'[i].issuelat <= releases + fu_pool'[started'[i].unit].busy
  <2> SUFFICES ASSUME NEW i \in 1 .. n + 1
               PROVE /\ started'[i].at <= releases
                     /\ started'[i].at + started'[i].issuelat <=
                          releases + fu_pool'[started'[i].unit].busy
    BY <1>8
  <2>1. CASE i = n + 1
    BY <2>1, <1>3, <1>4, <1>8, <1>9
  <2>2. CASE i \in 1 .. n /\ started[i].unit # u
    BY <2>2, <1>4, <1>8, <1>9
  <2>3. CASE i \in 1 .. n /\ started[i].unit = u
    <3>1. started[i].at \in Nat /\ started[i].issuelat \in Nat /\ started[i].at <= releases
      BY <2>3, <1>9
    <3>2. started[i].at + started[i].issuelat <= releases + 0
      BY <2>3, <1>2, <1>9
    <3>3. started'[i] = started[i] /\ fu_pool'[u].busy = lat
      BY <2>3, <1>4, <1>8
    <3>4. lat \in Nat /\ releases \in Nat
      BY <1>3, UnitsFacts DEF UnitsInv
    <3>5. started[i].at + started[i].issuelat <= releases + lat
      BY <3>1, <3>2, <3>4
    <3> QED
      BY <2>3, <3>1, <3>3, <3>5
  <2> QED
    BY <2>1, <2>2, <2>3
<1>11. W!OneAtATime'
  <2> SUFFICES ASSUME NEW i \in 1 .. n + 1, NEW k \in 1 .. n + 1, i < k,
                      started'[i].unit = started'[k].unit
               PROVE  started'[k].at >= started'[i].at + started'[i].issuelat
    BY <1>8 DEF W!OneAtATime
  <2>1. i \in 1 .. n
    BY <1>8
  <2>2. CASE k \in 1 .. n
    BY <2>1, <2>2, <1>8 DEF UnitsInv, W!UnitsSound, W!OneAtATime
  <2>3. CASE k = n + 1
    BY <2>1, <2>3, <1>2, <1>8, <1>9
  <2> QED
    BY <2>2, <2>3
<1>12. W!NotHeldLonger'
  <2> SUFFICES ASSUME NEW v \in DOMAIN fu_pool, fu_pool'[v].busy > 0
               PROVE  \E i \in DOMAIN started' :
                        /\ started'[i].unit = v
                        /\ started'[i].at + started'[i].issuelat = releases + fu_pool'[v].busy
    BY <1>1, <1>6 DEF W!NotHeldLonger
  <2>1. CASE v = u
    BY <2>1, <1>3, <1>4, <1>8, <1>9
  <2>2. CASE v # u
    <3>1. PICK i \in 1 .. n : /\ started[i].unit = v
                              /\ started[i].at + started[i].issuelat = releases + fu_pool[v].busy
      BY <2>2, <1>4, <1>8 DEF UnitsInv, W!UnitsSound, W!NotHeldLonger
    <3> QED
      BY <3>1, <2>2, <1>4, <1>8
  <2> QED
    BY <2>1, <2>2
<1> QED
  BY <1>1, <1>4, <1>5, <1>6, <1>7, <1>8, <1>10, <1>11, <1>12 DEF UnitsInv, W!UnitsSound

LEMMA ReleaseUnits ==
    ASSUME UnitsInv, W!update_fu
    PROVE  UnitsInv'
<1>1. /\ fu_pool' = [u \in DOMAIN fu_pool |->
                       [fu_pool[u] EXCEPT !.busy = IF @ > 0 THEN @ - 1 ELSE 0]]
      /\ releases' = releases + 1 /\ chip' = chip /\ started' = started
  BY DEF W!update_fu, W!Released
<1>2. /\ fu_pool' \in [DOMAIN fu_pool -> UnitOf(chip.pool)]
      /\ \A u \in DOMAIN fu_pool :
           /\ fu_pool[u].busy \in Nat
           /\ fu_pool'[u].busy = IF fu_pool[u].busy > 0 THEN fu_pool[u].busy - 1 ELSE 0
  <2>1. fu_pool \in [DOMAIN fu_pool -> UnitOf(chip.pool)]
    BY DEF UnitsInv
  <2>2. \A u \in DOMAIN fu_pool : /\ fu_pool[u] \in UnitOf(chip.pool)
                                  /\ fu_pool[u].busy \in Nat
    BY <2>1, UnitsFacts
  <2>3. \A u \in DOMAIN fu_pool :
          /\ fu_pool'[u] = [fu_pool[u] EXCEPT !.busy = IF @ > 0 THEN @ - 1 ELSE 0]
          /\ fu_pool'[u].busy = IF fu_pool[u].busy > 0 THEN fu_pool[u].busy - 1 ELSE 0
          /\ fu_pool'[u] \in UnitOf(chip.pool)
    BY <1>1, <2>2 DEF UnitOf
  <2> QED
    BY <1>1, <2>2, <2>3
<1>3. UnitOf(chip.pool)' = UnitOf(chip.pool) /\ IsPool(chip.pool)' = IsPool(chip.pool)
  BY <1>1
<1>4. DOMAIN fu_pool' = DOMAIN fu_pool
  BY <1>2
<1>5. Starts' = Starts
  BY <1>4 DEF Starts
<1>6. /\ releases \in Nat
      /\ \A i \in DOMAIN started : started[i] \in Starts
      /\ \A i \in DOMAIN started : /\ started[i].unit \in DOMAIN fu_pool
                                   /\ started[i].at \in Nat /\ started[i].issuelat \in Nat
  BY UnitsFacts
<1>7. \A i \in DOMAIN started :
        /\ started[i].at <= releases + 1
        /\ started[i].at + started[i].issuelat <= releases + 1 + fu_pool'[started[i].unit].busy
  <2> SUFFICES ASSUME NEW i \in DOMAIN started
               PROVE  /\ started[i].at <= releases + 1
                      /\ started[i].at + started[i].issuelat <=
                           releases + 1 + fu_pool'[started[i].unit].busy
    OBVIOUS
  <2>1. /\ started[i].at <= releases
        /\ started[i].at + started[i].issuelat <= releases + fu_pool[started[i].unit].busy
    BY DEF UnitsInv
  <2> QED
    BY <2>1, <1>2, <1>6
<1>8. W!OneAtATime'
  BY <1>1 DEF UnitsInv, W!UnitsSound, W!OneAtATime
<1>9. W!NotHeldLonger'
  <2> SUFFICES ASSUME NEW u \in DOMAIN fu_pool, fu_pool'[u].busy > 0
               PROVE  \E i \in DOMAIN started :
                        /\ started[i].unit = u
                        /\ started[i].at + started[i].issuelat = releases + 1 + fu_pool'[u].busy
    BY <1>1, <1>4 DEF W!NotHeldLonger
  <2>1. PICK i \in DOMAIN started :
               /\ started[i].unit = u
               /\ started[i].at + started[i].issuelat = releases + fu_pool[u].busy
    BY <1>2 DEF UnitsInv, W!UnitsSound, W!NotHeldLonger
  <2> QED
    BY <2>1, <1>2, <1>6
<1> QED
  BY <1>1, <1>2, <1>3, <1>4, <1>5, <1>6, <1>7, <1>8, <1>9 DEF UnitsInv, W!UnitsSound

LEMMA UnitsNext ==
    ASSUME UnitsInv, W!Next
    PROVE  UnitsInv'
<1>1. W!unitvars' = W!unitvars \/ W!update_fu \/ \E rclass : W!Reserve(rclass)
  <2>1. CASE W!CommitStore \/ W!SelectWithUnit
    BY <2>1, Zenon DEF W!CommitStore, W!SelectWithUnit, W!Refused
  <2>2. CASE W!UpdateFu
    BY <2>2 DEF W!UpdateFu
  <2>3. CASE \/ W!CommitResult \/ W!Writeback \/ W!SelectStore \/ W!SelectWithout
             \/ W!Dispatch \/ W!FrontEnd \/ W!EndOfCycle
    BY <2>3 DEF W!CommitResult, W!Writeback, W!SelectStore, W!SelectWithout, W!Dispatch,
                W!FrontEnd, W!EndOfCycle
  <2> QED
    BY <2>1, <2>2, <2>3 DEF W!Next
<1> QED
  BY <1>1, SameUnits, ReserveUnit, ReleaseUnits

(* A functional unit, of whatever pool, serves one operation at a time,    *)
(* and is refused only while it does (UnitsSound, of res_get and           *)
(* update_fu).                                                             *)
THEOREM UnitsCorrect == Spec => []UnitsSound
<1>1. Init => UnitsInv
  BY InitUnits DEF Init
<1>2. UnitsInv /\ [Next]_vars => UnitsInv'
  <2> SUFFICES ASSUME UnitsInv, [Next]_vars PROVE UnitsInv'
    OBVIOUS
  <2>1. W!Next \/ powering' = powering
    BY DEF Next, vars, FetchStep, PredictorsStep, CachesStep, StateStep, PowerStep
  <2>2. powering' = powering => W!unitvars' = W!unitvars
    BY DEF powering, W!unitvars
  <2> QED
    BY <2>1, <2>2, UnitsNext, SameUnits
<1>3. UnitsInv => UnitsSound
  BY DEF UnitsInv, UnitsSound
<1> QED
  BY <1>1, <1>2, <1>3, PTL DEF Spec
-----------------------------------------------------------------------------
(* Counting the entries of a reorder buffer *)

Like(e, stages, dests) == e.stage \in stages /\ e.dest \in dests
Marked(rob, stages, dests) == {i \in DOMAIN rob : Like(rob[i], stages, dests)}
Holds(rob, stages, dests) == Cardinality(Marked(rob, stages, dests))
One(e, stages, dests) == IF Like(e, stages, dests) THEN 1 ELSE 0

LEMMA MarkedFinite ==
    ASSUME NEW E, NEW rob \in Seq(E), NEW stages, NEW dests
    PROVE  /\ IsFiniteSet(Marked(rob, stages, dests)) /\ Marked(rob, stages, dests) \subseteq Nat
           /\ Holds(rob, stages, dests) \in Nat
<1>1. Marked(rob, stages, dests) \in SUBSET (1 .. Len(rob)) /\ Len(rob) \in Nat
  BY DEF Marked
<1>2. IsFiniteSet(1 .. Len(rob))
  BY <1>1, FS_Interval
<1> QED
  BY <1>1, <1>2, FS_Subset, FS_CardinalityType DEF Holds

(* Moving a set of numbers does not change how many there are.             *)
LEMMA MovedCount ==
    ASSUME NEW S \in SUBSET Int, IsFiniteSet(S), NEW d \in Int, NEW T,
           T = {i + d : i \in S}
    PROVE  Cardinality(T) = Cardinality(S)
<1> DEFINE f == [i \in S |-> i + d]
<1>1. f \in Bijection(S, T)
  <2>1. f \in Injection(S, T)
    BY DEF Injection, IsInjective
  <2>2. f \in Surjection(S, T)
    BY DEF Surjection
  <2> QED
    BY <2>1, <2>2 DEF Bijection
<1> QED
  BY <1>1, FS_Bijection DEF ExistsBijection

LEMMA HoldsNone ==
    ASSUME NEW stages, NEW dests
    PROVE  Holds(<<>>, stages, dests) = 0
<1>1. Marked(<<>>, stages, dests) = {}
  BY DEF Marked
<1> QED
  BY <1>1, FS_EmptySet DEF Holds

LEMMA HoldsAppended ==
    ASSUME NEW E, NEW rob \in Seq(E), NEW e \in E, NEW stages, NEW dests
    PROVE  Holds(Append(rob, e), stages, dests) = Holds(rob, stages, dests) + One(e, stages, dests)
<1> DEFINE n == Len(rob)
           S == Marked(rob, stages, dests)
           T == Marked(Append(rob, e), stages, dests)
<1>1. n \in Nat /\ S \subseteq 1 .. n /\ IsFiniteSet(S) /\ Cardinality(S) \in Nat
  <2>1. n \in Nat /\ S \subseteq 1 .. n
    BY DEF Marked
  <2>2. IsFiniteSet(S) /\ Cardinality(S) \in Nat
    BY MarkedFinite DEF Holds
  <2> QED
    BY <2>1, <2>2
<1>2. DOMAIN Append(rob, e) = 1 .. n + 1 /\ DOMAIN rob = 1 .. n
  OBVIOUS
<1>3. (\A i \in 1 .. n : Append(rob, e)[i] = rob[i]) /\ Append(rob, e)[n + 1] = e
  OBVIOUS
<1>4. CASE Like(e, stages, dests)
  <2>1. T = S \cup {n + 1}
    BY <1>1, <1>2, <1>3, <1>4 DEF Marked
  <2> HIDE DEF S, T
  <2>2. n + 1 \notin S
    BY <1>1
  <2>3. Cardinality(T) = Cardinality(S) + 1
    BY <1>1, <2>1, <2>2, FS_AddElement
  <2> QED
    BY <1>4, <2>3 DEF Holds, One, S, T
<1>5. CASE ~Like(e, stages, dests)
  <2>1. T = S
    BY <1>1, <1>2, <1>3, <1>5 DEF Marked
  <2> QED
    BY <1>1, <1>5, <2>1 DEF Holds, One
<1> QED
  BY <1>4, <1>5

LEMMA HoldsChanged ==
    ASSUME NEW E, NEW rob \in Seq(E), NEW k \in DOMAIN rob, NEW e, NEW stages, NEW dests
    PROVE  Holds([rob EXCEPT ![k] = e], stages, dests) =
             Holds(rob, stages, dests) - One(rob[k], stages, dests) + One(e, stages, dests)
<1> DEFINE all == Marked(rob, stages, dests)
           S == all \ {k}
           T == Marked([rob EXCEPT ![k] = e], stages, dests)
<1>1. IsFiniteSet(all) /\ Cardinality(all) \in Nat
  BY MarkedFinite DEF Holds
<1>2. k \in all <=> Like(rob[k], stages, dests)
  BY DEF Marked
<1>3. T = IF Like(e, stages, dests) THEN S \cup {k} ELSE S
  BY DEF Marked
<1> HIDE DEF all, T
<1>4. IsFiniteSet(S) /\ Cardinality(S) = Cardinality(all) - One(rob[k], stages, dests)
  BY <1>1, <1>2, FS_RemoveElement DEF One
<1>5. k \notin S /\ Cardinality(S) \in Nat
  BY <1>4, FS_CardinalityType
<1> HIDE DEF S
<1>6. Cardinality(T) = Cardinality(S) + One(e, stages, dests)
  <2>1. Cardinality(S \cup {k}) = Cardinality(S) + 1
    BY <1>4, <1>5, FS_AddElement
  <2>2. CASE Like(e, stages, dests)
    BY <2>1, <2>2, <1>3 DEF One
  <2>3. CASE ~Like(e, stages, dests)
    BY <2>3, <1>3, <1>5 DEF One
  <2> QED
    BY <2>2, <2>3
<1>7. One(rob[k], stages, dests) \in Nat /\ One(e, stages, dests) \in Nat
  BY DEF One
<1> QED
  BY <1>1, <1>4, <1>5, <1>6, <1>7 DEF Holds, all, T

(* The entries before and behind a position are all of them.               *)
LEMMA HoldsSplit ==
    ASSUME NEW E, NEW rob \in Seq(E), NEW k \in 0 .. Len(rob), NEW stages, NEW dests
    PROVE  Holds(rob, stages, dests) =
             Holds(SubSeq(rob, 1, k), stages, dests) + Holds(SubSeq(rob, k + 1, Len(rob)), stages, dests)
<1> DEFINE n == Len(rob)
           S == Marked(rob, stages, dests)
           A == {i \in S : i <= k}
           D == {i \in S : i > k}
           T == Marked(SubSeq(rob, k + 1, n), stages, dests)
<1>1. n \in Nat /\ k \in Nat /\ k <= n /\ DOMAIN rob = 1 .. n
  OBVIOUS
<1>2. S \subseteq Nat /\ IsFiniteSet(S)
  BY MarkedFinite
<1>3. IsFiniteSet(A) /\ IsFiniteSet(D)
  BY <1>2, FS_Subset
<1> HIDE DEF S
<1>4. Cardinality(S) = Cardinality(A) + Cardinality(D)
  <2>1. S = A \cup D /\ A \cap D = {}
    BY <1>1, <1>2 DEF S
  <2> HIDE DEF A, D
  <2>2. Cardinality(S) = Cardinality(A) + Cardinality(D) - Cardinality(A \cap D)
    BY <1>3, <2>1, FS_Union
  <2>3. Cardinality({}) = 0
    BY FS_EmptySet
  <2>4. Cardinality(A) \in Nat /\ Cardinality(D) \in Nat
    BY <1>3, FS_CardinalityType
  <2> QED
    <3>1. Cardinality(A \cap D) = 0
      BY <2>1, <2>3
    <3> QED
      BY <2>2, <2>4, <3>1
<1>5. A = Marked(SubSeq(rob, 1, k), stages, dests)
  <2>1. DOMAIN SubSeq(rob, 1, k) = 1 .. k /\ \A i \in 1 .. k : SubSeq(rob, 1, k)[i] = rob[i]
    BY <1>1
  <2> QED
    BY <1>1, <2>1 DEF Marked, S
<1>6. T = {i + (-k) : i \in D}
  <2>1. /\ DOMAIN SubSeq(rob, k + 1, n) = 1 .. n - k
        /\ \A i \in 1 .. n - k : SubSeq(rob, k + 1, n)[i] = rob[i + k]
    BY <1>1
  <2>2. ASSUME NEW i \in T PROVE i + k \in D /\ i = (i + k) + (-k)
    BY <1>1, <2>1 DEF Marked, S
  <2>3. ASSUME NEW i \in D PROVE i + (-k) \in T
    <3>1. i - k \in 1 .. n - k /\ (i - k) + k = i
      BY <1>1 DEF Marked, S
    <3>2. SubSeq(rob, k + 1, n)[i - k] = rob[i]
      BY <2>1, <3>1
    <3> QED
      BY <2>1, <3>1, <3>2 DEF Marked, S
  <2> QED
    BY <2>2, <2>3
<1>7. Cardinality(T) = Cardinality(D)
  <2>1. D \subseteq S /\ S \subseteq Int
    BY <1>2 DEF D
  <2>2. PICK d \in Int : d = -k
    BY <1>1
  <2> HIDE DEF T, D
  <2>3. T = {i + d : i \in D}
    BY <1>6, <2>2
  <2> QED
    <3>1. D \in SUBSET Int
      BY <2>1
    <3> QED
      BY <1>3, <2>3, <3>1, MovedCount
<1> HIDE DEF A, D, T
<1> QED
  BY <1>4, <1>5, <1>7 DEF Holds, S, T

LEMMA HoldsTail ==
    ASSUME NEW E, NEW rob \in Seq(E), rob # <<>>, NEW stages, NEW dests
    PROVE  Holds(Tail(rob), stages, dests) =
             Holds(rob, stages, dests) - One(rob[1], stages, dests)
<1> DEFINE front == SubSeq(rob, 1, 1)
           rest == SubSeq(rob, 2, Len(rob))
<1>1. 1 \in 0 .. Len(rob) /\ Len(rob) \in Nat /\ rob[1] \in E
  OBVIOUS
<1>2. Tail(rob) = rest
  OBVIOUS
<1>3. Holds(rob, stages, dests) = Holds(front, stages, dests) + Holds(rest, stages, dests)
  <2>1. 1 + 1 = 2
    OBVIOUS
  <2> QED
    BY <1>1, <2>1, HoldsSplit
<1>5. Holds(front, stages, dests) = One(rob[1], stages, dests)
  <2>1. DOMAIN front = {1} /\ front[1] = rob[1]
    BY <1>1
  <2>2. Marked(front, stages, dests) = IF Like(rob[1], stages, dests) THEN {1} ELSE {}
    BY <2>1 DEF Marked
  <2>3. Cardinality({1}) = 1 /\ Cardinality({}) = 0
    BY FS_Singleton, FS_EmptySet
  <2> QED
    BY <2>2, <2>3 DEF Holds, One
<1>6. Holds(rest, stages, dests) \in Nat
  <2>1. rest \in Seq(E)
    BY <1>1
  <2> QED
    BY <2>1, MarkedFinite
<1>7. One(rob[1], stages, dests) \in Nat
  BY DEF One
<1> HIDE DEF front, rest
<1>8. Holds(Tail(rob), stages, dests) = Holds(rest, stages, dests)
  BY <1>2, Zenon
<1> QED
  BY <1>3, <1>5, <1>6, <1>7, <1>8
-----------------------------------------------------------------------------
(* The fetch queues *)

(* The slot i behind h in a ring of n.                                     *)
Spot(h, i, n) == IF h + i < n THEN h + i ELSE h + i - n

LEMMA ModSmall ==
    ASSUME NEW n \in Nat \ {0}, NEW h \in 0 .. n - 1, NEW i \in 0 .. n
    PROVE  (h + i) % n = Spot(h, i, n) /\ Spot(h, i, n) \in 0 .. n - 1
<1> DEFINE a == h + i
           q == IF h + i < n THEN 0 ELSE 1
           d == a \div n
           r == a % n
<1>1. d \in Int /\ r \in 0 .. n - 1 /\ a = n * d + r /\ a \in 0 .. n + n - 1
  BY SMT
<1>2. a = n * q + Spot(h, i, n) /\ Spot(h, i, n) \in 0 .. n - 1 /\ q \in Int
  BY SMT DEF Spot
<1> HIDE DEF a, q, d, r
<1>3. d = q
  <2>1. n * d < n * (q + 1) /\ n * q < n * (d + 1)
    BY <1>1, <1>2, SMT
  <2> QED
    BY <2>1, <1>1, <1>2, SMT
<1>4. r = Spot(h, i, n)
  BY <1>1, <1>2, <1>3, SMT
<1> QED
  BY <1>2, <1>4 DEF a, r

LEMMA SpotsDiffer ==
    ASSUME NEW n \in Nat \ {0}, NEW h \in 0 .. n - 1, NEW i \in 0 .. n - 1, NEW j \in 0 .. n - 1
    PROVE  /\ Spot(h, i, n) \in 0 .. n - 1
           /\ i # j => Spot(h, i, n) # Spot(h, j, n)
           /\ i # 0 => Spot(h, i, n) # h
BY DEF Spot

LEMMA SpotNext ==
    ASSUME NEW n \in Nat \ {0}, NEW h \in 0 .. n - 1, NEW i \in 0 .. n - 1
    PROVE  Spot(Spot(h, i, n), 1, n) = Spot(h, i + 1, n)
BY DEF Spot

LEMMA SpotMoved ==
    ASSUME NEW n \in Nat \ {0}, NEW h \in 0 .. n - 1, NEW i \in 0 .. n - 1
    PROVE  Spot(Spot(h, 1, n), i, n) = Spot(h, i + 1, n)
BY DEF Spot

LEMMA MaxOfTwo ==
    ASSUME NEW a \in Nat, NEW b \in Nat
    PROVE  F!Max({a, b}) \in Nat
<1>1. PICK m \in {a, b} : \A k \in {a, b} : m >= k
  OBVIOUS
<1>2. F!Max({a, b}) \in {a, b}
  BY <1>1 DEF F!Max
<1> QED
  BY <1>2

LEMMA MinIn ==
    ASSUME NEW S \in SUBSET Nat, S # {}
    PROVE  F!Min(S) \in S
<1>1. PICK m \in S : \A k \in S : m <= k
  BY LeastNat
<1> QED
  BY <1>1 DEF F!Min

(* The mask reaches some slots, all of them if their number is a power of  *)
(* two.                                                                    *)
LEMMA RingIs ==
    ASSUME NEW n \in Nat \ {0}
    PROVE  /\ F!RingOf(n) \in 1 .. n
           /\ F!PowerOfTwo(n) => F!RingOf(n) = n
<1> DEFINE t == {p \in 1 .. n : n % p = 0 /\ F!PowerOfTwo(p)}
           is(x) == x \in t /\ \A y \in t : x >= y
           below == {n - p : p \in t}
<1>1. F!RingOf(n) = CHOOSE x : is(x)
  BY DEF F!RingOf, F!Max
<1>2. 1 \in t
  <2>1. n % 1 = 0
    BY SMT
  <2>2. F!PowerOfTwo(1)
    BY DEF F!PowerOfTwo
  <2> QED
    BY <2>1, <2>2
<1>3. \E x : is(x)
  <2>1. below \in SUBSET Nat /\ n - 1 \in below
    BY <1>2
  <2>2. PICK m \in below : \A k \in below : m <= k
    BY <2>1, LeastNat
  <2>3. PICK x \in t : m = n - x
    BY <2>2
  <2>4. \A y \in t : n - y \in below
    OBVIOUS
  <2>5. t \subseteq Int
    OBVIOUS
  <2> HIDE DEF t, below
  <2>6. \A y \in t : x >= y
    BY <2>2, <2>3, <2>4, <2>5
  <2> QED
    BY <2>6
<1>4. is(F!RingOf(n))
  BY <1>1, <1>3
<1>5. ASSUME F!PowerOfTwo(n) PROVE F!RingOf(n) = n
  <2>1. n % n = 0
    BY SMT
  <2>2. n \in t
    BY <1>5, <2>1
  <2> QED
    BY <1>4, <2>2
<1> QED
  BY <1>4, <1>5

(* The mask reaches every slot.                                            *)
Full(k) == F!RingOf(k.IFQSize) = k.IFQSize

(* The fields of a context, what its queue, its reorder buffer and its     *)
(* addresses are.                                                          *)
Names == {"live", "IFQ", "fetch_head", "fetch_tail", "fetch_num", "fetch_pred_PC",
          "fetch_issue_delay", "icount", "ROB", "spec_mode", "recover_PC", "right_PC",
          "DCRA_int_iq", "DCRA_int_rf", "DCRA_fp_rf", "DCRA_L1_misses", "DCRA_activity_fp"}
Stages == {"renamed", "inIQ", "executed", "completed"}
Dests == {"int", "fp", "none"}
SlotOf(k) == [regs_PC : DOMAIN k.Code, pred_PC : DOMAIN k.Code]
EntryOf(k) == [next_PC : DOMAIN k.Code, recover_inst : BOOLEAN, dest : Dests, stage : Stages]

Typed(k, x) ==
  /\ Names \subseteq DOMAIN x
  /\ x.live \in BOOLEAN /\ x.spec_mode \in BOOLEAN
  /\ x.fetch_head \in 0 .. k.IFQSize - 1 /\ x.fetch_num \in 0 .. k.IFQSize
  /\ x.fetch_tail \in 0 .. k.IFQSize - 1
  /\ Full(k) => x.fetch_tail = Spot(x.fetch_head, x.fetch_num, k.IFQSize)
  /\ x.IFQ \in [0 .. k.IFQSize - 1 -> SlotOf(k)]
  /\ x.fetch_pred_PC \in DOMAIN k.Code /\ x.right_PC \in DOMAIN k.Code
  /\ x.recover_PC \in DOMAIN k.Code \cup {0}
  /\ x.ROB \in Seq(EntryOf(k)) /\ Len(x.ROB) <= k.ROBSize
  /\ x.fetch_issue_delay \in Nat

(* The counters, stage by stage.                                           *)
Counted(x) ==
  /\ x.icount = x.fetch_num + Holds(x.ROB, {"renamed", "inIQ"}, Dests)
  /\ x.DCRA_int_iq = Holds(x.ROB, {"inIQ"}, Dests)
  /\ x.DCRA_int_rf = Holds(x.ROB, Stages, {"int"})
  /\ x.DCRA_fp_rf = Holds(x.ROB, Stages, {"fp"})

(* The i-th of the queue, if the mask reaches every slot.  What is no      *)
(* branch is predicted to be followed by the next one.                     *)
At(k, x, i) == x.IFQ[Spot(x.fetch_head, i - 1, k.IFQSize)]
Behind(k, pc) == (pc % Len(k.Code)) + 1
Chain(k, x) ==
  /\ \A i \in 1 .. x.fetch_num :
       /\ At(k, x, i).regs_PC \in DOMAIN k.Code /\ At(k, x, i).pred_PC \in DOMAIN k.Code
       /\ At(k, x, i).pred_PC = IF i = x.fetch_num THEN x.fetch_pred_PC
                                ELSE At(k, x, i + 1).regs_PC
       /\ k.Code[At(k, x, i).regs_PC] \notin {"jump", "indirect"} =>
            At(k, x, i).pred_PC = Behind(k, At(k, x, i).regs_PC)
  /\ ~x.spec_mode =>
       x.right_PC = IF x.fetch_num = 0 THEN x.fetch_pred_PC ELSE At(k, x, 1).regs_PC
Chained(k, x) == Full(k) => Chain(k, x)

(* At most one branch is going to recover, on the wrong path it began.     *)
Pending(e) == e.recover_inst /\ e.stage # "completed"
Recovers(x) ==
  /\ \A i \in DOMAIN x.ROB : Pending(x.ROB[i]) =>
       x.spec_mode /\ x.ROB[i].next_PC = x.recover_PC /\ x.ROB[i].next_PC = x.right_PC
  /\ \A i, j \in DOMAIN x.ROB : Pending(x.ROB[i]) /\ Pending(x.ROB[j]) => i = j

Sound(k, x) == Typed(k, x) /\ Counted(x) /\ Chained(k, x) /\ Recovers(x)

FetchInv ==
  /\ IsCore(core)
  /\ contexts = [c \in 1 .. core.NumContexts |-> contexts[c]]
  /\ \A c \in 1 .. core.NumContexts : Sound(core, contexts[c])

(* The program: what follows an address is one.                            *)
LEMMA BehindIn ==
    ASSUME NEW k, IsCore(k), NEW pc \in DOMAIN k.Code
    PROVE  Behind(k, pc) \in DOMAIN k.Code
<1>1. Len(k.Code) \in Nat \ {0} /\ DOMAIN k.Code = 1 .. Len(k.Code)
  BY DEF IsCore
<1>2. \A n \in Nat \ {0}, p \in Nat : (p % n) + 1 \in 1 .. n
  BY SMT
<1> QED
  BY <1>1, <1>2 DEF Behind

(* The counts of the module are those above.                               *)
LEMMA CountsAre ==
    ASSUME NEW k, NEW es \in Seq(EntryOf(k))
    PROVE  /\ F!Count(es, LAMBDA e : ~F!NotWaiting(e)) = Holds(es, {"renamed", "inIQ"}, Dests)
           /\ F!Count(es, F!InIQ) = Holds(es, {"inIQ"}, Dests)
           /\ F!Count(es, LAMBDA e : e.dest = "int") = Holds(es, Stages, {"int"})
           /\ F!Count(es, LAMBDA e : e.dest = "fp") = Holds(es, Stages, {"fp"})
<1>1. \A i \in DOMAIN es : es[i].stage \in Stages /\ es[i].dest \in Dests
  <2>1. \A i \in DOMAIN es : es[i] \in EntryOf(k)
    OBVIOUS
  <2> QED
    BY <2>1 DEF EntryOf
<1>2. /\ {i \in DOMAIN es : ~F!NotWaiting(es[i])} = Marked(es, {"renamed", "inIQ"}, Dests)
      /\ {i \in DOMAIN es : F!InIQ(es[i])} = Marked(es, {"inIQ"}, Dests)
      /\ {i \in DOMAIN es : es[i].dest = "int"} = Marked(es, Stages, {"int"})
      /\ {i \in DOMAIN es : es[i].dest = "fp"} = Marked(es, Stages, {"fp"})
  BY <1>1 DEF F!NotWaiting, F!Undispatched, F!InIQ, Marked, Like, Stages
<1>3. \A S : F!Cardinality(S) = Cardinality(S)
  BY Zenon DEF F!Cardinality, Cardinality
<1> QED
  BY <1>2, <1>3 DEF F!Count, Holds

LEMMA CoreFacts ==
    ASSUME IsCore(core)
    PROVE  /\ F!IFQSize = core.IFQSize /\ core.IFQSize \in Nat \ {0}
           /\ F!Slots = 0 .. core.IFQSize - 1 /\ F!PCs = DOMAIN core.Code
           /\ \A pc : F!Following(pc) = Behind(core, pc)
           /\ 1 \in DOMAIN core.Code /\ F!Unused \in SlotOf(core)
<1>1. /\ F!IFQSize = core.IFQSize /\ core.IFQSize \in Nat \ {0}
      /\ F!Slots = 0 .. core.IFQSize - 1 /\ F!PCs = DOMAIN core.Code
      /\ 1 \in DOMAIN core.Code
  BY DEF IsCore, F!IFQSize, F!Slots, F!PCs, F!Code
<1>2. F!Unused \in SlotOf(core)
  BY <1>1 DEF F!Unused, SlotOf
<1>3. \A pc : F!Following(pc) = Behind(core, pc)
  BY Zenon DEF F!Following, Behind, F!Code
<1> QED
  BY <1>1, <1>2, <1>3

LEMMA MaskFacts ==
    ASSUME IsCore(core)
    PROVE  /\ F!RingOf(core.IFQSize) \in 1 .. core.IFQSize
           /\ \A a \in Nat : a % F!RingOf(core.IFQSize) \in 0 .. core.IFQSize - 1
           /\ \A h \in 0 .. core.IFQSize - 1 : F!Masked(h) \in 0 .. core.IFQSize - 1
           /\ Full(core) => \A h \in 0 .. core.IFQSize - 1 :
                                F!Masked(h) = Spot(h, 1, core.IFQSize)
<1> DEFINE n == core.IFQSize
           p == F!RingOf(n)
<1>1. /\ n \in Nat \ {0} /\ p \in 1 .. n
      /\ \A h : F!Masked(h) = (h + 1) % p
  BY CoreFacts, RingIs DEF F!Masked, F!MaskedBy
<1> HIDE DEF p, n
<1>2. ASSUME NEW a \in Nat PROVE a % p \in 0 .. n - 1
  <2>1. a % p \in 0 .. p - 1
    BY <1>1, SMT
  <2> QED
    BY <1>1, <2>1
<1>3. \A h \in 0 .. n - 1 : h + 1 \in Nat
  BY <1>1
<1>4. ASSUME p = n, NEW h \in 0 .. n - 1 PROVE F!Masked(h) = Spot(h, 1, n)
  <2>1. 1 \in 0 .. n
    BY <1>1
  <2>2. (h + 1) % n = Spot(h, 1, n)
    BY <1>1, <2>1, ModSmall
  <2> QED
    BY <1>1, <1>4, <2>2
<1> QED
  BY <1>1, <1>2, <1>3, <1>4 DEF Full, n, p

(* The queue of a context whose queue and addresses are those of another.  *)
SameQueue(x, y) ==
  /\ y.IFQ = x.IFQ /\ y.fetch_head = x.fetch_head /\ y.fetch_tail = x.fetch_tail
  /\ y.fetch_num = x.fetch_num /\ y.fetch_pred_PC = x.fetch_pred_PC
  /\ y.right_PC = x.right_PC
SameEntries(x, y) ==
  /\ y.ROB = x.ROB /\ y.DCRA_int_iq = x.DCRA_int_iq /\ y.DCRA_int_rf = x.DCRA_int_rf
  /\ y.DCRA_fp_rf = x.DCRA_fp_rf /\ y.recover_PC = x.recover_PC

LEMMA QueueKept ==
    ASSUME NEW k, NEW x, NEW y, Chained(k, x), SameQueue(x, y), y.spec_mode = x.spec_mode
    PROVE  Chained(k, y)
<1>1. \A i : At(k, y, i) = At(k, x, i)
  BY Zenon DEF At, SameQueue
<1> QED
  BY <1>1 DEF Chained, Chain, SameQueue

LEMMA NothingChained ==
    ASSUME NEW k, NEW y, y.fetch_num = 0, ~y.spec_mode => y.right_PC = y.fetch_pred_PC
    PROVE  Chained(k, y)
BY DEF Chained, Chain

(* Fetch takes an instruction where it is, and goes on where that is       *)
(* predicted to.                                                           *)
LEMMA AppendedFields ==
    ASSUME NEW x, Names \subseteq DOMAIN x, NEW e, NEW lat
    PROVE  LET y == F!Appended(x, e, lat) IN
           /\ DOMAIN y = DOMAIN x
           /\ y.IFQ = [x.IFQ EXCEPT ![x.fetch_tail] = e]
           /\ y.fetch_tail = F!Masked(x.fetch_tail)
           /\ y.fetch_num = x.fetch_num + 1 /\ y.icount = x.icount + 1
           /\ y.fetch_pred_PC = e.pred_PC
           /\ y.fetch_issue_delay = x.fetch_issue_delay + lat
           /\ y.fetch_head = x.fetch_head /\ y.right_PC = x.right_PC
           /\ y.live = x.live /\ y.spec_mode = x.spec_mode /\ SameEntries(x, y)
BY DEF F!Appended, Names, SameEntries

LEMMA AppendedSound ==
    ASSUME IsCore(core), NEW x, Sound(core, x), x.fetch_num # core.IFQSize,
           NEW pred \in F!Predictions(x.fetch_pred_PC), NEW lat \in {0, core.MaxDelay}
    PROVE  Sound(core, F!Appended(x, [regs_PC |-> x.fetch_pred_PC,
                     pred_PC |-> IF pred = 0 THEN F!Following(x.fetch_pred_PC) ELSE pred], lat))
<1> DEFINE n == core.IFQSize
           pc == x.fetch_pred_PC
           next == IF pred = 0 THEN F!Following(pc) ELSE pred
           e == [regs_PC |-> pc, pred_PC |-> next]
           y == F!Appended(x, e, lat)
           num == x.fetch_num
<1>1. /\ Names \subseteq DOMAIN x /\ n \in Nat \ {0} /\ num \in 0 .. n - 1
      /\ x.fetch_head \in 0 .. n - 1 /\ x.IFQ \in [0 .. n - 1 -> SlotOf(core)]
      /\ pc \in DOMAIN core.Code /\ x.fetch_tail \in 0 .. n - 1
  BY CoreFacts DEF Sound, Typed
<1>2. /\ next \in DOMAIN core.Code
      /\ core.Code[pc] \notin {"jump", "indirect"} => next = Behind(core, pc)
  <2>1. F!Following(pc) = Behind(core, pc) /\ Behind(core, pc) \in DOMAIN core.Code
    BY <1>1, CoreFacts, BehindIn
  <2>2. pred = 0 \/ (core.Code[pc] \in {"jump", "indirect"} /\ pred \in DOMAIN core.Code)
    BY CoreFacts DEF F!Predictions, F!Code, F!Ctrl
  <2> QED
    BY <2>1, <2>2
<1> HIDE DEF next
<1>3. /\ e.regs_PC = pc /\ e.pred_PC = next /\ e \in SlotOf(core)
  BY <1>1, <1>2 DEF SlotOf
<1>4. /\ DOMAIN y = DOMAIN x
      /\ y.IFQ = [x.IFQ EXCEPT ![x.fetch_tail] = e]
      /\ y.fetch_tail = F!Masked(x.fetch_tail)
      /\ y.fetch_num = num + 1 /\ y.icount = x.icount + 1
      /\ y.fetch_pred_PC = next
      /\ y.fetch_issue_delay = x.fetch_issue_delay + lat
      /\ y.fetch_head = x.fetch_head /\ y.right_PC = x.right_PC
      /\ y.live = x.live /\ y.spec_mode = x.spec_mode /\ SameEntries(x, y)
  BY <1>1, <1>3, AppendedFields
<1> HIDE DEF e, y, n
<1>5. Typed(core, y)
  <2>1. lat \in Nat
    BY DEF IsCore
  <2>2. y.fetch_tail \in 0 .. n - 1
    BY <1>1, <1>4, MaskFacts DEF n
  <2>7. ASSUME Full(core) PROVE y.fetch_tail = Spot(y.fetch_head, y.fetch_num, n)
    <3>1. Spot(Spot(x.fetch_head, num, n), 1, n) = Spot(x.fetch_head, num + 1, n)
      BY <1>1, SpotNext
    <3>2. y.fetch_tail = Spot(x.fetch_tail, 1, n)
      BY <1>1, <1>4, <2>7, MaskFacts DEF n
    <3>3. x.fetch_tail = Spot(x.fetch_head, num, n)
      BY <2>7 DEF Sound, Typed, n
    <3> QED
      BY <1>1, <1>4, <3>1, <3>2, <3>3
  <2>3. /\ y.fetch_head \in 0 .. n - 1 /\ y.fetch_num \in 0 .. n
        /\ y.IFQ \in [0 .. n - 1 -> SlotOf(core)]
    BY <1>1, <1>3, <1>4
  <2>4. Typed(core, x)
    BY DEF Sound
  <2>5. y.fetch_issue_delay \in Nat
    BY <1>4, <2>1, <2>4 DEF Typed
  <2>6. /\ y.fetch_pred_PC \in DOMAIN core.Code /\ Names \subseteq DOMAIN y
        /\ y.live = x.live /\ y.spec_mode = x.spec_mode /\ y.right_PC = x.right_PC
        /\ y.ROB = x.ROB /\ y.recover_PC = x.recover_PC
    BY <1>1, <1>2, <1>4 DEF SameEntries
  <2> QED
    BY <2>2, <2>3, <2>4, <2>5, <2>6, <2>7 DEF Typed, n
<1>6. Counted(y)
  <2>1. Holds(x.ROB, {"renamed", "inIQ"}, Dests) \in Nat
    BY MarkedFinite DEF Sound, Typed
  <2> QED
    BY <1>1, <1>4, <2>1 DEF Sound, Counted, SameEntries
<1>7. ASSUME Full(core) PROVE Chain(core, y)
  <2>6. Chain(core, x)
    BY <1>7 DEF Sound, Chained
  <2>9. x.fetch_tail = Spot(x.fetch_head, num, n)
    BY <1>7 DEF Sound, Typed, n
  <2>1. \A i \in 1 .. num : At(core, y, i) = At(core, x, i)
    <3> SUFFICES ASSUME NEW i \in 1 .. num PROVE At(core, y, i) = At(core, x, i)
      OBVIOUS
    <3>1. /\ Spot(x.fetch_head, i - 1, n) \in 0 .. n - 1
          /\ Spot(x.fetch_head, i - 1, n) # x.fetch_tail
      <4>1. i - 1 \in 0 .. n - 1 /\ i - 1 # num
        BY <1>1
      <4> QED
        BY <4>1, <1>1, <2>9, SpotsDiffer
    <3> QED
      BY <3>1, <1>1, <1>4 DEF At, n
  <2>2. At(core, y, num + 1) = e
    <3>1. (num + 1) - 1 = num
      BY <1>1
    <3> QED
      BY <3>1, <1>1, <1>4, <2>9 DEF At, n
  <2>3. \A i \in 1 .. num + 1 : i = num + 1 \/ (i \in 1 .. num /\ (i = num \/ i + 1 \in 1 .. num))
    BY <1>1
  <2>4. 1 \in 1 .. num + 1 /\ (num # 0 => 1 \in 1 .. num) /\ num + 1 # 0
    BY <1>1
  <2>5. y.spec_mode = x.spec_mode /\ y.right_PC = x.right_PC /\ y.fetch_num = num + 1
        /\ y.fetch_pred_PC = next
    BY <1>4
  <2>7. ASSUME NEW i \in 1 .. num + 1
        PROVE  /\ At(core, y, i).regs_PC \in DOMAIN core.Code
               /\ At(core, y, i).pred_PC \in DOMAIN core.Code
               /\ At(core, y, i).pred_PC = IF i = num + 1 THEN next
                                           ELSE At(core, y, i + 1).regs_PC
               /\ core.Code[At(core, y, i).regs_PC] \notin {"jump", "indirect"} =>
                    At(core, y, i).pred_PC = Behind(core, At(core, y, i).regs_PC)
    <3>1. CASE i = num + 1
      BY <3>1, <2>2, <1>1, <1>2, <1>3
    <3>2. CASE i = num /\ i # num + 1 /\ i \in 1 .. num
      BY <3>2, <2>1, <2>2, <2>6, <1>3 DEF Chain
    <3>3. CASE i # num /\ i # num + 1 /\ i \in 1 .. num /\ i + 1 \in 1 .. num
      BY <3>3, <2>1, <2>6 DEF Chain
    <3> QED
      BY <3>1, <3>2, <3>3, <2>3
  <2>8. ~x.spec_mode => x.right_PC = At(core, y, 1).regs_PC
    BY <2>1, <2>2, <2>4, <2>6, <1>3 DEF Chain
  <2> QED
    BY <2>4, <2>5, <2>7, <2>8 DEF Chain
<1>8. Recovers(y)
  BY <1>4 DEF Sound, Recovers, SameEntries
<1> QED
  BY <1>5, <1>6, <1>7, <1>8 DEF Sound, Chained, y, e, next

(* Rename takes the oldest one.  Where the program is not on a wrong path, *)
(* what it executes next is what that one is followed by.                  *)
LEMMA TakenChained ==
    ASSUME NEW k, NEW x, NEW y, k.IFQSize \in Nat \ {0}, Chain(k, x),
           x.fetch_head \in 0 .. k.IFQSize - 1, x.fetch_num \in 1 .. k.IFQSize,
           \A s \in 0 .. k.IFQSize - 1 : s # x.fetch_head => y.IFQ[s] = x.IFQ[s],
           y.fetch_head = Spot(x.fetch_head, 1, k.IFQSize),
           y.fetch_num = x.fetch_num - 1, y.fetch_pred_PC = x.fetch_pred_PC,
           ~y.spec_mode => y.right_PC = At(k, x, 1).pred_PC
    PROVE  Chain(k, y)
<1> DEFINE n == k.IFQSize
           num == x.fetch_num
<1>0. n \in Nat \ {0} /\ x.fetch_head \in 0 .. n - 1 /\ num \in 1 .. n
  OBVIOUS
<1>1. \A i \in 1 .. num - 1 : At(k, y, i) = At(k, x, i + 1)
  <2> SUFFICES ASSUME NEW i \in 1 .. num - 1 PROVE At(k, y, i) = At(k, x, i + 1)
    OBVIOUS
  <2>1. i \in Nat /\ i \in 0 .. n - 1 /\ i - 1 \in 0 .. n - 1 /\ 0 \in 0 .. n - 1 /\ i # 0
        /\ (i + 1) - 1 = i /\ (i - 1) + 1 = i
    OBVIOUS
  <2>2. Spot(y.fetch_head, i - 1, n) = Spot(x.fetch_head, i, n)
    BY <1>0, <2>1, SpotMoved
  <2>3. /\ Spot(x.fetch_head, i, n) \in 0 .. n - 1
        /\ Spot(x.fetch_head, i, n) # x.fetch_head
    BY <1>0, <2>1, SpotsDiffer
  <2>5. y.IFQ[Spot(x.fetch_head, i, n)] = x.IFQ[Spot(x.fetch_head, i, n)]
    BY <2>3
  <2> QED
    BY <2>1, <2>2, <2>5 DEF At
<1>2. ASSUME NEW i \in 1 .. num - 1
      PROVE  /\ i + 1 \in 1 .. num /\ (i + 1 = num <=> i = num - 1)
             /\ (i # num - 1 => i + 1 \in 1 .. num - 1)
  OBVIOUS
<1>3. ASSUME NEW i \in 1 .. num - 1
      PROVE  /\ At(k, y, i).regs_PC \in DOMAIN k.Code /\ At(k, y, i).pred_PC \in DOMAIN k.Code
             /\ At(k, y, i).pred_PC = IF i = num - 1 THEN x.fetch_pred_PC
                                      ELSE At(k, y, i + 1).regs_PC
             /\ k.Code[At(k, y, i).regs_PC] \notin {"jump", "indirect"} =>
                  At(k, y, i).pred_PC = Behind(k, At(k, y, i).regs_PC)
  <2>1. CASE i = num - 1
    BY <2>1, <1>1, <1>2 DEF Chain
  <2>2. CASE i # num - 1
    BY <2>2, <1>1, <1>2 DEF Chain
  <2> QED
    BY <2>1, <2>2
<1>4. ~y.spec_mode => y.right_PC = IF num - 1 = 0 THEN x.fetch_pred_PC ELSE At(k, y, 1).regs_PC
  <2>1. 1 \in 1 .. num /\ (num - 1 # 0 => 1 \in 1 .. num - 1 /\ num # 1)
    OBVIOUS
  <2>2. At(k, x, 1).pred_PC = IF 1 = num THEN x.fetch_pred_PC ELSE At(k, x, 1 + 1).regs_PC
    BY <2>1 DEF Chain
  <2> QED
    BY <2>1, <2>2, <1>1
<1> QED
  BY <1>3, <1>4 DEF Chain

LEMMA OutcomesAre ==
    ASSUME IsCore(core), NEW pc \in DOMAIN core.Code, NEW next \in F!Outcomes(pc)
    PROVE  /\ next \in DOMAIN core.Code
           /\ core.Code[pc] \notin {"jump", "indirect"} => next = Behind(core, pc)
           /\ F!Dest(pc) \in Dests
<1>1. F!Following(pc) = Behind(core, pc) /\ Behind(core, pc) \in DOMAIN core.Code
      /\ F!PCs = DOMAIN core.Code
  BY CoreFacts, BehindIn
<1>2. core.Code[pc] = "jump" => core.Target[pc] \in DOMAIN core.Code
  BY DEF IsCore
<1>3. F!Dest(pc) \in Dests
  BY DEF F!Dest, Dests
<1>4. CASE core.Code[pc] = "jump"
  BY <1>1, <1>2, <1>3, <1>4 DEF F!Outcomes, F!Code
<1>5. CASE core.Code[pc] = "indirect"
  BY <1>1, <1>3, <1>5 DEF F!Outcomes, F!Code
<1>6. CASE core.Code[pc] \notin {"jump", "indirect"}
  BY <1>1, <1>3, <1>6 DEF F!Outcomes, F!Code
<1> QED
  BY <1>4, <1>5, <1>6

(* What is left in the slot of the oldest of num instructions.             *)
Vacated(num, e) == IF num > F!RingOf(F!IFQSize) THEN e ELSE F!Unused

LEMMA VacatedIn ==
    ASSUME IsCore(core), NEW e \in SlotOf(core), NEW num
    PROVE  Vacated(num, e) \in SlotOf(core)
BY CoreFacts DEF Vacated

ConsumedOf(y, z) ==
  /\ z.IFQ = [y.IFQ EXCEPT ![y.fetch_head] = Vacated(y.fetch_num, @)]
  /\ z.fetch_head = F!Masked(y.fetch_head) /\ z.fetch_num = y.fetch_num - 1
  /\ DOMAIN z = DOMAIN y /\ z.fetch_tail = y.fetch_tail
  /\ z.fetch_pred_PC = y.fetch_pred_PC /\ z.live = y.live
  /\ z.fetch_issue_delay = y.fetch_issue_delay /\ z.right_PC = y.right_PC
  /\ z.icount = y.icount /\ z.ROB = y.ROB /\ z.recover_PC = y.recover_PC
  /\ z.DCRA_int_iq = y.DCRA_int_iq /\ z.DCRA_int_rf = y.DCRA_int_rf
  /\ z.DCRA_fp_rf = y.DCRA_fp_rf /\ z.spec_mode = y.spec_mode

LEMMA ConsumedFields ==
    ASSUME NEW y, Names \subseteq DOMAIN y
    PROVE  ConsumedOf(y, F!Consumed(y))
BY DEF F!Consumed, Vacated, Names, ConsumedOf

(* The fields of a context when e, off its queue, is decoded: one without  *)
(* and one with an entry of the reorder buffer.                            *)
DecodedOf(k, x, e, next, pred, z) ==
  LET wrong == ~x.spec_mode /\ pred # next
      dest == F!Dest(e.regs_PC)
      new == [next_PC |-> next, recover_inst |-> wrong, stage |-> "renamed",
              dest |-> dest]
      nop == k.Code[e.regs_PC] = "nop"
  IN /\ DOMAIN z = DOMAIN x
     /\ z.IFQ = [x.IFQ EXCEPT ![x.fetch_head] = Vacated(x.fetch_num, @)]
     /\ z.fetch_head = F!Masked(x.fetch_head)
     /\ z.fetch_tail = x.fetch_tail /\ z.fetch_num = x.fetch_num - 1
     /\ z.fetch_pred_PC = x.fetch_pred_PC /\ z.live = x.live
     /\ z.fetch_issue_delay = x.fetch_issue_delay
     /\ z.right_PC = IF x.spec_mode THEN x.right_PC ELSE next
     /\ nop => /\ z.icount = x.icount - 1 /\ z.spec_mode = x.spec_mode
               /\ SameEntries(x, z)
     /\ ~nop => /\ z.icount = x.icount /\ z.ROB = Append(x.ROB, new)
                /\ z.spec_mode = (x.spec_mode \/ wrong)
                /\ z.recover_PC = IF wrong THEN next ELSE x.recover_PC
                /\ z.DCRA_int_iq = x.DCRA_int_iq
                /\ z.DCRA_int_rf = IF dest = "int" THEN x.DCRA_int_rf + 1
                                   ELSE x.DCRA_int_rf
                /\ z.DCRA_fp_rf = IF dest = "fp" THEN x.DCRA_fp_rf + 1
                                  ELSE x.DCRA_fp_rf

LEMMA DecodedFields ==
    ASSUME NEW x, Names \subseteq DOMAIN x, NEW e, NEW next, NEW pred,
           x.spec_mode \in BOOLEAN
    PROVE  DecodedOf(core, x, e, next, pred, F!Consumed(F!Decoded(x, e, next, pred)))
<1> DEFINE y == F!Decoded(x, e, next, pred)
           nop == core.Code[e.regs_PC] = "nop"
           wrong == ~x.spec_mode /\ pred # next
           dest == F!Dest(e.regs_PC)
           new == [next_PC |-> next, recover_inst |-> wrong, stage |-> "renamed",
                   dest |-> dest]
<1>2. CASE nop
  <2>1. y = [x EXCEPT !.icount = @ - 1, !.right_PC = IF ~x.spec_mode THEN next ELSE @]
    BY <1>2 DEF F!Decoded, F!Code
  <2> HIDE DEF y
  <2>2. /\ DOMAIN y = DOMAIN x /\ y.IFQ = x.IFQ /\ y.fetch_head = x.fetch_head
        /\ y.fetch_tail = x.fetch_tail /\ y.fetch_num = x.fetch_num
        /\ y.fetch_pred_PC = x.fetch_pred_PC /\ y.live = x.live
        /\ y.fetch_issue_delay = x.fetch_issue_delay
        /\ y.right_PC = IF x.spec_mode THEN x.right_PC ELSE next
        /\ y.icount = x.icount - 1 /\ y.spec_mode = x.spec_mode /\ SameEntries(x, y)
    BY <2>1 DEF Names, SameEntries
  <2> DEFINE z == F!Consumed(y)
  <2>3. ConsumedOf(y, z)
    BY <2>2, ConsumedFields
  <2> HIDE DEF z
  <2> QED
    BY <1>2, <2>2, <2>3, Zenon DEF z, y, ConsumedOf, SameEntries, DecodedOf
<1>3. CASE ~nop
  <2>1. y = [x EXCEPT
            !.ROB = Append(@, new),
            !.DCRA_int_rf = IF dest = "int" THEN @ + 1 ELSE @,
            !.DCRA_fp_rf = IF dest = "fp" THEN @ + 1 ELSE @,
            !.DCRA_activity_fp = IF dest = "fp" THEN core.MaxActivity ELSE @,
            !.spec_mode = @ \/ wrong,
            !.recover_PC = IF wrong THEN next ELSE @,
            !.right_PC = IF ~x.spec_mode THEN next ELSE @]
    BY <1>3, Zenon DEF F!Decoded, F!Code
  <2> HIDE DEF y, new, dest
  <2>2. /\ DOMAIN y = DOMAIN x /\ y.IFQ = x.IFQ /\ y.fetch_head = x.fetch_head
        /\ y.fetch_tail = x.fetch_tail /\ y.fetch_num = x.fetch_num
        /\ y.fetch_pred_PC = x.fetch_pred_PC /\ y.live = x.live
        /\ y.fetch_issue_delay = x.fetch_issue_delay
        /\ y.right_PC = IF x.spec_mode THEN x.right_PC ELSE next
        /\ y.icount = x.icount /\ y.ROB = Append(x.ROB, new)
        /\ y.recover_PC = IF wrong THEN next ELSE x.recover_PC
        /\ y.DCRA_int_iq = x.DCRA_int_iq
        /\ y.DCRA_int_rf = IF dest = "int" THEN x.DCRA_int_rf + 1 ELSE x.DCRA_int_rf
        /\ y.DCRA_fp_rf = IF dest = "fp" THEN x.DCRA_fp_rf + 1 ELSE x.DCRA_fp_rf
    BY <2>1 DEF Names
  <2>3. y.spec_mode = (x.spec_mode \/ wrong)
    BY <2>1, Zenon DEF Names
  <2> DEFINE z == F!Consumed(y)
  <2>4. ConsumedOf(y, z)
    BY <2>2, ConsumedFields
  <2> HIDE DEF z
  <2>5. z.spec_mode = (x.spec_mode \/ wrong)
    BY <2>3, <2>4, Zenon DEF ConsumedOf
  <2>6. /\ DOMAIN z = DOMAIN x
        /\ z.IFQ = [x.IFQ EXCEPT ![x.fetch_head] = Vacated(x.fetch_num, @)]
        /\ z.fetch_head = F!Masked(x.fetch_head)
        /\ z.fetch_tail = x.fetch_tail /\ z.fetch_num = x.fetch_num - 1
        /\ z.fetch_pred_PC = x.fetch_pred_PC /\ z.live = x.live
        /\ z.fetch_issue_delay = x.fetch_issue_delay
        /\ z.right_PC = IF x.spec_mode THEN x.right_PC ELSE next
    BY <2>2, <2>4, Zenon DEF ConsumedOf
  <2>7. /\ z.icount = x.icount /\ z.ROB = Append(x.ROB, new)
        /\ z.recover_PC = IF wrong THEN next ELSE x.recover_PC
        /\ z.DCRA_int_iq = x.DCRA_int_iq
        /\ z.DCRA_int_rf = IF dest = "int" THEN x.DCRA_int_rf + 1 ELSE x.DCRA_int_rf
        /\ z.DCRA_fp_rf = IF dest = "fp" THEN x.DCRA_fp_rf + 1 ELSE x.DCRA_fp_rf
    BY <2>2, <2>4 DEF ConsumedOf
  <2> QED
    BY <1>3, <2>5, <2>6, <2>7, Zenon DEF z, y, new, dest, DecodedOf
<1> QED
  BY <1>2, <1>3

(* What does not depend on the order of the queue.                         *)
Half(k, x) == Typed(k, x) /\ Counted(x) /\ Recovers(x)

LEMMA DecodedHalf ==
    ASSUME IsCore(core), NEW x, Half(core, x), x.fetch_num # 0,
           Len(x.ROB) < core.ROBSize, NEW e, e.regs_PC \in DOMAIN core.Code,
           NEW next \in F!Outcomes(e.regs_PC), NEW pred
    PROVE  Half(core, F!Consumed(F!Decoded(x, e, next, pred)))
<1> DEFINE z == F!Consumed(F!Decoded(x, e, next, pred))
           wrong == ~x.spec_mode /\ pred # next
           dest == F!Dest(e.regs_PC)
           new == [next_PC |-> next, recover_inst |-> wrong, stage |-> "renamed",
                   dest |-> dest]
           nop == core.Code[e.regs_PC] = "nop"
           n == core.IFQSize
<1>1. /\ Names \subseteq DOMAIN x /\ n \in Nat \ {0} /\ x.fetch_num \in 1 .. n
      /\ x.fetch_head \in 0 .. n - 1 /\ x.fetch_tail \in 0 .. n - 1
      /\ Full(core) => x.fetch_tail = Spot(x.fetch_head, x.fetch_num, n)
      /\ x.IFQ \in [0 .. n - 1 -> SlotOf(core)] /\ x.spec_mode \in BOOLEAN
      /\ x.ROB \in Seq(EntryOf(core))
  BY CoreFacts DEF Half, Typed
<1>2. /\ DOMAIN z = DOMAIN x
      /\ z.IFQ = [x.IFQ EXCEPT ![x.fetch_head] = Vacated(x.fetch_num, @)]
      /\ z.fetch_head = F!Masked(x.fetch_head)
      /\ z.fetch_tail = x.fetch_tail /\ z.fetch_num = x.fetch_num - 1
      /\ z.fetch_pred_PC = x.fetch_pred_PC /\ z.live = x.live
      /\ z.fetch_issue_delay = x.fetch_issue_delay
      /\ z.right_PC = IF x.spec_mode THEN x.right_PC ELSE next
      /\ nop => /\ z.icount = x.icount - 1 /\ z.spec_mode = x.spec_mode
                /\ SameEntries(x, z)
      /\ ~nop => /\ z.icount = x.icount /\ z.ROB = Append(x.ROB, new)
                 /\ z.spec_mode = (x.spec_mode \/ wrong)
                 /\ z.recover_PC = IF wrong THEN next ELSE x.recover_PC
                 /\ z.DCRA_int_iq = x.DCRA_int_iq
                 /\ z.DCRA_int_rf = IF dest = "int" THEN x.DCRA_int_rf + 1
                                    ELSE x.DCRA_int_rf
                 /\ z.DCRA_fp_rf = IF dest = "fp" THEN x.DCRA_fp_rf + 1
                                   ELSE x.DCRA_fp_rf
  <2>1. DecodedOf(core, x, e, next, pred, z)
    BY <1>1, DecodedFields
  <2> HIDE DEF z
  <2> QED
    BY <2>1, Zenon DEF DecodedOf
<1>3. next \in DOMAIN core.Code /\ dest \in Dests
  BY OutcomesAre
<1>4. new \in EntryOf(core)
  BY <1>3 DEF EntryOf, Stages
<1>5. /\ new.stage = "renamed" /\ new.dest = dest /\ new.next_PC = next
      /\ new.recover_inst = wrong
  OBVIOUS
<1> HIDE DEF z, new, dest, wrong, nop
<1>6. Typed(core, z)
  <2>1. z.fetch_tail \in 0 .. n - 1
    BY <1>1, <1>2
  <2>6. ASSUME Full(core) PROVE z.fetch_tail = Spot(z.fetch_head, z.fetch_num, n)
    <3>1. x.fetch_num - 1 \in 0 .. n - 1 /\ (x.fetch_num - 1) + 1 = x.fetch_num
      BY <1>1
    <3>2. F!Masked(x.fetch_head) = Spot(x.fetch_head, 1, n)
      BY <1>1, <2>6, MaskFacts
    <3> HIDE DEF n
    <3>3. Spot(Spot(x.fetch_head, 1, n), x.fetch_num - 1, n) = Spot(x.fetch_head, x.fetch_num, n)
      BY <1>1, <3>1, SpotMoved
    <3> QED
      BY <1>1, <1>2, <2>6, <3>2, <3>3
  <2>2. z.fetch_head \in 0 .. n - 1 /\ z.fetch_num \in 0 .. n
    <3>1. F!Masked(x.fetch_head) \in 0 .. n - 1
      BY <1>1, MaskFacts
    <3>2. x.fetch_num - 1 \in 0 .. n
      BY <1>1
    <3> QED
      BY <1>2, <3>1, <3>2
  <2>3. z.IFQ \in [0 .. n - 1 -> SlotOf(core)]
    <3>1. x.IFQ[x.fetch_head] \in SlotOf(core)
      BY <1>1
    <3>2. Vacated(x.fetch_num, x.IFQ[x.fetch_head]) \in SlotOf(core)
      BY <3>1, VacatedIn
    <3> QED
      BY <1>1, <1>2, <3>2
  <2>4. z.spec_mode \in BOOLEAN
    <3>1. CASE nop
      BY <3>1, <1>1, <1>2, Zenon
    <3>2. CASE ~nop
      BY <3>2, <1>2, Zenon
    <3> QED
      BY <3>1, <3>2
  <2>5. z.recover_PC \in DOMAIN core.Code \cup {0} /\ z.ROB \in Seq(EntryOf(core))
        /\ Len(z.ROB) <= core.ROBSize
    <3>1. CASE nop
      BY <3>1, <1>2 DEF Half, Typed, SameEntries
    <3>2. CASE ~nop
      <4>1. /\ Append(x.ROB, new) \in Seq(EntryOf(core))
            /\ Len(Append(x.ROB, new)) = Len(x.ROB) + 1 /\ Len(x.ROB) \in Nat
        BY <1>1, <1>4
      <4>2. core.ROBSize \in Nat
        BY DEF IsCore
      <4>3. Len(Append(x.ROB, new)) <= core.ROBSize
        BY <4>1, <4>2
      <4>4. z.recover_PC \in DOMAIN core.Code \cup {0}
        BY <3>2, <1>2, <1>3 DEF Half, Typed
      <4> QED
        BY <3>2, <4>1, <4>3, <4>4, <1>2, Zenon
    <3> QED
      BY <3>1, <3>2
  <2> QED
    BY <1>1, <1>2, <1>3, <2>1, <2>2, <2>3, <2>4, <2>5, <2>6 DEF Half, Typed, n
<1>7. Counted(z)
  <2>1. CASE nop
    <3>1. Holds(x.ROB, {"renamed", "inIQ"}, Dests) \in Nat
      BY <1>1, MarkedFinite
    <3> QED
      BY <2>1, <3>1, <1>1, <1>2 DEF Half, Counted, SameEntries
  <2>2. CASE ~nop
    <3>1. \A stages, dests : Holds(z.ROB, stages, dests) =
                               Holds(x.ROB, stages, dests) + One(new, stages, dests)
      <4>1. z.ROB = Append(x.ROB, new)
        BY <2>2, <1>2
      <4>2. \A stages, dests : Holds(Append(x.ROB, new), stages, dests) =
                                 Holds(x.ROB, stages, dests) + One(new, stages, dests)
        BY <1>1, <1>4, HoldsAppended
      <4> QED
        BY <4>1, <4>2
    <3>2. /\ One(new, {"renamed", "inIQ"}, Dests) = 1 /\ One(new, {"inIQ"}, Dests) = 0
          /\ One(new, Stages, {"int"}) = IF dest = "int" THEN 1 ELSE 0
          /\ One(new, Stages, {"fp"}) = IF dest = "fp" THEN 1 ELSE 0
      BY <1>3, <1>5 DEF One, Like, Stages
    <3>3. /\ Holds(x.ROB, {"renamed", "inIQ"}, Dests) \in Nat
          /\ Holds(x.ROB, {"inIQ"}, Dests) \in Nat
          /\ Holds(x.ROB, Stages, {"int"}) \in Nat /\ Holds(x.ROB, Stages, {"fp"}) \in Nat
      BY <1>1, MarkedFinite
    <3> QED
      <4>1. Counted(x) /\ x.fetch_num \in Nat /\ z.fetch_num = x.fetch_num - 1
        BY <1>1, <1>2 DEF Half
      <4>2. /\ z.icount = x.icount /\ z.DCRA_int_iq = x.DCRA_int_iq
            /\ z.DCRA_int_rf = IF dest = "int" THEN x.DCRA_int_rf + 1 ELSE x.DCRA_int_rf
            /\ z.DCRA_fp_rf = IF dest = "fp" THEN x.DCRA_fp_rf + 1 ELSE x.DCRA_fp_rf
        BY <2>2, <1>2
      <4> QED
        BY <3>1, <3>2, <3>3, <4>1, <4>2 DEF Counted
  <2> QED
    BY <2>1, <2>2
<1>8. Recovers(z)
  <2>1. Recovers(x)
    BY DEF Half
  <2>2. ~x.spec_mode => \A i \in DOMAIN x.ROB : ~Pending(x.ROB[i])
    BY <2>1 DEF Recovers
  <2>3. CASE nop
    <3>1. z.ROB = x.ROB /\ z.recover_PC = x.recover_PC /\ z.spec_mode = x.spec_mode
          /\ (x.spec_mode => z.right_PC = x.right_PC)
      BY <2>3, <1>2 DEF SameEntries
    <3> QED
      BY <3>1, <2>1, <2>2 DEF Recovers
  <2>4. CASE ~nop
    <3>1. /\ DOMAIN z.ROB = 1 .. Len(x.ROB) + 1 /\ DOMAIN x.ROB = 1 .. Len(x.ROB)
          /\ \A i \in 1 .. Len(x.ROB) : z.ROB[i] = x.ROB[i]
          /\ z.ROB[Len(x.ROB) + 1] = new /\ Len(x.ROB) \in Nat
      <4>1. z.ROB = Append(x.ROB, new)
        BY <2>4, <1>2
      <4> QED
        BY <4>1, <1>1, <1>4
    <3>2. \A i \in DOMAIN z.ROB : i = Len(x.ROB) + 1 \/ i \in DOMAIN x.ROB
      BY <3>1
    <3>3. Pending(new) <=> wrong
      BY <1>5, Zenon DEF Pending
    <3>4. CASE wrong
      <4>1. /\ z.spec_mode /\ z.recover_PC = next /\ z.right_PC = next
            /\ ~x.spec_mode
        BY <2>4, <3>4, <1>2, Zenon DEF wrong
      <4> QED
        BY <4>1, <3>1, <3>2, <2>2, <1>5 DEF Recovers
    <3>5. CASE ~wrong
      <4>1. z.recover_PC = x.recover_PC
        BY <2>4, <3>5, <1>2
      <4>2. z.spec_mode <=> x.spec_mode
        BY <2>4, <3>5, <1>2, Zenon
      <4>3. x.spec_mode => z.right_PC = x.right_PC
        BY <1>2
      <4>4. \A i \in DOMAIN z.ROB : Pending(z.ROB[i]) =>
              i \in DOMAIN x.ROB /\ Pending(x.ROB[i]) /\ z.ROB[i] = x.ROB[i]
        BY <3>1, <3>2, <3>3, <3>5
      <4> HIDE DEF Pending
      <4> QED
        BY <4>1, <4>2, <4>3, <4>4, <2>1, <2>2 DEF Recovers
    <3> QED
      BY <3>4, <3>5
  <2> QED
    BY <2>3, <2>4
<1> QED
  BY <1>6, <1>7, <1>8 DEF Half, z

(* What is in the queue is dropped.                                        *)
LEMMA DrainedFields ==
    ASSUME IsCore(core), NEW x, Half(core, x)
    PROVE  LET y == F!Drained(x) IN
           /\ DOMAIN y = DOMAIN x /\ y.IFQ \in [0 .. core.IFQSize - 1 -> SlotOf(core)]
           /\ y.icount = x.icount - x.fetch_num /\ y.fetch_num = 0
           /\ y.fetch_head \in 0 .. core.IFQSize - 1 /\ y.fetch_tail = x.fetch_tail
           /\ Full(core) => y.fetch_head = x.fetch_tail
           /\ y.fetch_pred_PC = x.fetch_pred_PC /\ y.right_PC = x.right_PC
           /\ y.live = x.live /\ y.spec_mode = x.spec_mode
           /\ y.fetch_issue_delay = x.fetch_issue_delay
           /\ SameEntries(x, y)
<1> DEFINE y == F!Drained(x)
           a == x.fetch_head + x.fetch_num
<1>1. /\ F!IFQSize = core.IFQSize /\ core.IFQSize \in Nat \ {0}
      /\ F!Slots = 0 .. core.IFQSize - 1 /\ F!Unused \in SlotOf(core)
  BY CoreFacts
<1>2. /\ x.fetch_head \in 0 .. core.IFQSize - 1 /\ x.fetch_num \in 0 .. core.IFQSize
      /\ a \in Nat /\ Names \subseteq DOMAIN x
  BY <1>1 DEF Half, Typed
<1>3. /\ DOMAIN y = DOMAIN x /\ y.IFQ = [s \in F!Slots |-> F!Unused]
      /\ y.icount = x.icount - x.fetch_num /\ y.fetch_num = 0
      /\ y.fetch_head = a % F!RingOf(core.IFQSize) /\ y.fetch_tail = x.fetch_tail
      /\ y.fetch_pred_PC = x.fetch_pred_PC /\ y.right_PC = x.right_PC
      /\ y.live = x.live /\ y.spec_mode = x.spec_mode
      /\ y.fetch_issue_delay = x.fetch_issue_delay
      /\ SameEntries(x, y)
  BY <1>1, <1>2 DEF F!Drained, Names, SameEntries
<1> HIDE DEF y
<1>4. y.fetch_head \in 0 .. core.IFQSize - 1
  BY <1>2, <1>3, MaskFacts
<1>5. ASSUME Full(core) PROVE y.fetch_head = x.fetch_tail
  <2>1. a % core.IFQSize = Spot(x.fetch_head, x.fetch_num, core.IFQSize)
    BY <1>1, <1>2, ModSmall
  <2>2. x.fetch_tail = Spot(x.fetch_head, x.fetch_num, core.IFQSize)
    BY <1>5 DEF Half, Typed
  <2>3. F!RingOf(core.IFQSize) = core.IFQSize
    BY <1>5 DEF Full
  <2> QED
    BY <1>3, <2>1, <2>2, <2>3
<1> QED
  BY <1>1, <1>3, <1>4, <1>5 DEF y

LEMMA DrainedHalf ==
    ASSUME IsCore(core), NEW x, Half(core, x)
    PROVE  Half(core, F!Drained(x))
<1> DEFINE y == F!Drained(x)
<1>1. /\ DOMAIN y = DOMAIN x /\ y.IFQ \in [0 .. core.IFQSize - 1 -> SlotOf(core)]
      /\ y.icount = x.icount - x.fetch_num /\ y.fetch_num = 0
      /\ y.fetch_head \in 0 .. core.IFQSize - 1 /\ y.fetch_tail = x.fetch_tail
      /\ Full(core) => y.fetch_head = x.fetch_tail
      /\ y.fetch_pred_PC = x.fetch_pred_PC /\ y.right_PC = x.right_PC
      /\ y.live = x.live /\ y.spec_mode = x.spec_mode
      /\ y.fetch_issue_delay = x.fetch_issue_delay
      /\ SameEntries(x, y)
  BY DrainedFields
<1> HIDE DEF y
<1>2. Typed(core, y)
  <2>1. 0 \in 0 .. core.IFQSize /\ Spot(y.fetch_head, 0, core.IFQSize) = y.fetch_head
    BY <1>1, CoreFacts DEF Spot
  <2> QED
    BY <1>1, <2>1 DEF Half, Typed, SameEntries
<1>3. Counted(y)
  <2>1. Holds(x.ROB, {"renamed", "inIQ"}, Dests) \in Nat /\ x.fetch_num \in Nat
    BY MarkedFinite, CoreFacts DEF Half, Typed
  <2> QED
    BY <1>1, <2>1 DEF Half, Counted, SameEntries
<1>4. Recovers(y)
  BY <1>1 DEF Half, Recovers, SameEntries
<1> QED
  BY <1>2, <1>3, <1>4 DEF Half, y

LEMMA RedirectedHalf ==
    ASSUME NEW k, NEW x, Half(k, x), NEW pc \in DOMAIN k.Code
    PROVE  LET y == [x EXCEPT !.fetch_pred_PC = pc] IN
           /\ Half(k, y) /\ y.fetch_num = x.fetch_num /\ y.spec_mode = x.spec_mode
           /\ y.right_PC = x.right_PC /\ y.fetch_pred_PC = pc
<1> DEFINE y == [x EXCEPT !.fetch_pred_PC = pc]
<1>1. /\ DOMAIN y = DOMAIN x /\ y.IFQ = x.IFQ /\ y.fetch_head = x.fetch_head
      /\ y.fetch_tail = x.fetch_tail /\ y.fetch_num = x.fetch_num
      /\ y.fetch_pred_PC = pc /\ y.live = x.live /\ y.spec_mode = x.spec_mode
      /\ y.fetch_issue_delay = x.fetch_issue_delay /\ y.right_PC = x.right_PC
      /\ y.icount = x.icount /\ SameEntries(x, y)
  BY DEF Half, Typed, Names, SameEntries
<1> HIDE DEF y
<1> QED
  BY <1>1 DEF Half, Typed, Counted, Recovers, SameEntries, y

LEMMA RenameSound ==
    ASSUME IsCore(core), NEW x, Sound(core, x), x.fetch_num # 0,
           Len(x.ROB) < core.ROBSize, NEW e, e = x.IFQ[x.fetch_head],
           NEW next \in F!Outcomes(e.regs_PC)
    PROVE  LET misfetch == F!Misfetched(e, next)
               pred == IF misfetch /\ core.pred_perfect THEN next ELSE e.pred_PC
               y == F!Consumed(F!Decoded(x, e, next, pred))
           IN Sound(core, IF misfetch THEN F!Redirected(y, next) ELSE y)
<1> DEFINE misfetch == F!Misfetched(e, next)
           pred == IF misfetch /\ core.pred_perfect THEN next ELSE e.pred_PC
           z == F!Consumed(F!Decoded(x, e, next, pred))
           n == core.IFQSize
<1>1. /\ Names \subseteq DOMAIN x /\ n \in Nat \ {0} /\ x.fetch_num \in 1 .. n
      /\ x.fetch_head \in 0 .. n - 1 /\ x.IFQ \in [0 .. n - 1 -> SlotOf(core)]
      /\ x.spec_mode \in BOOLEAN /\ Half(core, x) /\ Chained(core, x)
  BY CoreFacts DEF Sound, Half, Typed
<1>2. e = At(core, x, 1)
  <2>1. Spot(x.fetch_head, 1 - 1, n) = x.fetch_head
    BY <1>1 DEF Spot
  <2> QED
    BY <2>1 DEF At
<1>3. /\ e.regs_PC \in DOMAIN core.Code /\ e.pred_PC \in DOMAIN core.Code
      /\ Full(core) /\ core.Code[e.regs_PC] \notin {"jump", "indirect"} =>
           e.pred_PC = Behind(core, e.regs_PC)
  <2>1. 1 \in 1 .. x.fetch_num
    BY <1>1
  <2>2. e \in SlotOf(core)
    BY <1>1
  <2> QED
    BY <1>1, <1>2, <2>1, <2>2 DEF Chained, Chain, SlotOf
<1>4. /\ next \in DOMAIN core.Code
      /\ core.Code[e.regs_PC] \notin {"jump", "indirect"} => next = Behind(core, e.regs_PC)
  BY <1>3, OutcomesAre
<1>5. Half(core, z)
  <2> HIDE DEF pred
  <2> QED
    BY <1>1, <1>3, DecodedHalf
<1>6. /\ z.IFQ = [x.IFQ EXCEPT ![x.fetch_head] = Vacated(x.fetch_num, @)]
      /\ z.fetch_head = F!Masked(x.fetch_head)
      /\ z.fetch_num = x.fetch_num - 1 /\ z.fetch_pred_PC = x.fetch_pred_PC
      /\ ~z.spec_mode => /\ z.right_PC = next
                         /\ core.Code[e.regs_PC] = "nop" \/ pred = next
  <2>1. /\ z.IFQ = [x.IFQ EXCEPT ![x.fetch_head] = Vacated(x.fetch_num, @)]
        /\ z.fetch_head = F!Masked(x.fetch_head)
        /\ z.fetch_num = x.fetch_num - 1 /\ z.fetch_pred_PC = x.fetch_pred_PC
        /\ z.right_PC = IF x.spec_mode THEN x.right_PC ELSE next
        /\ core.Code[e.regs_PC] = "nop" => z.spec_mode = x.spec_mode
        /\ core.Code[e.regs_PC] # "nop" =>
             z.spec_mode = (x.spec_mode \/ (~x.spec_mode /\ pred # next))
    <3> HIDE DEF pred
    <3>1. DecodedOf(core, x, e, next, pred, z)
      BY <1>1, DecodedFields
    <3> HIDE DEF z
    <3> QED
      BY <3>1, Zenon DEF DecodedOf
  <2> HIDE DEF z, pred
  <2>2. CASE core.Code[e.regs_PC] = "nop"
    BY <2>1, <2>2, Zenon
  <2>3. CASE core.Code[e.regs_PC] # "nop"
    BY <2>1, <2>3, Zenon
  <2> QED
    BY <2>2, <2>3
<1>7. CASE misfetch
  <2> DEFINE d == F!Drained(z)
             y == [d EXCEPT !.fetch_pred_PC = next]
  <2>1. Half(core, d) /\ d.fetch_num = 0 /\ d.spec_mode = z.spec_mode /\ d.right_PC = z.right_PC
    <3> HIDE DEF z
    <3> QED
      BY <1>5, DrainedHalf, DrainedFields
  <2> HIDE DEF d, z
  <2>2. /\ Half(core, y) /\ y.fetch_num = 0 /\ y.spec_mode = z.spec_mode
        /\ y.right_PC = z.right_PC /\ y.fetch_pred_PC = next
    BY <2>1, <1>4, RedirectedHalf
  <2>3. F!Redirected(z, next) = y
    BY Zenon DEF F!Redirected, d
  <2> HIDE DEF y
  <2>4. Chained(core, y)
    BY <2>2, <1>6, NothingChained
  <2> QED
    BY <1>7, <2>2, <2>3, <2>4, Zenon DEF Sound, Half, z
<1>8. CASE ~misfetch
  <2>1. pred = e.pred_PC
    BY <1>8, Zenon
  <2> HIDE DEF z, misfetch, pred
  <2>2. ASSUME Full(core) PROVE ~z.spec_mode => z.right_PC = At(core, x, 1).pred_PC
    <3>1. CASE pred = next
      BY <3>1, <2>1, <1>2, <1>6
    <3>2. CASE core.Code[e.regs_PC] = "nop"
      BY <2>2, <3>2, <1>2, <1>3, <1>4, <1>6
    <3> QED
      BY <3>1, <3>2, <1>6
  <2>3. ASSUME Full(core) PROVE Chain(core, z)
    <3>1. Chain(core, x) /\ x.fetch_num \in 1 .. core.IFQSize
      BY <1>1, <2>3 DEF Chained
    <3>2. z.fetch_head = Spot(x.fetch_head, 1, core.IFQSize)
      BY <1>1, <1>6, <2>3, MaskFacts
    <3>3. \A s \in 0 .. core.IFQSize - 1 : s # x.fetch_head => z.IFQ[s] = x.IFQ[s]
      BY <1>1, <1>6
    <3>4. /\ z.fetch_num = x.fetch_num - 1 /\ z.fetch_pred_PC = x.fetch_pred_PC
          /\ ~z.spec_mode => z.right_PC = At(core, x, 1).pred_PC
      BY <1>6, <2>2, <2>3
    <3> QED
      BY <1>1, <3>1, <3>2, <3>3, <3>4, TakenChained
  <2>4. Chained(core, z)
    BY <2>3 DEF Chained
  <2> QED
    BY <1>5, <1>8, <2>4, Zenon DEF Sound, Half, z, misfetch, pred
<1> QED
  BY <1>7, <1>8

(* A stage passed by one entry of the reorder buffer.                      *)
StageOf(x, y, k, to) ==
  /\ SameQueue(x, y) /\ y.spec_mode = x.spec_mode /\ y.recover_PC = x.recover_PC
  /\ DOMAIN y = DOMAIN x /\ y.live = x.live /\ y.fetch_issue_delay = x.fetch_issue_delay
  /\ y.ROB = [x.ROB EXCEPT ![k] = [x.ROB[k] EXCEPT !.stage = to]]
  /\ y.DCRA_int_rf = x.DCRA_int_rf /\ y.DCRA_fp_rf = x.DCRA_fp_rf

LEMMA EntriesKnown ==
    ASSUME NEW c, NEW x, x.ROB \in Seq(EntryOf(c)), NEW k \in DOMAIN x.ROB
    PROVE  /\ x.ROB[k] \in EntryOf(c) /\ x.ROB[k].stage \in Stages
           /\ x.ROB[k].dest \in Dests /\ x.ROB[k].recover_inst \in BOOLEAN
           /\ x.ROB[k].next_PC \in DOMAIN c.Code
           /\ k \in 1 .. Len(x.ROB) /\ Len(x.ROB) \in Nat
<1>1. /\ x.ROB[k] \in EntryOf(c) /\ k \in 1 .. Len(x.ROB) /\ Len(x.ROB) \in Nat
  OBVIOUS
<1> QED
  BY <1>1 DEF EntryOf

LEMMA StageSound ==
    ASSUME NEW c, NEW x, NEW y, NEW k \in DOMAIN x.ROB, NEW to \in Stages,
           Sound(c, x), StageOf(x, y, k, to), x.ROB[k].stage # "completed",
           y.icount = x.icount - One(x.ROB[k], {"renamed", "inIQ"}, Dests)
                               + (IF to \in {"renamed", "inIQ"} THEN 1 ELSE 0),
           y.DCRA_int_iq = x.DCRA_int_iq - One(x.ROB[k], {"inIQ"}, Dests)
                               + (IF to = "inIQ" THEN 1 ELSE 0)
    PROVE  Sound(c, y)
<1> DEFINE e == [x.ROB[k] EXCEPT !.stage = to]
<1>1. x.ROB \in Seq(EntryOf(c))
  BY DEF Sound, Typed
<1>2. /\ x.ROB[k] \in EntryOf(c) /\ x.ROB[k].dest \in Dests /\ x.ROB[k].stage \in Stages
      /\ x.ROB[k].recover_inst \in BOOLEAN
  BY <1>1, EntriesKnown
<1>3. /\ e.stage = to /\ e.dest = x.ROB[k].dest /\ e.next_PC = x.ROB[k].next_PC
      /\ e.recover_inst = x.ROB[k].recover_inst /\ e \in EntryOf(c)
  BY <1>2 DEF EntryOf
<1> HIDE DEF e
<1>4. y.ROB = [x.ROB EXCEPT ![k] = e]
  BY DEF StageOf, e
<1>5. /\ DOMAIN y.ROB = DOMAIN x.ROB /\ y.ROB[k] = e
      /\ \A i \in DOMAIN x.ROB : i # k => y.ROB[i] = x.ROB[i]
      /\ y.ROB \in Seq(EntryOf(c)) /\ Len(y.ROB) = Len(x.ROB)
  BY <1>1, <1>3, <1>4
<1>6. Typed(c, y)
  BY <1>5 DEF Sound, Typed, StageOf, SameQueue
<1>7. Counted(y)
  <2>1. \A stages, dests : Holds(y.ROB, stages, dests) =
          Holds(x.ROB, stages, dests) - One(x.ROB[k], stages, dests) + One(e, stages, dests)
    BY <1>1, <1>4, HoldsChanged
  <2>2. /\ One(e, {"renamed", "inIQ"}, Dests) = IF to \in {"renamed", "inIQ"} THEN 1 ELSE 0
        /\ One(e, {"inIQ"}, Dests) = IF to = "inIQ" THEN 1 ELSE 0
    BY <1>2, <1>3 DEF One, Like
  <2>3. /\ One(e, Stages, {"int"}) = One(x.ROB[k], Stages, {"int"})
        /\ One(e, Stages, {"fp"}) = One(x.ROB[k], Stages, {"fp"})
    BY <1>2, <1>3 DEF One, Like
  <2>4. /\ Holds(x.ROB, {"renamed", "inIQ"}, Dests) \in Nat
        /\ Holds(x.ROB, {"inIQ"}, Dests) \in Nat
        /\ Holds(x.ROB, Stages, {"int"}) \in Nat /\ Holds(x.ROB, Stages, {"fp"}) \in Nat
    BY <1>1, MarkedFinite
  <2>5. \A stages, dests : /\ One(e, stages, dests) \in Nat
                           /\ One(x.ROB[k], stages, dests) \in Nat
    BY DEF One
  <2>6. x.fetch_num \in Int /\ y.fetch_num = x.fetch_num /\ Counted(x)
    BY DEF Sound, Typed, StageOf, SameQueue
  <2>7. y.icount = y.fetch_num + Holds(y.ROB, {"renamed", "inIQ"}, Dests)
    BY <2>1, <2>2, <2>4, <2>5, <2>6 DEF Counted
  <2>8. y.DCRA_int_iq = Holds(y.ROB, {"inIQ"}, Dests)
    BY <2>1, <2>2, <2>4, <2>5, <2>6 DEF Counted
  <2>9. y.DCRA_int_rf = Holds(y.ROB, Stages, {"int"}) /\ y.DCRA_fp_rf = Holds(y.ROB, Stages, {"fp"})
    BY <2>1, <2>3, <2>4, <2>5, <2>6 DEF Counted, StageOf
  <2> QED
    BY <2>7, <2>8, <2>9 DEF Counted
<1>8. Chained(c, y)
  BY QueueKept DEF Sound, StageOf
<1>9. Recovers(y)
  <2>1. \A i \in DOMAIN y.ROB : /\ Pending(y.ROB[i]) => Pending(x.ROB[i])
                                /\ y.ROB[i].next_PC = x.ROB[i].next_PC
    BY <1>3, <1>5 DEF Pending
  <2> HIDE DEF Pending
  <2> QED
    BY <1>5, <2>1 DEF Sound, Recovers, StageOf, SameQueue
<1> QED
  BY <1>6, <1>7, <1>8, <1>9 DEF Sound

LEMMA DispatchSound ==
    ASSUME NEW x, Sound(core, x), NEW k \in DOMAIN x.ROB, F!Undispatched(x.ROB[k])
    PROVE  Sound(core, [x EXCEPT !.ROB[k].stage = "inIQ", !.DCRA_int_iq = @ + 1])
<1> DEFINE y == [x EXCEPT !.ROB[k].stage = "inIQ", !.DCRA_int_iq = @ + 1]
<1>1. Names \subseteq DOMAIN x /\ x.ROB \in Seq(EntryOf(core))
  BY DEF Sound, Typed
<1>2. /\ StageOf(x, y, k, "inIQ") /\ y.icount = x.icount
      /\ y.DCRA_int_iq = x.DCRA_int_iq + 1
  BY <1>1 DEF Names, StageOf, SameQueue
<1>3. x.ROB[k].stage = "renamed" /\ x.ROB[k].dest \in Dests
  BY <1>1, EntriesKnown DEF F!Undispatched
<1>4. /\ One(x.ROB[k], {"renamed", "inIQ"}, Dests) = 1
      /\ One(x.ROB[k], {"inIQ"}, Dests) = 0
  BY <1>3 DEF One, Like
<1>5. x.icount \in Int /\ x.DCRA_int_iq \in Int
  BY <1>1, MarkedFinite DEF Sound, Typed, Counted
<1> HIDE DEF y
<1>6. y.icount = x.icount - One(x.ROB[k], {"renamed", "inIQ"}, Dests)
                 + (IF "inIQ" \in {"renamed", "inIQ"} THEN 1 ELSE 0)
  BY <1>2, <1>4, <1>5
<1>7. y.DCRA_int_iq = x.DCRA_int_iq - One(x.ROB[k], {"inIQ"}, Dests)
                      + (IF "inIQ" = "inIQ" THEN 1 ELSE 0)
  BY <1>2, <1>4, <1>5
<1>8. "inIQ" \in Stages
  BY DEF Stages
<1> QED
  BY <1>2, <1>3, <1>6, <1>7, <1>8, StageSound DEF y

LEMMA ExecuteSound ==
    ASSUME NEW x, Sound(core, x), NEW k \in DOMAIN x.ROB, F!InIQ(x.ROB[k]), NEW lat
    PROVE  Sound(core, [x EXCEPT !.ROB[k].stage = "executed", !.icount = @ - 1,
                                 !.DCRA_int_iq = @ - 1, !.DCRA_L1_misses = lat])
<1> DEFINE y == [x EXCEPT !.ROB[k].stage = "executed", !.icount = @ - 1,
                          !.DCRA_int_iq = @ - 1, !.DCRA_L1_misses = lat]
<1>1. Names \subseteq DOMAIN x /\ x.ROB \in Seq(EntryOf(core))
  BY DEF Sound, Typed
<1>2. /\ StageOf(x, y, k, "executed") /\ y.icount = x.icount - 1
      /\ y.DCRA_int_iq = x.DCRA_int_iq - 1
  BY <1>1 DEF Names, StageOf, SameQueue
<1>3. x.ROB[k].stage = "inIQ" /\ x.ROB[k].dest \in Dests
  BY <1>1, EntriesKnown DEF F!InIQ
<1>4. /\ One(x.ROB[k], {"renamed", "inIQ"}, Dests) = 1
      /\ One(x.ROB[k], {"inIQ"}, Dests) = 1
  BY <1>3 DEF One, Like
<1>5. x.icount \in Int /\ x.DCRA_int_iq \in Int
  BY <1>1, MarkedFinite DEF Sound, Typed, Counted
<1> HIDE DEF y
<1>6. y.icount = x.icount - One(x.ROB[k], {"renamed", "inIQ"}, Dests)
                 + (IF "executed" \in {"renamed", "inIQ"} THEN 1 ELSE 0)
  BY <1>2, <1>4, <1>5
<1>7. y.DCRA_int_iq = x.DCRA_int_iq - One(x.ROB[k], {"inIQ"}, Dests)
                      + (IF "executed" = "inIQ" THEN 1 ELSE 0)
  BY <1>2, <1>4, <1>5
<1>8. "executed" \in Stages
  BY DEF Stages
<1> QED
  BY <1>2, <1>3, <1>6, <1>7, <1>8, StageSound DEF y

LEMMA CompletedSound ==
    ASSUME NEW x, Sound(core, x), NEW k \in DOMAIN x.ROB, x.ROB[k].stage = "executed"
    PROVE  LET y == [x EXCEPT !.ROB[k].stage = "completed"]
           IN Sound(core, y) /\ StageOf(x, y, k, "completed")
<1> DEFINE y == [x EXCEPT !.ROB[k].stage = "completed"]
<1>1. Names \subseteq DOMAIN x /\ x.ROB \in Seq(EntryOf(core))
  BY DEF Sound, Typed
<1>2. /\ StageOf(x, y, k, "completed") /\ y.icount = x.icount
      /\ y.DCRA_int_iq = x.DCRA_int_iq
  BY <1>1 DEF Names, StageOf, SameQueue
<1>3. x.ROB[k].stage = "executed" /\ x.ROB[k].dest \in Dests
  BY <1>1, EntriesKnown
<1>4. /\ One(x.ROB[k], {"renamed", "inIQ"}, Dests) = 0
      /\ One(x.ROB[k], {"inIQ"}, Dests) = 0
  BY <1>3 DEF One, Like
<1>5. x.icount \in Int /\ x.DCRA_int_iq \in Int
  BY <1>1, MarkedFinite DEF Sound, Typed, Counted
<1> HIDE DEF y
<1>6. y.icount = x.icount - One(x.ROB[k], {"renamed", "inIQ"}, Dests)
                 + (IF "completed" \in {"renamed", "inIQ"} THEN 1 ELSE 0)
  BY <1>2, <1>4, <1>5
<1>7. y.DCRA_int_iq = x.DCRA_int_iq - One(x.ROB[k], {"inIQ"}, Dests)
                      + (IF "completed" = "inIQ" THEN 1 ELSE 0)
  BY <1>2, <1>4, <1>5
<1>8. "completed" \in Stages
  BY DEF Stages
<1> QED
  BY <1>2, <1>3, <1>6, <1>7, <1>8, StageSound DEF y

(* What is given back of the entries of a squash is what they have.        *)
LEMMA SquashedFields ==
    ASSUME NEW x, Names \subseteq DOMAIN x, NEW es \in Seq(EntryOf(core))
    PROVE  LET y == F!Squashed(x, es) IN
           /\ DOMAIN y = DOMAIN x /\ y.IFQ = x.IFQ /\ y.fetch_head = x.fetch_head
           /\ y.fetch_tail = x.fetch_tail /\ y.fetch_num = x.fetch_num
           /\ y.fetch_pred_PC = x.fetch_pred_PC /\ y.live = x.live
           /\ y.spec_mode = x.spec_mode /\ y.right_PC = x.right_PC
           /\ y.recover_PC = x.recover_PC /\ y.ROB = x.ROB
           /\ y.fetch_issue_delay = x.fetch_issue_delay
           /\ y.icount = x.icount - Holds(es, {"renamed", "inIQ"}, Dests)
           /\ y.DCRA_int_iq = x.DCRA_int_iq - Holds(es, {"inIQ"}, Dests)
           /\ y.DCRA_int_rf = x.DCRA_int_rf - Holds(es, Stages, {"int"})
           /\ y.DCRA_fp_rf = x.DCRA_fp_rf - Holds(es, Stages, {"fp"})
<1> DEFINE waiting == Holds(es, {"renamed", "inIQ"}, Dests)
           queued == Holds(es, {"inIQ"}, Dests)
           ints == Holds(es, Stages, {"int"})
           fps == Holds(es, Stages, {"fp"})
<1>1. F!Squashed(x, es) = [x EXCEPT !.icount = @ - waiting, !.DCRA_int_iq = @ - queued,
                                    !.DCRA_int_rf = @ - ints, !.DCRA_fp_rf = @ - fps]
  BY CountsAre, Zenon DEF F!Squashed
<1> HIDE DEF waiting, queued, ints, fps
<1> QED
  BY <1>1 DEF Names, waiting, queued, ints, fps

LEMMA EmptiedFields ==
    ASSUME IsCore(core), NEW x, Names \subseteq DOMAIN x
    PROVE  LET y == F!Emptied(x) IN
           /\ DOMAIN y = DOMAIN x /\ y.IFQ \in [0 .. core.IFQSize - 1 -> SlotOf(core)]
           /\ y.icount = x.icount - x.fetch_num /\ y.fetch_num = 0
           /\ y.fetch_head = 0 /\ y.fetch_tail = 0
           /\ y.live = x.live /\ y.spec_mode = x.spec_mode /\ y.right_PC = x.right_PC
           /\ y.fetch_issue_delay = x.fetch_issue_delay
           /\ SameEntries(x, y)
<1>1. F!Slots = 0 .. core.IFQSize - 1 /\ F!Unused \in SlotOf(core)
  BY CoreFacts
<1> QED
  BY <1>1 DEF F!Emptied, F!Drained, Names, SameEntries

(* A context with nothing in its queue, and with the first n entries of    *)
(* its reorder buffer.                                                     *)
LEMMA ShortSound ==
    ASSUME IsCore(core), NEW x, Sound(core, x), NEW n \in 0 .. Len(x.ROB), NEW y,
           Names \subseteq DOMAIN y, y.live \in BOOLEAN, y.spec_mode = FALSE,
           y.IFQ \in [0 .. core.IFQSize - 1 -> SlotOf(core)],
           y.fetch_head = 0, y.fetch_tail = 0, y.fetch_num = 0,
           y.fetch_pred_PC \in DOMAIN core.Code, y.right_PC = y.fetch_pred_PC,
           y.recover_PC \in DOMAIN core.Code \cup {0}, y.fetch_issue_delay \in Nat,
           y.ROB = SubSeq(x.ROB, 1, n),
           \A i \in 1 .. n : ~Pending(x.ROB[i]),
           NEW es, es = SubSeq(x.ROB, n + 1, Len(x.ROB)),
           y.icount = x.icount - Holds(es, {"renamed", "inIQ"}, Dests) - x.fetch_num,
           y.DCRA_int_iq = x.DCRA_int_iq - Holds(es, {"inIQ"}, Dests),
           y.DCRA_int_rf = x.DCRA_int_rf - Holds(es, Stages, {"int"}),
           y.DCRA_fp_rf = x.DCRA_fp_rf - Holds(es, Stages, {"fp"})
    PROVE  Sound(core, y)
<1>1. x.ROB \in Seq(EntryOf(core)) /\ x.fetch_num \in Int
  BY DEF Sound, Typed
<1>2. /\ y.ROB \in Seq(EntryOf(core)) /\ Len(y.ROB) = n /\ DOMAIN y.ROB = 1 .. n
      /\ \A i \in 1 .. n : y.ROB[i] = x.ROB[i]
      /\ es \in Seq(EntryOf(core)) /\ n <= Len(x.ROB) /\ n \in Nat /\ Len(x.ROB) \in Nat
  BY <1>1
<1>3. core.ROBSize \in Nat /\ Len(x.ROB) <= core.ROBSize
  BY DEF IsCore, Sound, Typed
<1>4. /\ core.IFQSize \in Nat \ {0} /\ Spot(0, 0, core.IFQSize) = 0
      /\ 0 \in 0 .. core.IFQSize - 1 /\ 0 \in 0 .. core.IFQSize
  BY CoreFacts DEF Spot
<1>5. Typed(core, y)
  <2>1. Len(y.ROB) <= core.ROBSize
    BY <1>2, <1>3
  <2> QED
    BY <1>2, <1>4, <2>1 DEF Typed
<1>6. Counted(y)
  <2>1. \A stages, dests : Holds(x.ROB, stages, dests) =
                             Holds(y.ROB, stages, dests) + Holds(es, stages, dests)
    BY <1>1, HoldsSplit
  <2>2. \A stages, dests : Holds(y.ROB, stages, dests) \in Nat /\ Holds(es, stages, dests) \in Nat
    BY <1>2, MarkedFinite
  <2>3. Counted(x)
    BY DEF Sound
  <2>4. y.icount = 0 + Holds(y.ROB, {"renamed", "inIQ"}, Dests)
    <3>1. x.icount = x.fetch_num + Holds(x.ROB, {"renamed", "inIQ"}, Dests)
      BY <2>3 DEF Counted
    <3>2. /\ Holds(x.ROB, {"renamed", "inIQ"}, Dests) =
               Holds(y.ROB, {"renamed", "inIQ"}, Dests) + Holds(es, {"renamed", "inIQ"}, Dests)
          /\ Holds(y.ROB, {"renamed", "inIQ"}, Dests) \in Nat
          /\ Holds(es, {"renamed", "inIQ"}, Dests) \in Nat
      BY <2>1, <2>2
    <3> QED
      BY <1>1, <3>1, <3>2
  <2>5. /\ y.DCRA_int_iq = Holds(y.ROB, {"inIQ"}, Dests)
        /\ y.DCRA_int_rf = Holds(y.ROB, Stages, {"int"})
        /\ y.DCRA_fp_rf = Holds(y.ROB, Stages, {"fp"})
    BY <2>1, <2>2, <2>3 DEF Counted
  <2> QED
    BY <2>4, <2>5 DEF Counted
<1>7. Chained(core, y)
  BY NothingChained
<1>8. Recovers(y)
  <2>1. \A i \in DOMAIN y.ROB : ~Pending(y.ROB[i])
    BY <1>2
  <2> QED
    BY <2>1 DEF Recovers
<1> QED
  BY <1>5, <1>6, <1>7, <1>8 DEF Sound

(* A branch recovers: fetch goes on where the wrong path began.            *)
LEMMA RollbackSound ==
    ASSUME IsCore(core), NEW x, Sound(core, x), NEW k \in DOMAIN x.ROB,
           x.ROB[k].stage = "executed", x.ROB[k].recover_inst
    PROVE  Sound(core, F!rollbackTo([x EXCEPT !.ROB[k].stage = "completed"], k))
<1> DEFINE y == [x EXCEPT !.ROB[k].stage = "completed"]
           es == SubSeq(y.ROB, k + 1, Len(y.ROB))
           s == F!Squashed(y, es)
           w == F!Emptied(s)
           z == [w EXCEPT !.ROB = SubSeq(@, 1, k), !.spec_mode = FALSE,
                          !.fetch_pred_PC = y.ROB[k].next_PC, !.recover_PC = y.ROB[k].next_PC,
                          !.fetch_issue_delay = F!Max({@, core.MaxDelay})]
<1>1. F!rollbackTo(y, k) = z
  BY Zenon DEF F!rollbackTo
<1>2. Sound(core, y) /\ StageOf(x, y, k, "completed")
  BY CompletedSound
<1> HIDE DEF y
<1>3. /\ Names \subseteq DOMAIN y /\ y.ROB \in Seq(EntryOf(core)) /\ k \in DOMAIN y.ROB
      /\ y.fetch_issue_delay \in Nat /\ y.live \in BOOLEAN
  BY <1>2 DEF Sound, Typed, StageOf
<1>4. /\ k \in 1 .. Len(y.ROB) /\ k \in 0 .. Len(y.ROB) /\ y.ROB[k].next_PC \in DOMAIN core.Code
      /\ Len(y.ROB) \in Nat
  BY <1>3, EntriesKnown
<1>5. es \in Seq(EntryOf(core))
  BY <1>3, <1>4
<1>6. /\ DOMAIN s = DOMAIN y /\ s.live = y.live /\ s.right_PC = y.right_PC
      /\ s.ROB = y.ROB /\ s.fetch_issue_delay = y.fetch_issue_delay
      /\ s.fetch_num = y.fetch_num
      /\ s.icount = y.icount - Holds(es, {"renamed", "inIQ"}, Dests)
      /\ s.DCRA_int_iq = y.DCRA_int_iq - Holds(es, {"inIQ"}, Dests)
      /\ s.DCRA_int_rf = y.DCRA_int_rf - Holds(es, Stages, {"int"})
      /\ s.DCRA_fp_rf = y.DCRA_fp_rf - Holds(es, Stages, {"fp"})
  <2> HIDE DEF es
  <2> QED
    BY <1>3, <1>5, SquashedFields
<1> HIDE DEF s
<1>7. /\ DOMAIN w = DOMAIN s /\ w.IFQ \in [0 .. core.IFQSize - 1 -> SlotOf(core)]
      /\ w.icount = s.icount - s.fetch_num /\ w.fetch_num = 0
      /\ w.fetch_head = 0 /\ w.fetch_tail = 0
      /\ w.live = s.live /\ w.right_PC = s.right_PC
      /\ w.fetch_issue_delay = s.fetch_issue_delay /\ SameEntries(s, w)
  <2>1. Names \subseteq DOMAIN s
    BY <1>3, <1>6
  <2> QED
    BY <2>1, EmptiedFields
<1> HIDE DEF w
<1>8. F!Max({w.fetch_issue_delay, core.MaxDelay}) \in Nat
  <2>1. w.fetch_issue_delay \in Nat /\ core.MaxDelay \in Nat
    BY <1>3, <1>6, <1>7 DEF IsCore
  <2> QED
    BY <2>1, MaxOfTwo
<1>9. /\ DOMAIN z = DOMAIN y /\ z.IFQ \in [0 .. core.IFQSize - 1 -> SlotOf(core)]
      /\ z.live = y.live /\ z.spec_mode = FALSE /\ z.fetch_head = 0 /\ z.fetch_tail = 0
      /\ z.fetch_num = 0 /\ z.fetch_pred_PC = y.ROB[k].next_PC /\ z.right_PC = y.right_PC
      /\ z.recover_PC = y.ROB[k].next_PC /\ z.ROB = SubSeq(y.ROB, 1, k)
      /\ z.fetch_issue_delay = F!Max({w.fetch_issue_delay, core.MaxDelay})
      /\ z.icount = y.icount - Holds(es, {"renamed", "inIQ"}, Dests) - y.fetch_num
      /\ z.DCRA_int_iq = y.DCRA_int_iq - Holds(es, {"inIQ"}, Dests)
      /\ z.DCRA_int_rf = y.DCRA_int_rf - Holds(es, Stages, {"int"})
      /\ z.DCRA_fp_rf = y.DCRA_fp_rf - Holds(es, Stages, {"fp"})
  <2> HIDE DEF es
  <2>1. Names \subseteq DOMAIN w
    BY <1>3, <1>6, <1>7
  <2>2. /\ DOMAIN z = DOMAIN w /\ z.IFQ = w.IFQ /\ z.live = w.live /\ z.spec_mode = FALSE
        /\ z.fetch_head = w.fetch_head /\ z.fetch_tail = w.fetch_tail
        /\ z.fetch_num = w.fetch_num /\ z.fetch_pred_PC = y.ROB[k].next_PC
        /\ z.right_PC = w.right_PC /\ z.recover_PC = y.ROB[k].next_PC
        /\ z.ROB = SubSeq(w.ROB, 1, k)
        /\ z.fetch_issue_delay = F!Max({w.fetch_issue_delay, core.MaxDelay})
        /\ z.icount = w.icount /\ z.DCRA_int_iq = w.DCRA_int_iq
        /\ z.DCRA_int_rf = w.DCRA_int_rf /\ z.DCRA_fp_rf = w.DCRA_fp_rf
    BY <2>1 DEF Names
  <2> HIDE DEF z
  <2> QED
    BY <2>2, <1>6, <1>7 DEF SameEntries
<1>10. /\ y.ROB[k].next_PC = y.right_PC
       /\ \A i \in 1 .. k : ~Pending(y.ROB[i])
  <2>1. y.ROB = [x.ROB EXCEPT ![k] = [x.ROB[k] EXCEPT !.stage = "completed"]]
    BY <1>2 DEF StageOf
  <2>2. x.ROB[k] \in EntryOf(core) /\ x.ROB \in Seq(EntryOf(core))
    BY EntriesKnown DEF Sound, Typed
  <2>3. /\ y.ROB[k].stage = "completed" /\ y.ROB[k].next_PC = x.ROB[k].next_PC
        /\ \A i \in DOMAIN x.ROB : i # k => y.ROB[i] = x.ROB[i]
    BY <2>1, <2>2 DEF EntryOf
  <2>4. Pending(x.ROB[k])
    BY DEF Pending
  <2>5. /\ x.ROB[k].next_PC = x.right_PC
        /\ \A i \in DOMAIN x.ROB : i # k => ~Pending(x.ROB[i])
    BY <2>4 DEF Sound, Recovers
  <2>6. \A i \in 1 .. k : i \in DOMAIN x.ROB
    BY <1>2, <1>4 DEF StageOf
  <2>7. ~Pending(y.ROB[k])
    BY <2>3 DEF Pending
  <2>8. x.right_PC = y.right_PC
    BY <1>2 DEF StageOf, SameQueue
  <2> QED
    BY <2>3, <2>5, <2>6, <2>7, <2>8
<1> HIDE DEF z, es
<1>11. es = SubSeq(y.ROB, k + 1, Len(y.ROB))
  BY DEF es
<1>12. /\ Names \subseteq DOMAIN z /\ z.live \in BOOLEAN
       /\ z.fetch_pred_PC \in DOMAIN core.Code /\ z.right_PC = z.fetch_pred_PC
       /\ z.recover_PC \in DOMAIN core.Code \cup {0} /\ z.fetch_issue_delay \in Nat
  BY <1>3, <1>4, <1>8, <1>9, <1>10
<1>13. Sound(core, z)
  BY <1>2, <1>4, <1>9, <1>10, <1>11, <1>12, ShortSound
<1> QED
  BY <1>1, <1>13, Zenon DEF y

(* The head leaves the reorder buffer.                                     *)
LEMMA CommitSound ==
    ASSUME IsCore(core), NEW x, Sound(core, x), x.ROB # <<>>, x.ROB[1].stage = "completed"
    PROVE  Sound(core, [x EXCEPT !.ROB = Tail(@),
                          !.DCRA_int_rf = IF x.ROB[1].dest = "int" THEN @ - 1 ELSE @,
                          !.DCRA_fp_rf = IF x.ROB[1].dest = "fp" THEN @ - 1 ELSE @])
<1> DEFINE y == [x EXCEPT !.ROB = Tail(@),
                          !.DCRA_int_rf = IF x.ROB[1].dest = "int" THEN @ - 1 ELSE @,
                          !.DCRA_fp_rf = IF x.ROB[1].dest = "fp" THEN @ - 1 ELSE @]
           e == x.ROB[1]
<1>1. Names \subseteq DOMAIN x /\ x.ROB \in Seq(EntryOf(core)) /\ 1 \in DOMAIN x.ROB
  BY DEF Sound, Typed
<1>2. /\ SameQueue(x, y) /\ y.spec_mode = x.spec_mode /\ y.recover_PC = x.recover_PC
      /\ DOMAIN y = DOMAIN x /\ y.live = x.live /\ y.fetch_issue_delay = x.fetch_issue_delay
      /\ y.icount = x.icount /\ y.DCRA_int_iq = x.DCRA_int_iq /\ y.ROB = Tail(x.ROB)
      /\ y.DCRA_int_rf = IF e.dest = "int" THEN x.DCRA_int_rf - 1 ELSE x.DCRA_int_rf
      /\ y.DCRA_fp_rf = IF e.dest = "fp" THEN x.DCRA_fp_rf - 1 ELSE x.DCRA_fp_rf
  BY <1>1 DEF Names, SameQueue
<1>3. e.stage = "completed" /\ e.dest \in Dests
  BY <1>1, EntriesKnown
<1> HIDE DEF y, e
<1>4. /\ y.ROB \in Seq(EntryOf(core)) /\ Len(y.ROB) = Len(x.ROB) - 1 /\ Len(x.ROB) \in Nat
      /\ DOMAIN y.ROB = 1 .. Len(x.ROB) - 1 /\ DOMAIN x.ROB = 1 .. Len(x.ROB)
      /\ \A i \in 1 .. Len(x.ROB) - 1 : y.ROB[i] = x.ROB[i + 1]
  BY <1>1, <1>2
<1>5. Typed(core, y)
  <2>1. Len(y.ROB) <= core.ROBSize
    BY <1>4 DEF Sound, Typed, IsCore
  <2> QED
    BY <1>2, <1>4, <2>1 DEF Sound, Typed, SameQueue
<1>6. Counted(y)
  <2>1. \A stages, dests : Holds(y.ROB, stages, dests) =
                             Holds(x.ROB, stages, dests) - One(e, stages, dests)
    BY <1>1, <1>2, HoldsTail DEF e
  <2>2. /\ One(e, {"renamed", "inIQ"}, Dests) = 0 /\ One(e, {"inIQ"}, Dests) = 0
        /\ One(e, Stages, {"int"}) = IF e.dest = "int" THEN 1 ELSE 0
        /\ One(e, Stages, {"fp"}) = IF e.dest = "fp" THEN 1 ELSE 0
    BY <1>3 DEF One, Like, Stages
  <2>3. \A stages, dests : Holds(x.ROB, stages, dests) \in Nat
    BY <1>1, MarkedFinite
  <2>4. Counted(x) /\ y.fetch_num = x.fetch_num
    BY <1>2 DEF Sound, SameQueue
  <2>5. /\ Holds(y.ROB, {"renamed", "inIQ"}, Dests) = Holds(x.ROB, {"renamed", "inIQ"}, Dests)
        /\ Holds(y.ROB, {"inIQ"}, Dests) = Holds(x.ROB, {"inIQ"}, Dests)
    BY <2>1, <2>2, <2>3
  <2>6. /\ y.DCRA_int_rf = Holds(y.ROB, Stages, {"int"})
        /\ y.DCRA_fp_rf = Holds(y.ROB, Stages, {"fp"})
    BY <1>2, <2>1, <2>2, <2>3, <2>4 DEF Counted
  <2> QED
    BY <1>2, <2>4, <2>5, <2>6 DEF Counted
<1>7. Chained(core, y)
  BY <1>2, QueueKept DEF Sound
<1>8. Recovers(y)
  <2>1. \A i \in DOMAIN y.ROB : i + 1 \in DOMAIN x.ROB /\ y.ROB[i] = x.ROB[i + 1] /\ i \in Int
    BY <1>4
  <2>2. \A i, j \in Int : i + 1 = j + 1 => i = j
    OBVIOUS
  <2> HIDE DEF Pending
  <2> QED
    BY <1>2, <2>1, <2>2 DEF Sound, Recovers, SameQueue
<1> QED
  BY <1>5, <1>6, <1>7, <1>8 DEF Sound, y

(* Another program has killed this one.                                    *)
LEMMA KilledSound ==
    ASSUME IsCore(core), NEW x, Sound(core, x)
    PROVE  Sound(core, [F!Emptied(F!Squashed(x, x.ROB)) EXCEPT
                          !.ROB = <<>>, !.live = FALSE, !.spec_mode = FALSE,
                          !.fetch_pred_PC = 1, !.recover_PC = F!NoAddress, !.right_PC = 1])
<1> DEFINE s == F!Squashed(x, x.ROB)
           w == F!Emptied(s)
           z == [w EXCEPT !.ROB = <<>>, !.live = FALSE, !.spec_mode = FALSE,
                          !.fetch_pred_PC = 1, !.recover_PC = F!NoAddress, !.right_PC = 1]
           es == SubSeq(x.ROB, 0 + 1, Len(x.ROB))
<1>1. /\ Names \subseteq DOMAIN x /\ x.ROB \in Seq(EntryOf(core))
      /\ x.fetch_issue_delay \in Nat
  BY DEF Sound, Typed
<1>2. /\ DOMAIN s = DOMAIN x /\ s.fetch_num = x.fetch_num
      /\ s.fetch_issue_delay = x.fetch_issue_delay
      /\ s.icount = x.icount - Holds(x.ROB, {"renamed", "inIQ"}, Dests)
      /\ s.DCRA_int_iq = x.DCRA_int_iq - Holds(x.ROB, {"inIQ"}, Dests)
      /\ s.DCRA_int_rf = x.DCRA_int_rf - Holds(x.ROB, Stages, {"int"})
      /\ s.DCRA_fp_rf = x.DCRA_fp_rf - Holds(x.ROB, Stages, {"fp"})
  BY <1>1, SquashedFields
<1> HIDE DEF s
<1>3. /\ DOMAIN w = DOMAIN s /\ w.IFQ \in [0 .. core.IFQSize - 1 -> SlotOf(core)]
      /\ w.icount = s.icount - s.fetch_num /\ w.fetch_num = 0
      /\ w.fetch_head = 0 /\ w.fetch_tail = 0
      /\ w.fetch_issue_delay = s.fetch_issue_delay /\ SameEntries(s, w)
  BY <1>1, <1>2, EmptiedFields
<1> HIDE DEF w
<1>4. Names \subseteq DOMAIN w
  BY <1>1, <1>2, <1>3
<1>5. /\ DOMAIN z = DOMAIN w /\ z.IFQ = w.IFQ /\ z.live = FALSE /\ z.spec_mode = FALSE
      /\ z.fetch_head = w.fetch_head /\ z.fetch_tail = w.fetch_tail
      /\ z.fetch_num = w.fetch_num /\ z.fetch_pred_PC = 1 /\ z.right_PC = 1
      /\ z.recover_PC = 0 /\ z.ROB = <<>> /\ z.fetch_issue_delay = w.fetch_issue_delay
      /\ z.icount = w.icount /\ z.DCRA_int_iq = w.DCRA_int_iq
      /\ z.DCRA_int_rf = w.DCRA_int_rf /\ z.DCRA_fp_rf = w.DCRA_fp_rf
  BY <1>4 DEF Names, F!NoAddress
<1> HIDE DEF z, es
<1>6. es = x.ROB /\ SubSeq(x.ROB, 1, 0) = <<>> /\ 0 \in 0 .. Len(x.ROB)
  BY <1>1 DEF es
<1>7. /\ z.icount = x.icount - Holds(es, {"renamed", "inIQ"}, Dests) - x.fetch_num
      /\ z.DCRA_int_iq = x.DCRA_int_iq - Holds(es, {"inIQ"}, Dests)
      /\ z.DCRA_int_rf = x.DCRA_int_rf - Holds(es, Stages, {"int"})
      /\ z.DCRA_fp_rf = x.DCRA_fp_rf - Holds(es, Stages, {"fp"})
  BY <1>2, <1>3, <1>5, <1>6 DEF SameEntries
<1>8. /\ Names \subseteq DOMAIN z /\ z.live \in BOOLEAN /\ z.spec_mode = FALSE
      /\ z.IFQ \in [0 .. core.IFQSize - 1 -> SlotOf(core)]
      /\ z.fetch_head = 0 /\ z.fetch_tail = 0 /\ z.fetch_num = 0
      /\ z.fetch_pred_PC \in DOMAIN core.Code /\ z.right_PC = z.fetch_pred_PC
      /\ z.recover_PC \in DOMAIN core.Code \cup {0} /\ z.fetch_issue_delay \in Nat
      /\ z.ROB = SubSeq(x.ROB, 1, 0)
  BY <1>1, <1>2, <1>3, <1>4, <1>5, <1>6, CoreFacts
<1>9. \A i \in 1 .. 0 : ~Pending(x.ROB[i])
  OBVIOUS
<1>10. es = SubSeq(x.ROB, 0 + 1, Len(x.ROB))
  BY DEF es
<1>11. Sound(core, z)
  BY <1>6, <1>7, <1>8, <1>9, <1>10, ShortSound
<1> QED
  BY <1>11, Zenon DEF z, w, s

(* A program starts anew: its queue is cleared.                            *)
LEMMA AbortSound ==
    ASSUME IsCore(core), NEW x, Sound(core, x), x.ROB = <<>>, NEW pc \in DOMAIN core.Code
    PROVE  Sound(core, [F!Drained(x) EXCEPT !.fetch_pred_PC = pc, !.right_PC = pc])
<1> DEFINE d == F!Drained(x)
           y == [d EXCEPT !.fetch_pred_PC = pc, !.right_PC = pc]
<1>1. Half(core, d) /\ d.fetch_num = 0 /\ d.ROB = <<>>
  BY DrainedHalf, DrainedFields DEF Sound, Half, SameEntries
<1> HIDE DEF d
<1>2. Names \subseteq DOMAIN d
  BY <1>1 DEF Half, Typed
<1>3. /\ DOMAIN y = DOMAIN d /\ y.IFQ = d.IFQ /\ y.fetch_head = d.fetch_head
      /\ y.fetch_tail = d.fetch_tail /\ y.fetch_num = d.fetch_num
      /\ y.fetch_pred_PC = pc /\ y.live = d.live /\ y.spec_mode = d.spec_mode
      /\ y.fetch_issue_delay = d.fetch_issue_delay /\ y.right_PC = pc
      /\ y.icount = d.icount /\ SameEntries(d, y)
  BY <1>2 DEF Names, SameEntries
<1> HIDE DEF y
<1>4. Chained(core, y)
  BY <1>1, <1>3, NothingChained
<1>5. Recovers(y)
  BY <1>1, <1>3 DEF Recovers, SameEntries
<1>6. Typed(core, y) /\ Counted(y)
  BY <1>1, <1>3 DEF Half, Typed, Counted, SameEntries
<1> QED
  BY <1>4, <1>5, <1>6, Zenon DEF Sound, y, d

(* What only delays and the activity of DCRA tell apart.                   *)
LEMMA DelaysSound ==
    ASSUME NEW k, NEW x, Sound(k, x), NEW y, DOMAIN y = DOMAIN x, SameQueue(x, y),
           SameEntries(x, y), y.spec_mode = x.spec_mode, y.live = x.live,
           y.icount = x.icount, y.fetch_issue_delay \in Nat
    PROVE  Sound(k, y)
<1>1. Chained(k, y)
  BY QueueKept DEF Sound
<1>2. Typed(k, y)
  BY DEF Sound, Typed, SameQueue, SameEntries
<1>3. Counted(y)
  BY DEF Sound, Counted, SameQueue, SameEntries
<1>4. Recovers(y)
  BY DEF Sound, Recovers, SameQueue, SameEntries
<1> QED
  BY <1>1, <1>2, <1>3, <1>4 DEF Sound

LEMMA InitFetch ==
    ASSUME F!Init
    PROVE  FetchInv
<1>1. core \in FetchCores /\ IsCore(core)
  BY CoresAssumption DEF F!Init
<1>2. contexts = [c \in 1 .. core.NumContexts |-> F!Start]
  BY DEF F!Init, F!Contexts, F!NumContexts
<1>3. Sound(core, F!Start)
  <2> DEFINE y == F!Start
  <2>1. /\ Names \subseteq DOMAIN y /\ y.live = TRUE /\ y.spec_mode = FALSE
        /\ y.fetch_head = 0 /\ y.fetch_tail = 0 /\ y.fetch_num = 0
        /\ y.IFQ \in [0 .. core.IFQSize - 1 -> SlotOf(core)] /\ y.fetch_pred_PC = 1 /\ y.right_PC = 1
        /\ y.recover_PC = 0 /\ y.ROB = <<>> /\ y.fetch_issue_delay = 0 /\ y.icount = 0
        /\ y.DCRA_int_iq = 0 /\ y.DCRA_int_rf = 0 /\ y.DCRA_fp_rf = 0
    BY <1>1, CoreFacts DEF F!Start, Names, F!NoAddress
  <2> HIDE DEF y
  <2>2. Typed(core, y)
    <3>1. /\ 0 \in 0 .. core.IFQSize - 1 /\ 0 \in 0 .. core.IFQSize
          /\ Spot(0, 0, core.IFQSize) = 0 /\ 1 \in DOMAIN core.Code
      BY <1>1, CoreFacts DEF Spot
    <3>2. <<>> \in Seq(EntryOf(core)) /\ Len(<<>>) <= core.ROBSize
      BY <1>1 DEF IsCore
    <3>3. y.fetch_tail = Spot(y.fetch_head, y.fetch_num, core.IFQSize)
      BY <2>1, <3>1, Zenon
    <3>4. y.ROB \in Seq(EntryOf(core)) /\ Len(y.ROB) <= core.ROBSize
      BY <2>1, <3>2, Zenon
    <3>5. y.live \in BOOLEAN /\ y.spec_mode \in BOOLEAN /\ y.fetch_issue_delay \in Nat
      <4>1. TRUE \in BOOLEAN /\ FALSE \in BOOLEAN /\ 0 \in Nat
        OBVIOUS
      <4> QED
        BY <2>1, <4>1, Zenon
    <3>6. /\ y.fetch_head \in 0 .. core.IFQSize - 1 /\ y.fetch_tail \in 0 .. core.IFQSize - 1
          /\ y.fetch_num \in 0 .. core.IFQSize
          /\ y.fetch_pred_PC \in DOMAIN core.Code /\ y.right_PC \in DOMAIN core.Code
          /\ y.recover_PC \in DOMAIN core.Code \cup {0}
      BY <2>1, <3>1
    <3> QED
      BY <2>1, <3>3, <3>4, <3>5, <3>6, Zenon DEF Typed
  <2>3. Counted(y)
    BY <2>1, HoldsNone DEF Counted
  <2>4. Chained(core, y) /\ Recovers(y)
    BY <2>1 DEF Chained, Chain, Recovers
  <2> QED
    BY <2>2, <2>3, <2>4, Zenon DEF Sound, y
<1> QED
  BY <1>1, <1>2, <1>3 DEF FetchInv

(* One context changes.                                                    *)
LEMMA OneContext ==
    ASSUME FetchInv, core' = core, NEW c, NEW x, contexts' = [contexts EXCEPT ![c] = x],
           c \in 1 .. core.NumContexts => Sound(core, x)
    PROVE  FetchInv'
<1>1. /\ contexts' = [d \in 1 .. core.NumContexts |-> contexts'[d]]
      /\ \A d \in 1 .. core.NumContexts : contexts'[d] = IF d = c THEN x ELSE contexts[d]
  BY DEF FetchInv
<1>2. \A d \in 1 .. core.NumContexts : Sound(core, contexts'[d])
  BY <1>1 DEF FetchInv
<1> QED
  BY <1>1, <1>2 DEF FetchInv

LEMMA SameContexts ==
    ASSUME FetchInv, core' = core, contexts' = contexts
    PROVE  FetchInv'
<1>1. Names' = Names
  BY DEF Names
<1> QED
  BY DEF FetchInv

LEMMA FetchLoop ==
    ASSUME FetchInv, F!FetchSteps
    PROVE  FetchInv'
<1>1. IsCore(core) /\ F!Contexts = 1 .. core.NumContexts /\ core' = core
      /\ \A c \in 1 .. core.NumContexts : Sound(core, contexts[c])
  BY DEF FetchInv, F!Contexts, F!NumContexts, F!FetchSteps, F!StartFetch, F!Skip, F!FetchOne,
         F!FetchEnd
<1>2. CASE F!Skip
  BY <1>1, <1>2, SameContexts DEF F!Skip
<1>3. CASE F!StartFetch
  <2>1. CASE core.policy # "dcra"
    BY <1>1, <1>3, <2>1, SameContexts DEF F!StartFetch
  <2>2. CASE core.policy = "dcra"
    <3> DEFINE f(x) == IF x.live THEN F!CountedDown(x) ELSE x
    <3>1. contexts' = [c \in F!Contexts |-> f(contexts[c])]
      BY <1>3, <2>2 DEF F!StartFetch
    <3>2. ASSUME NEW x, Sound(core, x) PROVE Sound(core, f(x))
      <4> DEFINE y == F!CountedDown(x)
      <4>1. /\ DOMAIN y = DOMAIN x /\ SameQueue(x, y) /\ SameEntries(x, y)
            /\ y.spec_mode = x.spec_mode /\ y.live = x.live /\ y.icount = x.icount
            /\ y.fetch_issue_delay = x.fetch_issue_delay
        BY <3>2 DEF F!CountedDown, Names, SameQueue, SameEntries, Sound, Typed
      <4>2. x.fetch_issue_delay \in Nat
        BY <3>2 DEF Sound, Typed
      <4> HIDE DEF y
      <4>3. Sound(core, y)
        BY <3>2, <4>1, <4>2, DelaysSound
      <4> QED
        BY <3>2, <4>3, Zenon DEF y
    <3>3. \A c \in 1 .. core.NumContexts : Sound(core, f(contexts[c]))
      BY <1>1, <3>2
    <3> HIDE DEF f
    <3> QED
      BY <1>1, <3>1, <3>3 DEF FetchInv
  <2> QED
    BY <2>1, <2>2
<1>4. CASE F!FetchOne
  <2> DEFINE c == left[1]
             x == contexts[c]
             pc == x.fetch_pred_PC
  <2>1. PICK pred \in F!Predictions(pc), lat \in {0, core.MaxDelay} :
          contexts' = [contexts EXCEPT ![c] = F!Appended(@,
             [regs_PC |-> pc, pred_PC |-> IF pred = 0 THEN F!Following(pc) ELSE pred], lat)]
    BY <1>4 DEF F!FetchOne
  <2>2. x.fetch_num # core.IFQSize
    BY <1>4 DEF F!FetchOne, F!Blocked, F!IFQSize
  <2> DEFINE y == F!Appended(x,
             [regs_PC |-> pc, pred_PC |-> IF pred = 0 THEN F!Following(pc) ELSE pred], lat)
  <2>3. c \in 1 .. core.NumContexts => Sound(core, y)
    BY <1>1, <2>2, AppendedSound
  <2>4. contexts' = [contexts EXCEPT ![c] = y]
    BY <2>1
  <2> HIDE DEF y, c
  <2> QED
    BY <1>1, <2>3, <2>4, OneContext
<1>5. CASE F!FetchEnd
  <2> DEFINE f(x) == [x EXCEPT !.fetch_issue_delay = F!Less(@)]
  <2>1. contexts' = [c \in F!Contexts |-> f(contexts[c])]
    BY <1>5 DEF F!FetchEnd
  <2>2. ASSUME NEW x, Sound(core, x) PROVE Sound(core, f(x))
    <3> DEFINE y == f(x)
    <3>1. Names \subseteq DOMAIN x /\ x.fetch_issue_delay \in Nat
      BY <2>2 DEF Sound, Typed
    <3>2. F!Less(x.fetch_issue_delay) \in Nat
      BY <3>1 DEF F!Less
    <3>3. /\ DOMAIN y = DOMAIN x /\ SameQueue(x, y) /\ SameEntries(x, y)
          /\ y.spec_mode = x.spec_mode /\ y.live = x.live /\ y.icount = x.icount
          /\ y.fetch_issue_delay = F!Less(x.fetch_issue_delay)
      BY <3>1 DEF Names, SameQueue, SameEntries
    <3> HIDE DEF y
    <3>4. Sound(core, y)
      BY <2>2, <3>2, <3>3, DelaysSound
    <3> QED
      BY <3>4 DEF y
  <2>3. \A c \in 1 .. core.NumContexts : Sound(core, f(contexts[c]))
    BY <1>1, <2>2
  <2> HIDE DEF f
  <2> QED
    BY <1>1, <2>1, <2>3 DEF FetchInv
<1> QED
  BY <1>2, <1>3, <1>4, <1>5 DEF F!FetchSteps

LEMMA FetchStages ==
    ASSUME FetchInv, NEW c \in F!Contexts,
           F!register_rename(c) \/ F!Abort(c) \/ F!Drains(c) \/ F!Kill(c)
    PROVE  FetchInv'
<1> DEFINE x == contexts[c]
<1>1. IsCore(core) /\ c \in 1 .. core.NumContexts /\ Sound(core, x)
  BY DEF FetchInv, F!Contexts, F!NumContexts
<1>2. Names \subseteq DOMAIN x /\ x.ROB \in Seq(EntryOf(core)) /\ DOMAIN x.ROB \subseteq Nat
  BY <1>1 DEF Sound, Typed
<1>3. \A y : F!Pipe(c, y) /\ Sound(core, y) => FetchInv'
  BY OneContext DEF F!Pipe
<1>4. CASE F!register_rename(c)
  <2> DEFINE e == x.IFQ[x.fetch_head]
  <2>1. x.fetch_num # 0 /\ Len(x.ROB) < core.ROBSize
    BY <1>4 DEF F!register_rename, F!CanRename
  <2>2. e = F!Oldest(c)
    BY DEF F!Oldest
  <2>3. PICK next \in F!Outcomes(e.regs_PC) :
          LET misfetch == F!Misfetched(e, next)
              pred == IF misfetch /\ core.pred_perfect THEN next ELSE e.pred_PC
              y == F!Consumed(F!Decoded(x, e, next, pred))
          IN F!Pipe(c, IF misfetch THEN F!Redirected(y, next) ELSE y)
    BY <1>4, <2>2 DEF F!register_rename
  <2> DEFINE misfetch == F!Misfetched(e, next)
             pred == IF misfetch /\ core.pred_perfect THEN next ELSE e.pred_PC
             y == F!Consumed(F!Decoded(x, e, next, pred))
             z == IF misfetch THEN F!Redirected(y, next) ELSE y
  <2>4. F!Pipe(c, z)
    BY <2>3, Zenon
  <2>5. Sound(core, z)
    BY <1>1, <2>1, RenameSound, Zenon
  <2> HIDE DEF z
  <2> QED
    BY <1>3, <2>4, <2>5
<1>5. CASE F!Abort(c)
  <2>1. PICK entry \in F!PCs :
          F!Pipe(c, [F!Drained(x) EXCEPT !.fetch_pred_PC = entry, !.right_PC = entry])
    BY <1>5, Zenon DEF F!Abort
  <2>2. x.ROB = <<>> /\ entry \in DOMAIN core.Code
    BY <1>5, Zenon DEF F!Abort, F!CanRename, F!Oldest, F!PCs, F!Code
  <2>3. Sound(core, [F!Drained(x) EXCEPT !.fetch_pred_PC = entry, !.right_PC = entry])
    BY <1>1, <2>2, AbortSound
  <2> QED
    BY <1>3, <2>1, <2>3
<1>6. CASE F!dispatch(c)
  <2> DEFINE waiting == {k \in DOMAIN x.ROB : F!Undispatched(x.ROB[k])}
             k == F!Min(waiting)
  <2>1. /\ waiting # {}
        /\ F!Pipe(c, [x EXCEPT !.ROB[F!Min(waiting)].stage = "inIQ", !.DCRA_int_iq = @ + 1])
    BY <1>6, Zenon DEF F!dispatch
  <2>2. k \in DOMAIN x.ROB /\ F!Undispatched(x.ROB[k])
    <3>1. waiting \in SUBSET Nat
      BY <1>2
    <3>2. k \in waiting
      <4> HIDE DEF waiting
      <4> QED
        BY <2>1, <3>1, MinIn
    <3> QED
      BY <3>2
  <2> HIDE DEF k
  <2>3. F!Pipe(c, [x EXCEPT !.ROB[k].stage = "inIQ", !.DCRA_int_iq = @ + 1])
    BY <2>1 DEF k
  <2>4. Sound(core, [x EXCEPT !.ROB[k].stage = "inIQ", !.DCRA_int_iq = @ + 1])
    BY <1>1, <2>2, DispatchSound
  <2> QED
    BY <1>3, <2>3, <2>4
<1>7. CASE F!commit(c)
  <2>1. /\ x.ROB # <<>> /\ x.ROB[1].stage = "completed"
        /\ F!Pipe(c, [x EXCEPT !.ROB = Tail(@),
                          !.DCRA_int_rf = IF x.ROB[1].dest = "int" THEN @ - 1 ELSE @,
                          !.DCRA_fp_rf = IF x.ROB[1].dest = "fp" THEN @ - 1 ELSE @])
    BY <1>7, Zenon DEF F!commit
  <2>2. Sound(core, [x EXCEPT !.ROB = Tail(@),
                          !.DCRA_int_rf = IF x.ROB[1].dest = "int" THEN @ - 1 ELSE @,
                          !.DCRA_fp_rf = IF x.ROB[1].dest = "fp" THEN @ - 1 ELSE @])
    BY <1>1, <2>1, CommitSound
  <2> QED
    BY <1>3, <2>1, <2>2
<1>8. ASSUME NEW k, F!execute(c, k) PROVE FetchInv'
  <2>1. PICK lat : F!Pipe(c, [x EXCEPT !.ROB[k].stage = "executed", !.icount = @ - 1,
                                       !.DCRA_int_iq = @ - 1,
                                       !.DCRA_L1_misses = F!Max({@, lat})])
    BY <1>8, Zenon DEF F!execute
  <2>2. k \in DOMAIN x.ROB /\ F!InIQ(x.ROB[k])
    BY <1>8, Zenon DEF F!execute
  <2> DEFINE most == F!Max({x.DCRA_L1_misses, lat})
  <2>3. F!Pipe(c, [x EXCEPT !.ROB[k].stage = "executed", !.icount = @ - 1,
                            !.DCRA_int_iq = @ - 1, !.DCRA_L1_misses = most])
    BY <2>1
  <2>4. Sound(core, [x EXCEPT !.ROB[k].stage = "executed", !.icount = @ - 1,
                              !.DCRA_int_iq = @ - 1, !.DCRA_L1_misses = most])
    BY <1>1, <2>2, ExecuteSound
  <2> QED
    BY <1>3, <2>3, <2>4
<1>9. ASSUME NEW k, F!writeback(c, k) PROVE FetchInv'
  <2> DEFINE y == [x EXCEPT !.ROB[k].stage = "completed"]
  <2>1. /\ k \in DOMAIN x.ROB /\ x.ROB[k].stage = "executed"
        /\ F!Pipe(c, IF x.ROB[k].recover_inst THEN F!rollbackTo(y, k) ELSE y)
    BY <1>9, Zenon DEF F!writeback
  <2>2. CASE x.ROB[k].recover_inst
    <3>1. F!Pipe(c, F!rollbackTo(y, k))
      BY <2>1, <2>2, Zenon
    <3>2. Sound(core, F!rollbackTo(y, k))
      BY <1>1, <2>1, <2>2, RollbackSound
    <3> QED
      BY <1>3, <3>1, <3>2
  <2>3. CASE ~x.ROB[k].recover_inst
    <3>1. F!Pipe(c, y)
      BY <2>1, <2>3, Zenon
    <3>2. Sound(core, y)
      BY <1>1, <2>1, CompletedSound
    <3> QED
      BY <1>3, <3>1, <3>2
  <2> QED
    BY <2>2, <2>3
<1>10. CASE F!Kill(c)
  <2> DEFINE y == [F!Emptied(F!Squashed(x, x.ROB)) EXCEPT
                     !.ROB = <<>>, !.live = FALSE, !.spec_mode = FALSE,
                     !.fetch_pred_PC = 1, !.recover_PC = F!NoAddress, !.right_PC = 1]
  <2>1. F!Pipe(c, y)
    BY <1>10, Zenon DEF F!Kill
  <2>2. Sound(core, y)
    BY <1>1, KilledSound
  <2> QED
    BY <1>3, <2>1, <2>2
<1> QED
  BY <1>4, <1>5, <1>6, <1>7, <1>8, <1>9, <1>10, Zenon DEF F!Drains

LEMMA FetchStays ==
    ASSUME FetchInv, [Next]_vars
    PROVE  FetchInv'
<1>1. F!Next \/ fetching' = fetching
  BY DEF Next, vars, FetchStep, PredictorsStep, CachesStep, StateStep, PowerStep
<1>2. CASE fetching' = fetching
  BY <1>2, SameContexts DEF fetching
<1>3. CASE F!Next
  BY <1>3, FetchLoop, FetchStages DEF F!Next
<1> QED
  BY <1>1, <1>2, <1>3

LEMMA FetchImplies ==
    ASSUME FetchInv
    PROVE  CountersMatch /\ OnPath
<1>1. /\ F!Contexts = 1 .. core.NumContexts /\ IsCore(core)
      /\ F!IFQSize = core.IFQSize /\ core.IFQSize \in Nat \ {0}
  BY CoreFacts DEF FetchInv, F!Contexts, F!NumContexts
<1>2. ASSUME NEW c \in F!Contexts
      PROVE  /\ Sound(core, contexts[c]) /\ contexts[c].ROB \in Seq(EntryOf(core))
  BY <1>1 DEF FetchInv, Sound, Typed
<1>3. F!CountersMatch
  BY <1>2, CountsAre DEF F!CountersMatch, Sound, Counted
<1>4. F!RecoverAgrees
  <2> SUFFICES ASSUME NEW c \in F!Contexts, NEW e \in F!ToSet(contexts[c].ROB),
                      e.recover_inst, e.stage # "completed"
               PROVE  e.next_PC = contexts[c].recover_PC /\ e.next_PC = contexts[c].right_PC
    BY DEF F!RecoverAgrees
  <2>1. PICK i \in DOMAIN contexts[c].ROB : e = contexts[c].ROB[i]
    BY DEF F!ToSet
  <2> QED
    BY <2>1, <1>2 DEF Sound, Recovers, Pending
<1>5. F!OnPath
  <2> SUFFICES ASSUME F!PowerOfTwo(F!IFQSize), NEW c \in F!Contexts
               PROVE  LET x == contexts[c] IN
                      /\ ~x.spec_mode =>
                           x.right_PC = IF x.fetch_num = 0 THEN x.fetch_pred_PC
                                        ELSE F!Queued(x, 1).regs_PC
                      /\ \A k \in 1 .. x.fetch_num :
                           F!Queued(x, k).pred_PC =
                             IF k = x.fetch_num THEN x.fetch_pred_PC
                             ELSE F!Queued(x, k + 1).regs_PC
    BY DEF F!OnPath
  <2> DEFINE x == contexts[c]
  <2>1. /\ x.fetch_head \in 0 .. core.IFQSize - 1 /\ x.fetch_num \in 0 .. core.IFQSize
        /\ F!RingOf(core.IFQSize) = core.IFQSize /\ Chain(core, x)
    <3>1. F!RingOf(core.IFQSize) = core.IFQSize
      BY <1>1, RingIs
    <3> QED
      BY <1>2, <3>1 DEF Sound, Typed, Chained, Full
  <2> HIDE DEF x
  <2>2. \A k \in 1 .. x.fetch_num : F!Queued(x, k) = At(core, x, k)
    <3> SUFFICES ASSUME NEW k \in 1 .. x.fetch_num PROVE F!Queued(x, k) = At(core, x, k)
      OBVIOUS
    <3>1. k - 1 \in 0 .. core.IFQSize /\ x.fetch_head + k - 1 = x.fetch_head + (k - 1)
      BY <2>1, <1>1
    <3>2. (x.fetch_head + (k - 1)) % core.IFQSize = Spot(x.fetch_head, k - 1, core.IFQSize)
      BY <2>1, <1>1, <3>1, ModSmall
    <3> QED
      BY <1>1, <2>1, <3>1, <3>2 DEF F!Queued, At
  <2>3. /\ x.fetch_num # 0 => 1 \in 1 .. x.fetch_num
        /\ \A k \in 1 .. x.fetch_num : k # x.fetch_num => k + 1 \in 1 .. x.fetch_num
    BY <2>1
  <2>4. ~x.spec_mode => x.right_PC = IF x.fetch_num = 0 THEN x.fetch_pred_PC
                                     ELSE F!Queued(x, 1).regs_PC
    BY <2>1, <2>2, <2>3 DEF Chain
  <2>5. \A k \in 1 .. x.fetch_num : F!Queued(x, k).pred_PC =
          IF k = x.fetch_num THEN x.fetch_pred_PC ELSE F!Queued(x, k + 1).regs_PC
    BY <2>1, <2>2, <2>3 DEF Chain
  <2> QED
    BY <2>4, <2>5 DEF x
<1> QED
  BY <1>3, <1>4, <1>5 DEF CountersMatch, OnPath

(* icount and the counters of DCRA are what a context has in flight, with  *)
(* queues and reorder buffers of whatever size (register_rename, execute,  *)
(* rollbackTo, commit and flush keep them).                                *)
THEOREM CountersCorrect == Spec => []CountersMatch
<1>1. Init => FetchInv
  BY InitFetch DEF Init
<1>2. FetchInv /\ [Next]_vars => FetchInv'
  BY FetchStays
<1>3. FetchInv => CountersMatch
  BY FetchImplies
<1> QED
  BY <1>1, <1>2, <1>3, PTL DEF Spec

(* Off a wrong path, what is renamed next is what the program executes     *)
(* next and the queue is a chain, if its size is a power of two; and in    *)
(* queues of whatever size a branch that recovers goes where the wrong     *)
(* path began (fetch, register_rename, rollbackTo and the assertion of     *)
(* writeback).                                                             *)
THEOREM PathCorrect == Spec => []OnPath
<1>1. Init => FetchInv
  BY InitFetch DEF Init
<1>2. FetchInv /\ [Next]_vars => FetchInv'
  BY FetchStays
<1>3. FetchInv => OnPath
  BY FetchImplies
<1> QED
  BY <1>1, <1>2, <1>3, PTL DEF Spec
-----------------------------------------------------------------------------
(* Branch prediction *)

LEMMA SplitBy ==
    ASSUME NEW m \in Nat \ {0}, NEW a \in Nat
    PROVE  a \div m \in Nat /\ a % m \in 0 .. m - 1 /\ a = (a \div m) * m + (a % m)
<1>1. a \div m \in Int /\ a % m \in 0 .. m - 1 /\ a = m * (a \div m) + (a % m)
  BY SMT
<1>2. a \div m >= 0
  BY SMT
<1> QED
  BY <1>1, <1>2, SMT

LEMMA RestOf ==
    ASSUME NEW m \in Nat \ {0}, NEW q \in Nat, NEW r \in 0 .. m - 1
    PROVE  (q * m + r) % m = r
<1>1. PICK a \in Nat : a = q * m + r
  BY SMT
<1> DEFINE d == a \div m
           e == a % m
<1>2. d \in Nat /\ e \in 0 .. m - 1 /\ d * m + e = q * m + r
  BY <1>1, SplitBy
<1> HIDE DEF d, e
<1>3. d = q
  <2>1. ~(d < q) /\ ~(q < d)
    BY <1>2, SMT
  <2> QED
    BY <1>2, <2>1
<1>4. e = r
  BY <1>2, <1>3, SMT
<1> QED
  BY <1>1, <1>4 DEF e

LEMMA ModShift ==
    ASSUME NEW m \in Nat \ {0}, NEW q \in Nat, NEW a \in Nat
    PROVE  (q * m + a) % m = a % m
<1> DEFINE d == a \div m
           e == a % m
<1>1. d \in Nat /\ e \in 0 .. m - 1 /\ a = d * m + e
  BY SplitBy
<1> HIDE DEF d, e
<1>2. q + d \in Nat /\ q * m + a = (q + d) * m + e
  BY <1>1, SMT
<1>3. ((q + d) * m + e) % m = e
  BY <1>1, <1>2, RestOf
<1> QED
  BY <1>2, <1>3 DEF e

LEMMA ModPlus ==
    ASSUME NEW m \in Nat \ {0}, NEW a \in Nat, NEW b \in Nat
    PROVE  ((a % m) + b) % m = (a + b) % m
<1> DEFINE d == a \div m
           e == a % m
<1>1. d \in Nat /\ e \in Nat /\ a = d * m + e
  BY SplitBy
<1> HIDE DEF d, e
<1>2. e + b \in Nat /\ a + b = d * m + (e + b)
  BY <1>1, SMT
<1>3. (d * m + (e + b)) % m = (e + b) % m
  BY <1>1, <1>2, ModShift
<1> QED
  BY <1>2, <1>3 DEF e

LEMMA ModBack ==
    ASSUME NEW m \in Nat \ {0}, NEW a \in Nat
    PROVE  (a + m) % m = a % m
<1>1. (1 * m + a) % m = a % m
  BY ModShift
<1>2. 1 * m + a = a + m
  BY SMT
<1> QED
  BY <1>1, <1>2

(* A counter and the outcomes it was given last: the last one moves it to  *)
(* its side of the middle or next to it.                                   *)
Moved(n, last) ==
  /\ n \in 0 .. 3
  /\ \E p, q \in {"none", "taken", "not"} :
       /\ last = <<p, q>>
       /\ p = "taken" => n >= 1
       /\ p = "not" => n <= 2
       /\ p = "taken" /\ q = "taken" => n >= 2
       /\ p = "not" /\ q = "not" => n <= 1

CountersInv ==
  /\ DOMAIN counter = B!References /\ DOMAIN recent = B!References
  /\ \A r \in B!References : Moved(counter[r], recent[r])

LEMMA MovedOn ==
    ASSUME NEW n, NEW last, Moved(n, last), NEW right
    PROVE  Moved(B!update_state(n, right), <<IF right THEN "taken" ELSE "not", last[1]>>)
<1>1. PICK p \in {"none", "taken", "not"}, q \in {"none", "taken", "not"} :
       /\ last = <<p, q>>
       /\ p = "taken" => n >= 1
       /\ p = "not" => n <= 2
  BY DEF Moved
<1>2. n \in 0 .. 3 /\ last[1] = p
  BY <1>1 DEF Moved
<1>3. CASE right
  <2>1. B!update_state(n, right) = IF n < 3 THEN n + 1 ELSE n
    BY <1>3, Zenon DEF B!update_state
  <2>2. <<IF right THEN "taken" ELSE "not", last[1]>> = <<"taken", p>>
    BY <1>2, <1>3, Zenon
  <2>3. Moved(IF n < 3 THEN n + 1 ELSE n, <<"taken", p>>)
    BY <1>1, <1>2 DEF Moved
  <2> QED
    BY <2>1, <2>2, <2>3, Zenon
<1>4. CASE ~right
  <2>1. B!update_state(n, right) = IF n > 0 THEN n - 1 ELSE n
    BY <1>4, Zenon DEF B!update_state
  <2>2. <<IF right THEN "taken" ELSE "not", last[1]>> = <<"not", p>>
    BY <1>2, <1>4, Zenon
  <2>3. Moved(IF n > 0 THEN n - 1 ELSE n, <<"not", p>>)
    BY <1>1, <1>2 DEF Moved
  <2> QED
    BY <2>1, <2>2, <2>3, Zenon
<1> QED
  BY <1>3, <1>4

LEMMA SameReferences ==
    ASSUME setup' = setup
    PROVE  B!References' = B!References
BY DEF B!References

LEMMA Trains ==
    ASSUME CountersInv, setup' = setup, NEW b, B!bpred_update(b)
    PROVE  CountersInv'
<1>1. B!References' = B!References
  BY SameReferences
<1>2. CASE counter' = counter /\ recent' = recent
  BY <1>1, <1>2 DEF CountersInv
<1>3. CASE ~(counter' = counter /\ recent' = recent)
  <2> DEFINE trained == B!Trained(b, b.next # B!After(b.PC))
  <2>1. /\ counter' = [r \in DOMAIN counter |->
             IF r \in DOMAIN trained THEN B!update_state(counter[r], trained[r])
             ELSE counter[r]]
        /\ recent' = [r \in DOMAIN recent |->
             IF r \in DOMAIN trained THEN <<IF trained[r] THEN "taken" ELSE "not", recent[r][1]>>
             ELSE recent[r]]
    BY <1>3, Zenon DEF B!bpred_update
  <2> HIDE DEF trained
  <2>2. ASSUME NEW r \in B!References PROVE Moved(counter'[r], recent'[r])
    <3>1. Moved(counter[r], recent[r])
      BY DEF CountersInv
    <3>2. CASE r \in DOMAIN trained
      <4>1. /\ counter'[r] = B!update_state(counter[r], trained[r])
            /\ recent'[r] = <<IF trained[r] THEN "taken" ELSE "not", recent[r][1]>>
        BY <2>1, <3>2, Zenon DEF CountersInv
      <4> QED
        BY <3>1, <4>1, MovedOn, Zenon
    <3>3. CASE r \notin DOMAIN trained
      BY <2>1, <3>1, <3>3, Zenon DEF CountersInv
    <3> QED
      BY <3>2, <3>3
  <2>3. DOMAIN counter' = B!References /\ DOMAIN recent' = B!References
    BY <2>1 DEF CountersInv
  <2> QED
    BY <1>1, <2>2, <2>3 DEF CountersInv
<1> QED
  BY <1>2, <1>3

LEMMA CountersStay ==
    ASSUME CountersInv, B!Next
    PROVE  CountersInv'
<1>1. setup' = setup
  BY DEF B!Next, B!bpred_lookup, B!ff_context, B!Rename, B!Resolve, B!Commit
<1>2. \/ counter' = counter /\ recent' = recent
      \/ \E b : B!bpred_update(b)
  <2>1. ASSUME NEW b \in setup.Branches, B!bpred_lookup(b[1], b[2])
        PROVE  counter' = counter /\ recent' = recent
    BY <2>1 DEF B!bpred_lookup
  <2>2. ASSUME NEW b \in setup.Branches, B!ff_context(b[1], b[2]) PROVE \E c : B!bpred_update(c)
    BY <2>2, Zenon DEF B!ff_context
  <2>3. ASSUME NEW k, B!Rename(k) PROVE \/ counter' = counter /\ recent' = recent
                                       \/ \E b : B!bpred_update(b)
    BY <2>3, Zenon DEF B!Rename
  <2>4. ASSUME NEW k, B!Resolve(k) PROVE \/ counter' = counter /\ recent' = recent
                                        \/ \E b : B!bpred_update(b)
    BY <2>4, Zenon DEF B!Resolve
  <2>5. ASSUME B!Commit PROVE \/ counter' = counter /\ recent' = recent
                              \/ \E b : B!bpred_update(b)
    BY <2>5, Zenon DEF B!Commit
  <2> QED
    BY <2>1, <2>2, <2>3, <2>4, <2>5, Zenon DEF B!Next
<1>3. CASE counter' = counter /\ recent' = recent
  BY <1>1, <1>3, SameReferences DEF CountersInv
<1> QED
  BY <1>1, <1>2, <1>3, Trains

LEMMA InitCounters ==
    ASSUME B!Init
    PROVE  CountersInv
<1>1. /\ counter = [r \in B!References |-> 1 + (r[2] % 2)]
      /\ recent = [r \in B!References |-> <<"none", "none">>]
  BY DEF B!Init
<1>2. ASSUME NEW r \in B!References PROVE 1 + (r[2] % 2) \in 1 .. 2
  <2>1. r[2] \in Int
    BY DEF B!References
  <2> QED
    BY <2>1, SMT
<1>3. \A n \in 1 .. 2 : Moved(n, <<"none", "none">>)
  BY DEF Moved
<1> QED
  BY <1>1, <1>2, <1>3 DEF CountersInv

(* The entries of a sequence.                                              *)
Elems(s) == {s[i] : i \in DOMAIN s}
IsList(s) == s \in Seq(Elems(s))

LEMMA ListOf ==
    ASSUME NEW S, NEW s \in Seq(S)
    PROVE  IsList(s)
<1>1. DOMAIN s = 1 .. Len(s) /\ Len(s) \in Nat
  OBVIOUS
<1>2. \A i \in 1 .. Len(s) : s[i] \in Elems(s)
  BY <1>1 DEF Elems
<1> QED
  BY <1>1, <1>2 DEF IsList

LEMMA ListFacts ==
    ASSUME NEW s, IsList(s)
    PROVE  /\ Len(s) \in Nat /\ DOMAIN s = 1 .. Len(s)
           /\ \A e : LET t == Append(s, e) IN
                /\ IsList(t) /\ Len(t) = Len(s) + 1 /\ DOMAIN t = 1 .. Len(s) + 1
                /\ \A i \in 1 .. Len(s) : t[i] = s[i]
                /\ t[Len(s) + 1] = e
           /\ \A k \in DOMAIN s : \A e : LET t == [s EXCEPT ![k] = e] IN
                /\ IsList(t) /\ Len(t) = Len(s) /\ DOMAIN t = DOMAIN s /\ t[k] = e
                /\ \A i \in DOMAIN s : i # k => t[i] = s[i]
           /\ \A k \in 0 .. Len(s) : LET t == SubSeq(s, 1, k) IN
                /\ IsList(t) /\ Len(t) = k /\ DOMAIN t = 1 .. k
                /\ \A i \in 1 .. k : t[i] = s[i]
           /\ s # <<>> => LET t == Tail(s) IN
                /\ IsList(t) /\ Len(t) = Len(s) - 1 /\ DOMAIN t = 1 .. Len(s) - 1
                /\ \A i \in 1 .. Len(s) - 1 : t[i] = s[i + 1]
<1> DEFINE E == Elems(s)
<1>1. s \in Seq(E)
  BY DEF IsList
<1> HIDE DEF E
<1>2. Len(s) \in Nat /\ DOMAIN s = 1 .. Len(s)
  BY <1>1
<1>3. ASSUME NEW e
      PROVE  LET t == Append(s, e) IN
             /\ IsList(t) /\ Len(t) = Len(s) + 1 /\ DOMAIN t = 1 .. Len(s) + 1
             /\ \A i \in 1 .. Len(s) : t[i] = s[i]
             /\ t[Len(s) + 1] = e
  <2> DEFINE D == E \cup {e}
  <2>1. s \in Seq(D) /\ e \in D
    BY <1>1
  <2> HIDE DEF D
  <2>2. /\ Append(s, e) \in Seq(D) /\ Len(Append(s, e)) = Len(s) + 1
        /\ DOMAIN Append(s, e) = 1 .. Len(s) + 1
        /\ \A i \in 1 .. Len(s) : Append(s, e)[i] = s[i]
        /\ Append(s, e)[Len(s) + 1] = e
    BY <2>1
  <2> QED
    BY <2>2, ListOf
<1>4. ASSUME NEW k \in DOMAIN s, NEW e
      PROVE  LET t == [s EXCEPT ![k] = e] IN
             /\ IsList(t) /\ Len(t) = Len(s) /\ DOMAIN t = DOMAIN s /\ t[k] = e
             /\ \A i \in DOMAIN s : i # k => t[i] = s[i]
  <2> DEFINE D == E \cup {e}
  <2>1. s \in Seq(D) /\ e \in D
    BY <1>1
  <2> HIDE DEF D
  <2>2. /\ [s EXCEPT ![k] = e] \in Seq(D) /\ Len([s EXCEPT ![k] = e]) = Len(s)
        /\ DOMAIN [s EXCEPT ![k] = e] = DOMAIN s
    BY <2>1
  <2>3. IsList([s EXCEPT ![k] = e])
    BY <2>2, ListOf
  <2> QED
    BY <2>2, <2>3
<1>5. ASSUME NEW k \in 0 .. Len(s)
      PROVE  LET t == SubSeq(s, 1, k) IN
             /\ IsList(t) /\ Len(t) = k /\ DOMAIN t = 1 .. k
             /\ \A i \in 1 .. k : t[i] = s[i]
  <2>1. /\ SubSeq(s, 1, k) \in Seq(E) /\ Len(SubSeq(s, 1, k)) = k
        /\ DOMAIN SubSeq(s, 1, k) = 1 .. k /\ \A i \in 1 .. k : SubSeq(s, 1, k)[i] = s[i]
    BY <1>1, <1>2
  <2> QED
    BY <2>1, ListOf
<1>6. ASSUME s # <<>>
      PROVE  LET t == Tail(s) IN
             /\ IsList(t) /\ Len(t) = Len(s) - 1 /\ DOMAIN t = 1 .. Len(s) - 1
             /\ \A i \in 1 .. Len(s) - 1 : t[i] = s[i + 1]
  <2>1. /\ Tail(s) \in Seq(E) /\ Len(Tail(s)) = Len(s) - 1
        /\ DOMAIN Tail(s) = 1 .. Len(s) - 1
        /\ \A i \in 1 .. Len(s) - 1 : Tail(s)[i] = s[i + 1]
    BY <1>1, <1>6
  <2> QED
    BY <2>1, ListOf
<1> QED
  BY <1>2, <1>3, <1>4, <1>5, <1>6, Zenon

(* Where the top of the return stack is with so many calls open.           *)
Top(n, depth) == (n - 1 + depth) % n

(* A branch that waits to recover, and how many calls were open before it. *)
Waits(b) == ~(b.resolved \/ b.wrong \/ ~B!Mispredicted(b))
Before(b, n) == IF b.ras THEN n + 1 ELSE IF b.kind \in B!Calls THEN n - 1 ELSE n

Branch(b) ==
  /\ {"PC", "kind", "dirs", "ras", "pred_PC", "next", "stack_recover_idx", "renamed",
      "resolved", "wrong"} \subseteq DOMAIN b
  /\ b.ras => b.kind \notin B!Calls

(* At most one branch waits, and knows where the top was before it.        *)
StackInv ==
  /\ setup.retstack_size \in Nat \ {0}
  /\ IsList(inflight) /\ IsList(calls) /\ drift \in Nat
  /\ \A k \in DOMAIN inflight : Branch(inflight[k])
  /\ met = 0 => inflight = <<>>
  /\ \A j, k \in DOMAIN inflight : Waits(inflight[j]) /\ Waits(inflight[k]) => j = k
  /\ (\A k \in DOMAIN inflight : ~Waits(inflight[k])) =>
       tos = Top(setup.retstack_size, Len(calls) + drift)
  /\ \A k \in DOMAIN inflight : Waits(inflight[k]) =>
       /\ Before(inflight[k], Len(calls)) \in Nat
       /\ inflight[k].stack_recover_idx =
            Top(setup.retstack_size, Before(inflight[k], Len(calls)) + drift)

PredictorInv ==
  /\ IsPredictor(setup) /\ CountersInv /\ met \in Nat
  /\ setup.retstack_size # 0 => StackInv

LEMMA TopMoves ==
    ASSUME NEW n \in Nat \ {0}, NEW d \in Nat
    PROVE  /\ Top(n, d) \in Nat
           /\ (Top(n, d) + 1) % n = Top(n, d + 1)
           /\ d # 0 => (Top(n, d) + n - 1) % n = Top(n, d - 1)
<1>1. n - 1 + d \in Nat /\ 1 \in Nat /\ n - 1 \in Nat
  OBVIOUS
<1>2. Top(n, d) \in Nat
  <2>1. (n - 1 + d) % n \in 0 .. n - 1
    BY <1>1, SplitBy
  <2> QED
    BY <2>1 DEF Top
<1>3. (Top(n, d) + 1) % n = Top(n, d + 1)
  <2>1. (((n - 1 + d) % n) + 1) % n = (n - 1 + d + 1) % n
    BY <1>1, ModPlus
  <2>2. n - 1 + d + 1 = n - 1 + (d + 1)
    OBVIOUS
  <2> QED
    BY <2>1, <2>2 DEF Top
<1>4. ASSUME d # 0 PROVE (Top(n, d) + n - 1) % n = Top(n, d - 1)
  <2>1. (((n - 1 + d) % n) + (n - 1)) % n = (n - 1 + d + (n - 1)) % n
    BY <1>1, ModPlus
  <2>2. n - 1 + d + (n - 1) = (n - 1 + (d - 1)) + n /\ n - 1 + (d - 1) \in Nat
    BY <1>4
  <2>3. ((n - 1 + (d - 1)) + n) % n = (n - 1 + (d - 1)) % n
    BY <2>2, ModBack
  <2>4. Top(n, d) + n - 1 = ((n - 1 + d) % n) + (n - 1)
    BY <1>2 DEF Top
  <2> QED
    BY <2>1, <2>2, <2>3, <2>4 DEF Top
<1> QED
  BY <1>2, <1>3, <1>4

(* What a mispredicted call or return does to drift.                       *)
LEMMA DriftMoves ==
    ASSUME NEW n \in Nat \ {0}, NEW c \in Nat, NEW d \in Nat
    PROVE  /\ (d + 1) % n \in Nat /\ Top(n, (c + 1) + d) = Top(n, c + ((d + 1) % n))
           /\ (d + n - 1) % n \in Nat
           /\ c # 0 => Top(n, (c - 1) + d) = Top(n, c + ((d + n - 1) % n))
<1>1. ASSUME NEW e \in Nat
      PROVE  e % n \in Nat /\ Top(n, c + (e % n)) = (n - 1 + c + e) % n
  <2>1. e % n \in Nat
    BY SplitBy
  <2>2. ((e % n) + (n - 1 + c)) % n = (e + (n - 1 + c)) % n
    <3>1. n - 1 + c \in Nat
      OBVIOUS
    <3> QED
      BY <3>1, ModPlus
  <2>3. n - 1 + (c + (e % n)) = (e % n) + (n - 1 + c) /\ n - 1 + c + e = e + (n - 1 + c)
    BY <2>1
  <2> QED
    BY <2>1, <2>2, <2>3 DEF Top
<1>2. /\ (d + 1) % n \in Nat
      /\ Top(n, c + ((d + 1) % n)) = (n - 1 + c + (d + 1)) % n
  <2>1. d + 1 \in Nat
    OBVIOUS
  <2> QED
    BY <2>1, <1>1
<1>3. Top(n, (c + 1) + d) = Top(n, c + ((d + 1) % n))
  <2>1. n - 1 + ((c + 1) + d) = n - 1 + c + (d + 1)
    OBVIOUS
  <2> QED
    BY <1>2, <2>1 DEF Top
<1>4. /\ (d + n - 1) % n \in Nat
      /\ Top(n, c + ((d + n - 1) % n)) = (n - 1 + c + (d + n - 1)) % n
  <2>1. d + n - 1 \in Nat
    OBVIOUS
  <2> QED
    BY <2>1, <1>1
<1>5. ASSUME c # 0 PROVE Top(n, (c - 1) + d) = Top(n, c + ((d + n - 1) % n))
  <2>1. n - 1 + ((c - 1) + d) \in Nat
        /\ n - 1 + c + (d + n - 1) = (n - 1 + ((c - 1) + d)) + n
    BY <1>5
  <2>2. ((n - 1 + ((c - 1) + d)) + n) % n = (n - 1 + ((c - 1) + d)) % n
    BY <2>1, ModBack
  <2> QED
    BY <1>4, <2>1, <2>2 DEF Top
<1> QED
  BY <1>2, <1>3, <1>4, <1>5

(* A branch is fetched, or one of the fast-forward passes: the top moves   *)
(* with the calls that are open.                                           *)
LEMMA CalledMoves ==
    ASSUME IsPredictor(setup), setup.retstack_size # 0, StackInv,
           tos = Top(setup.retstack_size, Len(calls) + drift),
           NEW pc \in Nat, NEW kind \in {"branch", "jump", "ijump", "call", "icall", "return"},
           NEW ras, ras <=> (kind = "return" /\ B!HasStack),
           kind = "return" => calls # <<>>,
           B!Called(pc, kind), B!PoppedOrPushed(pc, kind, ras)
    PROVE  /\ IsList(calls') /\ tos' = Top(setup.retstack_size, Len(calls') + drift)
           /\ Len(calls) \in Nat /\ Len(calls') \in Nat
           /\ Len(calls) = IF ras THEN Len(calls') + 1
                           ELSE IF kind \in B!Calls THEN Len(calls') - 1 ELSE Len(calls')
<1> DEFINE n == setup.retstack_size
<1>1. n \in Nat \ {0} /\ drift \in Nat /\ IsList(calls) /\ Len(calls) \in Nat
  BY ListFacts DEF StackInv
<1>2. B!HasStack
  BY <1>1 DEF B!HasStack
<1>3. CASE kind = "return"
  <2>1. calls' = Tail(calls) /\ tos' = (tos + n - 1) % n /\ ras /\ calls # <<>>
    BY <1>2, <1>3 DEF B!Called, B!PoppedOrPushed, B!Down, B!Calls
  <2>2. IsList(Tail(calls)) /\ Len(Tail(calls)) = Len(calls) - 1 /\ Len(calls) # 0
    <3>1. IsList(Tail(calls)) /\ Len(Tail(calls)) = Len(calls) - 1
      BY <1>1, <2>1, ListFacts
    <3>2. Len(calls) # 0
      BY <1>1, <2>1 DEF IsList
    <3> QED
      BY <3>1, <3>2
  <2>3. Len(calls) + drift \in Nat /\ Len(calls) + drift # 0
        /\ (Len(calls) + drift) - 1 = Len(calls') + drift
    BY <1>1, <2>1, <2>2
  <2> HIDE DEF n
  <2>4. (Top(n, Len(calls) + drift) + n - 1) % n = Top(n, Len(calls) + drift - 1)
    BY <1>1, <2>3, TopMoves
  <2> QED
    BY <1>1, <2>1, <2>2, <2>3, <2>4 DEF n
<1>4. CASE kind \in B!Calls
  <2>1. calls' = <<B!After(pc)>> \o calls /\ tos' = (tos + 1) % n /\ ~ras
    BY <1>2, <1>4 DEF B!Called, B!PoppedOrPushed, B!Up, B!Calls
  <2>2. IsList(<<B!After(pc)>> \o calls) /\ Len(<<B!After(pc)>> \o calls) = 1 + Len(calls)
    <3> DEFINE E == Elems(calls) \cup {B!After(pc)}
    <3>1. calls \in Seq(E) /\ <<B!After(pc)>> \in Seq(E)
      BY <1>1 DEF IsList
    <3> HIDE DEF E
    <3>2. /\ <<B!After(pc)>> \o calls \in Seq(E)
          /\ Len(<<B!After(pc)>> \o calls) = 1 + Len(calls)
      BY <3>1
    <3> QED
      BY <3>2, ListOf
  <2>3. Len(calls) + drift \in Nat /\ (Len(calls) + drift) + 1 = Len(calls') + drift
    BY <1>1, <2>1, <2>2
  <2> HIDE DEF n
  <2>4. (Top(n, Len(calls) + drift) + 1) % n = Top(n, Len(calls) + drift + 1)
    BY <1>1, <2>3, TopMoves
  <2> QED
    BY <1>1, <1>4, <2>1, <2>2, <2>3, <2>4 DEF n
<1>5. CASE kind \notin B!Calls \cup {"return"}
  <2>1. calls' = calls /\ tos' = tos /\ ~ras
    BY <1>2, <1>5 DEF B!Called, B!PoppedOrPushed, B!Calls
  <2> QED
    BY <1>1, <1>5, <2>1
<1> QED
  BY <1>3, <1>4, <1>5

LEMMA LookupStack ==
    ASSUME IsPredictor(setup), setup.retstack_size # 0, StackInv, met \in Nat,
           NEW pc \in Nat, NEW kind \in {"branch", "jump", "ijump", "call", "icall", "return"},
           B!bpred_lookup(pc, kind)
    PROVE  StackInv'
<1> DEFINE ras == kind = "return" /\ B!HasStack
           right == B!OnRightPath
           n == setup.retstack_size
<1>1. PICK next, dirs, pred :
        /\ inflight' = Append(inflight,
               [PC |-> pc, kind |-> kind, dirs |-> dirs, ras |-> ras,
                pred_PC |-> pred, next |-> next, stack_recover_idx |-> B!TOS,
                renamed |-> setup.update_at # "ID",
                resolved |-> FALSE, wrong |-> ~right])
        /\ IF right THEN B!Called(pc, kind) ELSE UNCHANGED calls
  BY Zenon DEF B!bpred_lookup
<1>2. /\ B!PoppedOrPushed(pc, kind, ras) /\ met' = met + 1
      /\ setup' = setup /\ drift' = drift
      /\ right /\ kind = "return" => calls # <<>>
  BY Zenon DEF B!bpred_lookup
<1> DEFINE b == [PC |-> pc, kind |-> kind, dirs |-> dirs, ras |-> ras,
                 pred_PC |-> pred, next |-> next, stack_recover_idx |-> B!TOS,
                 renamed |-> setup.update_at # "ID",
                 resolved |-> FALSE, wrong |-> ~right]
           m == Len(inflight)
<1>3. /\ b.kind = kind /\ b.ras = ras /\ b.wrong = ~right /\ b.resolved = FALSE
      /\ b.stack_recover_idx = B!TOS
      /\ {"PC", "kind", "dirs", "ras", "pred_PC", "next", "stack_recover_idx", "renamed",
          "resolved", "wrong"} \subseteq DOMAIN b
  BY Zenon
<1>4. Branch(b)
  BY <1>3 DEF Branch, B!Calls
<1>5. inflight' = Append(inflight, b)
  BY <1>1
<1> HIDE DEF b
<1>6. /\ m \in Nat /\ DOMAIN inflight = 1 .. m
      /\ IsList(inflight') /\ DOMAIN inflight' = 1 .. m + 1
      /\ \A i \in 1 .. m : inflight'[i] = inflight[i]
      /\ inflight'[m + 1] = b
  BY <1>5, ListFacts DEF StackInv
<1>7. \A i \in 1 .. m + 1 : i \in 1 .. m \/ i = m + 1
  BY <1>6
<1>8. Waits(b) => right
  BY <1>3, Zenon DEF Waits
<1>9. right <=> \A k \in DOMAIN inflight : ~Waits(inflight[k])
  BY Zenon DEF B!OnRightPath, Waits
<1>10. B!HasStack /\ B!TOS = tos
  BY DEF B!HasStack, B!TOS, StackInv
<1>11. /\ setup'.retstack_size = n /\ n \in Nat \ {0} /\ drift \in Nat /\ drift' \in Nat
       /\ met' \in Nat /\ met' # 0
  BY <1>2 DEF StackInv
<1> HIDE DEF Waits, Before
<1>12. CASE right
  <2>1. /\ IsList(calls') /\ tos' = Top(n, Len(calls') + drift)
        /\ Len(calls) \in Nat /\ Len(calls') \in Nat
        /\ Len(calls) = IF ras THEN Len(calls') + 1
                        ELSE IF kind \in B!Calls THEN Len(calls') - 1 ELSE Len(calls')
    <3>1. tos = Top(n, Len(calls) + drift)
      BY <1>9, <1>12 DEF StackInv
    <3>2. B!Called(pc, kind)
      BY <1>1, <1>12
    <3>3. kind = "return" => calls # <<>>
      BY <1>2, <1>12
    <3> QED
      BY <1>2, <3>1, <3>2, <3>3, CalledMoves
  <2>2. Before(b, Len(calls')) = Len(calls)
    BY <1>3, <2>1, Zenon DEF Before
  <2>3. \A k \in DOMAIN inflight' : Waits(inflight'[k]) => k = m + 1
    BY <1>6, <1>7, <1>9, <1>12
  <2>4. tos = Top(n, Len(calls) + drift)
    BY <1>9, <1>12 DEF StackInv
  <2>5. \A k \in DOMAIN inflight' : Waits(inflight'[k]) =>
          /\ Before(inflight'[k], Len(calls')) \in Nat
          /\ inflight'[k].stack_recover_idx =
               Top(n, Before(inflight'[k], Len(calls')) + drift)
    BY <1>3, <1>6, <1>10, <2>1, <2>2, <2>3, <2>4
  <2>6. \A k \in DOMAIN inflight' : Branch(inflight'[k])
    BY <1>4, <1>6, <1>7 DEF StackInv
  <2> QED
    BY <1>2, <1>6, <1>11, <2>1, <2>3, <2>5, <2>6 DEF StackInv
<1>13. CASE ~right
  <2>1. calls' = calls
    BY <1>1, <1>13
  <2>2. \A k \in DOMAIN inflight' : Waits(inflight'[k]) =>
          k \in DOMAIN inflight /\ inflight'[k] = inflight[k]
    BY <1>6, <1>7, <1>8, <1>13
  <2>3. PICK k \in DOMAIN inflight : Waits(inflight[k])
    BY <1>9, <1>13
  <2>4. k \in DOMAIN inflight' /\ Waits(inflight'[k])
    BY <1>6, <2>3
  <2>5. \A i \in DOMAIN inflight' : Branch(inflight'[i])
    BY <1>4, <1>6, <1>7 DEF StackInv
  <2>6. IsList(calls)
    BY DEF StackInv
  <2>7. /\ \A j, i \in DOMAIN inflight' : Waits(inflight'[j]) /\ Waits(inflight'[i]) => j = i
        /\ \A i \in DOMAIN inflight' : Waits(inflight'[i]) =>
             /\ Before(inflight'[i], Len(calls)) \in Nat
             /\ inflight'[i].stack_recover_idx = Top(n, Before(inflight'[i], Len(calls)) + drift)
    BY <2>2 DEF StackInv
  <2> QED
    BY <1>2, <1>6, <1>11, <2>1, <2>4, <2>5, <2>6, <2>7 DEF StackInv
<1> QED
  BY <1>12, <1>13

LEMMA WarmStack ==
    ASSUME IsPredictor(setup), setup.retstack_size # 0, StackInv,
           NEW pc \in Nat, NEW kind \in {"branch", "jump", "ijump", "call", "icall", "return"},
           B!ff_context(pc, kind)
    PROVE  StackInv'
<1> DEFINE ras == kind = "return" /\ B!HasStack
           n == setup.retstack_size
<1>1. /\ B!Called(pc, kind) /\ B!PoppedOrPushed(pc, kind, ras) /\ met = 0
      /\ setup' = setup /\ drift' = drift /\ met' = met /\ inflight' = inflight
      /\ kind = "return" => calls # <<>>
  BY Zenon DEF B!ff_context
<1>2. inflight = <<>>
  BY <1>1 DEF StackInv
<1>3. DOMAIN inflight = {} /\ DOMAIN inflight' = {}
  BY <1>1, <1>2
<1>4. tos = Top(n, Len(calls) + drift)
  BY <1>3 DEF StackInv
<1>5. IsList(calls') /\ tos' = Top(n, Len(calls') + drift)
  BY <1>1, <1>4, CalledMoves
<1> QED
  BY <1>1, <1>2, <1>3, <1>5 DEF StackInv

(* What changes no branch that waits, and neither the top nor the calls.   *)
LEMMA SameStack ==
    ASSUME StackInv, setup' = setup, calls' = calls, drift' = drift, tos' = tos, met' = met,
           IsList(inflight'), DOMAIN inflight' = DOMAIN inflight,
           \A i \in DOMAIN inflight :
             /\ Branch(inflight'[i])
             /\ Waits(inflight'[i]) <=> Waits(inflight[i])
             /\ inflight'[i].stack_recover_idx = inflight[i].stack_recover_idx
             /\ inflight'[i].ras = inflight[i].ras /\ inflight'[i].kind = inflight[i].kind
    PROVE  StackInv'
<1>1. met = 0 => inflight' = <<>>
  <2> SUFFICES ASSUME met = 0 PROVE inflight' = <<>>
    OBVIOUS
  <2>1. DOMAIN inflight' = {}
    BY DEF StackInv
  <2>2. Len(inflight') = 0
    BY <2>1, ListFacts
  <2> QED
    BY <2>2 DEF IsList
<1>2. \A i \in DOMAIN inflight : Before(inflight'[i], Len(calls)) = Before(inflight[i], Len(calls))
  BY Zenon DEF Before
<1> HIDE DEF Waits, Before, Branch
<1>3. /\ \A j, k \in DOMAIN inflight' : Waits(inflight'[j]) /\ Waits(inflight'[k]) => j = k
      /\ (\A k \in DOMAIN inflight' : ~Waits(inflight'[k])) =>
            tos = Top(setup.retstack_size, Len(calls) + drift)
      /\ \A k \in DOMAIN inflight' : Waits(inflight'[k]) =>
          /\ Before(inflight'[k], Len(calls)) \in Nat
          /\ inflight'[k].stack_recover_idx =
                Top(setup.retstack_size, Before(inflight'[k], Len(calls)) + drift)
  BY <1>2 DEF StackInv
<1> QED
  BY <1>1, <1>3 DEF StackInv

LEMMA ResolveStack ==
    ASSUME setup.retstack_size # 0, StackInv, NEW k, B!Resolve(k)
    PROVE  StackInv'
<1> DEFINE b == inflight[k]
           recovers == B!Mispredicted(b) /\ ~b.wrong
           done == [b EXCEPT !.resolved = TRUE]
           marked == [inflight EXCEPT ![k] = done]
           n == setup.retstack_size
<1>1. /\ k \in DOMAIN inflight /\ ~b.resolved
      /\ inflight' = IF recovers THEN SubSeq(marked, 1, k) ELSE marked
      /\ tos' = IF recovers THEN b.stack_recover_idx ELSE tos
      /\ setup' = setup /\ calls' = calls /\ met' = met
  BY Zenon DEF B!Resolve, B!Recovered
<1>2. drift' = IF ~recovers \/ ~B!HasStack THEN drift
               ELSE CASE b.ras           -> B!Up(drift)
                      [] b.kind \in B!Calls -> B!Down(drift)
                      [] OTHER           -> drift
  BY Zenon DEF B!Resolve
<1>3. Branch(b) /\ IsList(inflight) /\ n \in Nat \ {0} /\ B!HasStack /\ drift \in Nat
      /\ IsList(calls)
  BY <1>1 DEF StackInv, B!HasStack
<1>4. /\ IsList(marked) /\ Len(marked) = Len(inflight) /\ DOMAIN marked = DOMAIN inflight
      /\ marked[k] = done /\ \A i \in DOMAIN inflight : i # k => marked[i] = inflight[i]
      /\ Len(inflight) \in Nat /\ DOMAIN inflight = 1 .. Len(inflight)
  BY <1>1, <1>3, ListFacts
<1>5. /\ DOMAIN done = DOMAIN b /\ done.resolved = TRUE /\ done.wrong = b.wrong
      /\ done.ras = b.ras /\ done.kind = b.kind
      /\ done.stack_recover_idx = b.stack_recover_idx
      /\ Branch(done)
  BY <1>3 DEF Branch
<1>6. ~Waits(done) /\ (Waits(b) <=> recovers)
  BY <1>1, <1>5, Zenon DEF Waits
<1> HIDE DEF done, marked
<1>7. CASE ~recovers
  <2>1. inflight' = marked /\ tos' = tos /\ drift' = drift
    BY <1>1, <1>2, <1>7, Zenon
  <2>2. \A i \in DOMAIN inflight :
             /\ Branch(inflight'[i])
             /\ Waits(inflight'[i]) <=> Waits(inflight[i])
             /\ inflight'[i].stack_recover_idx = inflight[i].stack_recover_idx
             /\ inflight'[i].ras = inflight[i].ras /\ inflight'[i].kind = inflight[i].kind
    <3> SUFFICES ASSUME NEW i \in DOMAIN inflight
                 PROVE  /\ Branch(inflight'[i])
                        /\ Waits(inflight'[i]) <=> Waits(inflight[i])
                        /\ inflight'[i].stack_recover_idx = inflight[i].stack_recover_idx
                        /\ inflight'[i].ras = inflight[i].ras /\ inflight'[i].kind = inflight[i].kind
      OBVIOUS
    <3>1. CASE i = k
      BY <1>4, <1>5, <1>6, <1>7, <2>1, <3>1, Zenon
    <3>2. CASE i # k
      BY <1>4, <2>1, <3>2, Zenon DEF StackInv
    <3> QED
      BY <3>1, <3>2
  <2> QED
    BY <1>1, <1>4, <2>1, <2>2, SameStack, Zenon
<1>8. CASE recovers
  <2>1. inflight' = SubSeq(marked, 1, k) /\ tos' = b.stack_recover_idx
    BY <1>1, <1>8, Zenon
  <2>2. k \in 0 .. Len(marked) /\ k \in 1 .. Len(inflight)
    BY <1>1, <1>4
  <2>3. /\ IsList(inflight') /\ DOMAIN inflight' = 1 .. k
        /\ \A i \in 1 .. k : inflight'[i] = marked[i]
    BY <1>4, <2>1, <2>2, ListFacts
  <2>4. \A i \in 1 .. k : i \in DOMAIN inflight
    BY <1>4, <2>2
  <2>5. Waits(b)
    BY <1>6, <1>8
  <2>6. \A i \in DOMAIN inflight : i # k => ~Waits(inflight[i])
    BY <1>1, <2>5, Zenon DEF StackInv
  <2>7. \A i \in DOMAIN inflight' : ~Waits(inflight'[i]) /\ Branch(inflight'[i])
    <3> SUFFICES ASSUME NEW i \in DOMAIN inflight'
                 PROVE  ~Waits(inflight'[i]) /\ Branch(inflight'[i])
      OBVIOUS
    <3>1. CASE i = k
      BY <1>4, <1>5, <1>6, <2>2, <2>3, <3>1
    <3>2. CASE i # k
      BY <1>4, <2>3, <2>4, <2>6, <3>2, Zenon DEF StackInv
    <3> QED
      BY <3>1, <3>2
  <2> DEFINE c == Len(calls)
  <2>8. /\ Before(b, c) \in Nat /\ b.stack_recover_idx = Top(n, Before(b, c) + drift)
        /\ c \in Nat
    <3>1. c \in Nat
      BY <1>3, ListFacts
    <3> QED
      BY <1>1, <2>5, <3>1, Zenon DEF StackInv
  <2> HIDE DEF c
  <2>9. drift' \in Nat /\ b.stack_recover_idx = Top(n, c + drift')
    <3>1. CASE b.ras
      <4>1. drift' = B!Up(drift)
        <5>1. b.kind \notin B!Calls
          BY <1>3, <3>1 DEF Branch
        <5> QED
          BY <1>2, <1>3, <1>8, <3>1, <5>1
      <4>2. Before(b, c) = c + 1
        BY <3>1, Zenon DEF Before
      <4>3. B!Up(drift) = (drift + 1) % n
        BY Zenon DEF B!Up
      <4>4. (drift + 1) % n \in Nat /\ Top(n, (c + 1) + drift) = Top(n, c + ((drift + 1) % n))
        BY <1>3, <2>8, DriftMoves
      <4> QED
        BY <2>8, <4>1, <4>2, <4>3, <4>4, Zenon
    <3>2. CASE ~b.ras /\ b.kind \in B!Calls
      <4>1. drift' = (drift + n - 1) % n /\ Before(b, c) = c - 1
        BY <1>2, <1>3, <1>8, <3>2, Zenon DEF Before, B!Down
      <4>2. c # 0
        BY <2>8, <4>1
      <4>3. /\ (drift + n - 1) % n \in Nat
            /\ Top(n, (c - 1) + drift) = Top(n, c + ((drift + n - 1) % n))
        BY <1>3, <2>8, <4>2, DriftMoves
      <4> QED
        BY <2>8, <4>1, <4>3, Zenon
    <3>3. CASE ~b.ras /\ b.kind \notin B!Calls
      <4>1. drift' = drift /\ Before(b, c) = c
        BY <1>2, <1>3, <1>8, <3>3, Zenon DEF Before
      <4> QED
        BY <1>3, <2>8, <4>1
    <3> QED
      BY <3>1, <3>2, <3>3
  <2>10. met = 0 => inflight' = <<>>
    <3>1. met # 0
      BY <1>1 DEF StackInv
    <3> QED
      BY <3>1
  <2> HIDE DEF Waits, Branch
  <2> QED
    BY <1>1, <1>3, <2>1, <2>3, <2>7, <2>9, <2>10 DEF StackInv, c
<1> QED
  BY <1>7, <1>8

LEMMA RenameStack ==
    ASSUME StackInv, NEW k, B!Rename(k)
    PROVE  StackInv'
<1> DEFINE b == inflight[k]
           done == [b EXCEPT !.renamed = TRUE]
<1>1. /\ k \in DOMAIN inflight /\ inflight' = [inflight EXCEPT ![k] = done]
      /\ setup' = setup /\ calls' = calls /\ met' = met /\ tos' = tos /\ drift' = drift
  BY Zenon DEF B!Rename
<1>2. Branch(b) /\ IsList(inflight)
  BY <1>1 DEF StackInv
<1>3. /\ DOMAIN done = DOMAIN b /\ done.resolved = b.resolved /\ done.wrong = b.wrong
      /\ done.ras = b.ras /\ done.kind = b.kind /\ done.next = b.next
      /\ done.pred_PC = b.pred_PC
      /\ done.stack_recover_idx = b.stack_recover_idx
      /\ Branch(done)
  BY <1>2 DEF Branch
<1>4. Waits(done) <=> Waits(b)
  BY <1>3, Zenon DEF Waits, B!Mispredicted
<1> HIDE DEF done
<1>5. /\ IsList(inflight') /\ DOMAIN inflight' = DOMAIN inflight
      /\ inflight'[k] = done /\ \A i \in DOMAIN inflight : i # k => inflight'[i] = inflight[i]
  BY <1>1, <1>2, ListFacts
<1>6. \A i \in DOMAIN inflight :
             /\ Branch(inflight'[i])
             /\ Waits(inflight'[i]) <=> Waits(inflight[i])
             /\ inflight'[i].stack_recover_idx = inflight[i].stack_recover_idx
             /\ inflight'[i].ras = inflight[i].ras /\ inflight'[i].kind = inflight[i].kind
  <2> SUFFICES ASSUME NEW i \in DOMAIN inflight
               PROVE  /\ Branch(inflight'[i])
                      /\ Waits(inflight'[i]) <=> Waits(inflight[i])
                      /\ inflight'[i].stack_recover_idx = inflight[i].stack_recover_idx
                      /\ inflight'[i].ras = inflight[i].ras /\ inflight'[i].kind = inflight[i].kind
    OBVIOUS
  <2>1. CASE i = k
    BY <1>3, <1>4, <1>5, <2>1, Zenon
  <2>2. CASE i # k
    BY <1>5, <2>2, Zenon DEF StackInv
  <2> QED
    BY <2>1, <2>2
<1> QED
  BY <1>1, <1>5, <1>6, SameStack, Zenon

LEMMA CommitStack ==
    ASSUME StackInv, B!Commit
    PROVE  StackInv'
<1>1. /\ inflight # <<>> /\ inflight[1].resolved /\ inflight' = Tail(inflight)
      /\ setup' = setup /\ calls' = calls /\ met' = met /\ tos' = tos /\ drift' = drift
  BY Zenon DEF B!Commit
<1> DEFINE m == Len(inflight)
<1>2. /\ m \in Nat /\ DOMAIN inflight = 1 .. m /\ IsList(inflight')
      /\ DOMAIN inflight' = 1 .. m - 1
      /\ \A i \in 1 .. m - 1 : inflight'[i] = inflight[i + 1]
  BY <1>1, ListFacts DEF StackInv
<1>3. ~Waits(inflight[1])
  BY <1>1 DEF Waits
<1>4. /\ \A i \in DOMAIN inflight' : i + 1 \in DOMAIN inflight /\ i \in Int
      /\ \A i \in DOMAIN inflight : i = 1 \/ (i - 1 \in DOMAIN inflight' /\ (i - 1) + 1 = i)
      /\ \A i, j \in Int : i + 1 = j + 1 => i = j
  BY <1>2
<1>5. \A i \in DOMAIN inflight : Waits(inflight[i]) =>
        i - 1 \in DOMAIN inflight' /\ inflight'[i - 1] = inflight[i]
  BY <1>2, <1>3, <1>4
<1>6. \A i \in DOMAIN inflight' : i + 1 \in DOMAIN inflight /\ inflight'[i] = inflight[i + 1]
  BY <1>2, <1>4
<1> HIDE DEF Waits, Branch, Before, m
<1>7. \A k \in DOMAIN inflight' : Branch(inflight'[k])
  BY <1>6 DEF StackInv
<1>8. \A j, k \in DOMAIN inflight' : Waits(inflight'[j]) /\ Waits(inflight'[k]) => j = k
  BY <1>4, <1>6 DEF StackInv
<1>9. (\A k \in DOMAIN inflight' : ~Waits(inflight'[k])) =>
        tos = Top(setup.retstack_size, Len(calls) + drift)
  BY <1>5 DEF StackInv
<1>10. \A k \in DOMAIN inflight' : Waits(inflight'[k]) =>
          /\ Before(inflight'[k], Len(calls)) \in Nat
          /\ inflight'[k].stack_recover_idx =
                Top(setup.retstack_size, Before(inflight'[k], Len(calls)) + drift)
  BY <1>6 DEF StackInv
<1>11. met # 0
  BY <1>1 DEF StackInv
<1> QED
  BY <1>1, <1>2, <1>7, <1>8, <1>9, <1>10, <1>11 DEF StackInv

LEMMA InitPredictor ==
    ASSUME B!Init
    PROVE  PredictorInv
<1>1. IsPredictor(setup)
  BY TablesAssumption DEF B!Init
<1>2. CountersInv
  BY InitCounters
<1>3. ASSUME setup.retstack_size # 0 PROVE StackInv
  <2>1. /\ inflight = <<>> /\ calls = <<>> /\ drift = 0 /\ met = 0
        /\ tos = setup.retstack_size - 1 /\ setup.retstack_size \in Nat \ {0}
    BY <1>1, <1>3 DEF B!Init, IsPredictor
  <2>2. IsList(<<>>) /\ Len(<<>>) = 0 /\ DOMAIN <<>> = {}
    BY DEF IsList
  <2>3. tos = Top(setup.retstack_size, Len(calls) + drift)
    <3> DEFINE n == setup.retstack_size
    <3>1. n \in Nat \ {0} /\ 0 \in Nat /\ n - 1 \in 0 .. n - 1 /\ 0 * n + (n - 1) = n - 1
      BY <2>1
    <3>2. (0 * n + (n - 1)) % n = n - 1
      BY <3>1, RestOf
    <3>3. n - 1 + (Len(calls) + drift) = n - 1
      BY <2>1, <2>2
    <3> QED
      BY <2>1, <3>1, <3>2, <3>3 DEF Top
  <2> QED
    BY <2>1, <2>2, <2>3 DEF StackInv
<1>4. met \in Nat
  BY DEF B!Init
<1> QED
  BY <1>1, <1>2, <1>3, <1>4 DEF PredictorInv

LEMMA PredictorStays ==
    ASSUME PredictorInv, [Next]_vars
    PROVE  PredictorInv'
<1>1. B!Next \/ predicting' = predicting
  BY DEF Next, vars, FetchStep, PredictorsStep, CachesStep, StateStep, PowerStep
<1>2. CASE predicting' = predicting
  <2>1. /\ setup' = setup /\ counter' = counter /\ recent' = recent /\ tos' = tos
        /\ inflight' = inflight /\ calls' = calls /\ drift' = drift /\ met' = met
    BY <1>2 DEF predicting
  <2>2. CountersInv'
    BY <2>1, SameReferences DEF PredictorInv, CountersInv
  <2>3. setup.retstack_size # 0 => StackInv'
    BY <2>1 DEF PredictorInv, StackInv
  <2> QED
    BY <2>1, <2>2, <2>3 DEF PredictorInv
<1>3. CASE B!Next
  <2>1. setup' = setup /\ IsPredictor(setup) /\ met' \in Nat
    <3>1. setup' = setup /\ (met' = met \/ met' = met + 1)
      BY <1>3, Zenon DEF B!Next, B!bpred_lookup, B!ff_context, B!Rename, B!Resolve, B!Commit
    <3> QED
      BY <3>1 DEF PredictorInv
  <2>2. CountersInv'
    BY <1>3, CountersStay DEF PredictorInv
  <2>3. ASSUME setup.retstack_size # 0 PROVE StackInv'
    <3>1. StackInv /\ met \in Nat
      BY <2>3 DEF PredictorInv
    <3>2. \A b \in setup.Branches :
             /\ b[1] \in Nat
             /\ b[2] \in {"branch", "jump", "ijump", "call", "icall", "return"}
      BY <2>1 DEF IsPredictor
    <3>3. ASSUME NEW b \in setup.Branches, B!bpred_lookup(b[1], b[2]) PROVE StackInv'
      BY <2>1, <2>3, <3>1, <3>2, <3>3, LookupStack
    <3>4. ASSUME NEW b \in setup.Branches, B!ff_context(b[1], b[2]) PROVE StackInv'
      BY <2>1, <2>3, <3>1, <3>2, <3>4, WarmStack
    <3>5. ASSUME NEW k \in DOMAIN inflight, B!Rename(k) \/ B!Resolve(k) PROVE StackInv'
      BY <2>3, <3>1, <3>5, RenameStack, ResolveStack
    <3>6. B!Commit => StackInv'
      BY <3>1, CommitStack
    <3> QED
      BY <1>3, <3>3, <3>4, <3>5, <3>6, Zenon DEF B!Next
  <2> QED
    BY <2>1, <2>2, <2>3 DEF PredictorInv
<1> QED
  BY <1>1, <1>2, <1>3

LEMMA PredictorImplies ==
    ASSUME PredictorInv
    PROVE  PredictorsSound
<1>1. B!TwoInARow
  <2> SUFFICES ASSUME NEW r \in B!References
               PROVE  /\ recent[r] = <<"taken", "taken">> => B!Predicts(r)
                      /\ recent[r] = <<"not", "not">> => ~B!Predicts(r)
    BY DEF B!TwoInARow
  <2>1. Moved(counter[r], recent[r])
    BY DEF PredictorInv, CountersInv
  <2>2. recent[r] = <<"taken", "taken">> => counter[r] >= 2
    BY <2>1 DEF Moved
  <2>3. recent[r] = <<"not", "not">> => ~(counter[r] >= 2)
    BY <2>1 DEF Moved
  <2> QED
    BY <2>2, <2>3 DEF B!Predicts
<1>2. B!StackDepth
  <2> SUFFICES ASSUME B!HasStack, B!OnRightPath
               PROVE  tos = (setup.retstack_size - 1 + Len(calls) + drift) % setup.retstack_size
    BY DEF B!StackDepth
  <2>1. setup.retstack_size # 0
    BY DEF B!HasStack, PredictorInv, IsPredictor
  <2>2. StackInv
    BY <2>1 DEF PredictorInv
  <2>3. \A k \in DOMAIN inflight : ~Waits(inflight[k])
    BY Zenon DEF B!OnRightPath, Waits
  <2>4. tos = Top(setup.retstack_size, Len(calls) + drift)
    BY <2>2, <2>3, Zenon DEF StackInv
  <2>5. Len(calls) \in Nat /\ drift \in Nat /\ setup.retstack_size \in Nat
    BY <2>2, ListFacts DEF StackInv
  <2>6. setup.retstack_size - 1 + (Len(calls) + drift)
          = setup.retstack_size - 1 + Len(calls) + drift
    BY <2>5
  <2> QED
    BY <2>4, <2>6 DEF Top
<1> QED
  BY <1>1, <1>2 DEF PredictorsSound

(* Two outcomes in a row decide what a counter predicts, in tables of      *)
(* whatever size, and off a wrong path the return stack, however deep, is  *)
(* where the open calls put it but for the mispredicted calls and returns  *)
(* (update_state, bpred_lookup and the recovery by writeback).             *)
THEOREM PredictorsCorrect == Spec => []PredictorsSound
<1>1. Init => PredictorInv
  BY InitPredictor DEF Init
<1>2. PredictorInv /\ [Next]_vars => PredictorInv'
  BY PredictorStays
<1>3. PredictorInv => PredictorsSound
  BY PredictorImplies
<1> QED
  BY <1>1, <1>2, <1>3, PTL DEF Spec
=============================================================================
