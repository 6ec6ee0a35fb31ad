----------------------------- MODULE StateProofs -----------------------------
(***************************************************************************)
(* The values of registers and memory (PreciseState), for every window: an *)
(* invariant that says of each entry in flight how it takes the values     *)
(* before it to those after it, and how what it saved takes them back.     *)
(***************************************************************************)
EXTENDS MachineProofs

-----------------------------------------------------------------------------
(* What squashes take back *)

CxtFields == {"val", "ROB", "ROB_head", "ROB_tail", "ROB_num",
              "LSQ", "LSQ_head", "LSQ_tail", "LSQ_num"}
EntryFields == {"op", "ea_comp", "recover_inst", "completed", "physreg", "regs_index",
                "saved", "regs_C", "effect"}
EntryAt(w, c, k) == c.ROB[Spot(c.ROB_head, k - 1, w.ROB)]
AccessAt(w, c, k) == c.LSQ[Spot(c.LSQ_head, k - 1, w.LSQ)]

(* The locations of which the code loses values.                           *)
Spared(w) == {"null"} \cup (IF "mf_fpcr" \in w.Ops THEN {"F"} ELSE {})
Agree(w, u, v) == \A x \in P!Locations \ Spared(w) : u[x] = v[x]

(* What is saved in an entry and, of a store, in its access, is of the     *)
(* values before it, and covers what it wrote.                             *)
Restored(e, l) ==
  {"C"} \cup (IF e.physreg THEN {e.regs_index} ELSE {})
        \cup (IF e.ea_comp /\ l.is_store THEN DOMAIN l.previous_mem ELSE {})
Saves(w, e, l, before) ==
  /\ e.regs_C = before["C"]
  /\ e.physreg => e.regs_index \in {"R", "F"}
  /\ e.physreg /\ e.regs_index \notin Spared(w) => e.saved = before[e.regs_index]
  /\ e.ea_comp /\ l.is_store =>
       /\ DOMAIN l.previous_mem \subseteq P!Words
       /\ \A x \in DOMAIN l.previous_mem \ Spared(w) : l.previous_mem[x] = before[x]
  /\ DOMAIN e.effect \ Spared(w) \subseteq Restored(e, l)

(* An entry takes the values before it to those after it, and the number   *)
(* of accesses as well.                                                    *)
Link(w, e, l, before, after, m, n) ==
  /\ DOMAIN e = EntryFields
  /\ after = P!Over(e.effect, before)
  /\ n = IF e.ea_comp THEN m + 1 ELSE m
  /\ e.ea_comp => l.op = e.op /\ l.physreg = e.physreg
  /\ Saves(w, e, l, before)

Rings(w, c) ==
  /\ DOMAIN c = CxtFields /\ c.val = [x \in P!Locations |-> c.val[x]]
  /\ DOMAIN c.ROB = 0 .. w.ROB - 1 /\ DOMAIN c.LSQ = 0 .. w.LSQ - 1
  /\ c.ROB_head \in 0 .. w.ROB - 1 /\ c.ROB_num \in 0 .. w.ROB
  /\ c.LSQ_head \in 0 .. w.LSQ - 1 /\ c.LSQ_num \in 0 .. w.LSQ
  /\ c.ROB_tail = Spot(c.ROB_head, c.ROB_num, w.ROB)
  /\ c.LSQ_tail = Spot(c.LSQ_head, c.LSQ_num, w.LSQ)
  /\ \A k \in c.ROB_num + 1 .. w.ROB : EntryAt(w, c, k) = P!NoEntry

(* The values V and the numbers of accesses n when so many of the entries  *)
(* in flight had run and no others.                                        *)
History(w, c, com, V, n) ==
  /\ V[0] = com /\ n[0] = 0 /\ n[c.ROB_num] = c.LSQ_num
  /\ \A k \in 0 .. c.ROB_num : /\ V[k] = [x \in P!Locations |-> V[k][x]]
                               /\ n[k] \in 0 .. c.LSQ_num
  /\ \A j, k \in 0 .. c.ROB_num : j <= k => n[j] <= n[k]
  /\ \A k \in 1 .. c.ROB_num :
       Link(w, EntryAt(w, c, k), AccessAt(w, c, n[k]), V[k - 1], V[k], n[k - 1], n[k])
  /\ Agree(w, c.val, V[c.ROB_num])

StateInv ==
  /\ IsWindow(window) /\ Rings(window, cxt)
  /\ \E V, n : History(window, cxt, committed, V, n)

(* Positions in a ring, and tails that go down below 0.                    *)
LEMMA SpotBack ==
    ASSUME NEW n \in Nat \ {0}, NEW h \in 0 .. n - 1, NEW i \in 1 .. n
    PROVE  /\ Spot(h, i, n) \in 0 .. n - 1 /\ Spot(h, i - 1, n) \in 0 .. n - 1
           /\ P!Prev(Spot(h, i, n), n) = Spot(h, i - 1, n)
<1>1. Spot(h, i, n) \in 0 .. n - 1 /\ Spot(h, i - 1, n) \in 0 .. n - 1
  BY DEF Spot
<1>2. (Spot(h, i, n) + (n - 1)) % n = Spot(Spot(h, i, n), n - 1, n)
  BY <1>1, ModSmall
<1>3. Spot(Spot(h, i, n), n - 1, n) = Spot(h, i - 1, n)
  BY DEF Spot
<1> QED
  BY <1>1, <1>2, <1>3 DEF P!Prev

LEMMA SpotOnto ==
    ASSUME NEW n \in Nat \ {0}, NEW h \in 0 .. n - 1, NEW s \in 0 .. n - 1
    PROVE  \E i \in 1 .. n : s = Spot(h, i - 1, n)
<1>1. CASE s < h
  <2>1. s + n - h + 1 \in 1 .. n /\ s = Spot(h, (s + n - h + 1) - 1, n)
    BY <1>1 DEF Spot
  <2> QED
    BY <2>1
<1>2. CASE h <= s
  <2>1. s - h + 1 \in 1 .. n /\ s = Spot(h, (s - h + 1) - 1, n)
    BY <1>2 DEF Spot
  <2> QED
    BY <2>1
<1> QED
  BY <1>1, <1>2

(* i below the position t, as an unsigned number.                          *)
Below(t, i, u) == IF i <= t THEN t - i ELSE t - i + u

LEMMA ModOnce ==
    ASSUME NEW u \in Nat \ {0}, NEW a \in Int, -u <= a, a < u + u
    PROVE  a % u = IF a < 0 THEN a + u ELSE IF a < u THEN a ELSE a - u
<1> DEFINE q == IF a < 0 THEN -1 ELSE IF a < u THEN 0 ELSE 1
           e == IF a < 0 THEN a + u ELSE IF a < u THEN a ELSE a - u
           d == a \div u
           r == a % u
<1>1. d \in Int /\ r \in 0 .. u - 1 /\ a = u * d + r
  BY SMT
<1>2. a = u * q + e /\ e \in 0 .. u - 1 /\ q \in Int
  BY SMT
<1> HIDE DEF q, d, r, e
<1>3. d = q
  <2>1. u * d < u * (q + 1) /\ u * q < u * (d + 1)
    BY <1>1, <1>2, SMT
  <2> QED
    BY <2>1, <1>1, <1>2, SMT
<1>4. r = e
  BY <1>1, <1>2, <1>3, SMT
<1> QED
  BY <1>4 DEF r, e

LEMMA BelowNext ==
    ASSUME NEW u \in Nat \ {0}, NEW t \in 0 .. u - 1, NEW i \in 0 .. u - 1
    PROVE  (Below(t, i, u) - 1) % u = Below(t, i + 1, u) /\ Below(t, i, u) \in 0 .. u - 1
<1>1. Below(t, i, u) \in 0 .. u - 1
  BY DEF Below
<1>2. Below(t, i, u) - 1 \in Int /\ -u <= Below(t, i, u) - 1 /\ Below(t, i, u) - 1 < u + u
  BY <1>1
<1>3. (Below(t, i, u) - 1) % u = IF Below(t, i, u) - 1 < 0 THEN Below(t, i, u) - 1 + u
                                  ELSE Below(t, i, u) - 1
  BY <1>1, <1>2, ModOnce
<1> QED
  BY <1>1, <1>3 DEF Below

(* The repair at the end of rollbackTo puts a tail behind what is left.    *)
LEMMA RepairedIs ==
    ASSUME NEW n \in Nat \ {0}, NEW h \in 0 .. n - 1, NEW num \in 0 .. n, NEW k \in 0 .. num,
           window.UINT \in Nat, 2 * n <= window.UINT
    PROVE  P!Repaired(Below(Spot(h, num, n), num - k, window.UINT), n) = Spot(h, k, n)
<1> DEFINE u == window.UINT
           t == Spot(h, num, n)
           b == Below(t, num - k, u)
<1>1. t \in 0 .. n - 1 /\ u \in Nat \ {0} /\ num - k \in 0 .. n
  BY DEF Spot
<1>2. CASE num - k <= t
  <2>1. b = t - (num - k) /\ b \in 0 .. n - 1 /\ b = Spot(h, k, n)
    BY <1>1, <1>2 DEF Below, Spot
  <2> HIDE DEF b
  <2> QED
    BY <2>1 DEF P!Repaired, b
<1>3. CASE ~(num - k <= t)
  <2>1. b = t - (num - k) + u /\ b \in n .. u - 1
    BY <1>1, <1>3 DEF Below
  <2>2. t - (num - k) + n = Spot(h, k, n) /\ t - (num - k) + n \in 0 .. n - 1
    BY <1>1, <1>3 DEF Spot
  <2> HIDE DEF b, t, u
  <2>3. b + n \in Int /\ -u <= b + n /\ b + n < u + u /\ b + n >= u
    BY <1>1, <2>1, <2>2
  <2>4. (b + n) % u = (b + n) - u
    <3> DEFINE a == b + n
    <3>1. a \in Int /\ -u <= a /\ a < u + u /\ a >= u
      BY <2>3
    <3> HIDE DEF a
    <3>2. a % u = IF a < 0 THEN a + u ELSE IF a < u THEN a ELSE a - u
      BY <1>1, <3>1, ModOnce
    <3>3. a % u = a - u
      BY <1>1, <3>1, <3>2
    <3> QED
      BY <3>3, Zenon DEF a
  <2>5. (b + n) % u = Spot(h, k, n)
    BY <1>1, <2>1, <2>2, <2>4
  <2> QED
    BY <2>1, <2>5 DEF P!Repaired, b, t, u
<1> QED
  BY <1>2, <1>3
(* The folds of PreciseState.                                              *)
LEMMA PMaxIs ==
    ASSUME NEW t, NEW m \in t, t \subseteq Int, \A k \in t : k <= m
    PROVE  P!Max(t) = m
<1> DEFINE is(x) == x \in t /\ \A y \in t : x >= y
<1>1. is(m)
  OBVIOUS
<1>2. ASSUME NEW x, is(x) PROVE x = m
  BY <1>2
<1>3. P!Max(t) = CHOOSE x : is(x)
  BY DEF P!Max
<1> HIDE DEF is
<1> QED
  BY <1>1, <1>2, <1>3

(* The recursive function that a fold from the left is defined by.         *)
UndoIter(units) ==
  CHOOSE iter : iter = [t \in SUBSET DOMAIN units |->
    IF t = {} THEN P!Positioned ELSE P!Undo(iter[t \ {P!Max(t)}], units[P!Max(t)])]

UndoUpTo(iter, units, n) ==
  \A t \in SUBSET (1 .. n) :
    iter[t] = IF t = {} THEN P!Positioned ELSE P!Undo(iter[t \ {P!Max(t)}], units[P!Max(t)])

LEMMA UndoIs ==
    ASSUME NEW units
    PROVE  P!UndoEach(units) = UndoIter(units)[DOMAIN units]
  BY DEF P!UndoEach, P!FoldLeft, P!MapThenFoldSet, UndoIter

LEMMA UndoIterIs ==
    ASSUME NEW n \in Nat, NEW units, DOMAIN units = 1 .. n
    PROVE  UndoUpTo(UndoIter(units), units, n)
<1> DEFINE Is(iter, k) == iter = [t \in SUBSET (1 .. k) |->
             IF t = {} THEN P!Positioned ELSE P!Undo(iter[t \ {P!Max(t)}], units[P!Max(t)])]
           good == {k \in 0 .. n : \E iter : Is(iter, k)}
<1>1. 0 \in good
  <2> DEFINE none == [t \in SUBSET (1 .. 0) |-> P!Positioned]
  <2>1. Is(none, 0)
    OBVIOUS
  <2> QED
    BY <2>1
<1>2. ASSUME NEW k \in 0 .. n - 1, k \in good PROVE k + 1 \in good
  <2>1. PICK iter : Is(iter, k)
    BY <1>2
  <2> DEFINE more == [t \in SUBSET (1 .. k + 1) |->
               IF k + 1 \in t THEN P!Undo(iter[t \ {k + 1}], units[k + 1]) ELSE iter[t]]
  <2>2. ASSUME NEW t \in SUBSET (1 .. k + 1)
        PROVE  more[t] = IF t = {} THEN P!Positioned ELSE P!Undo(more[t \ {P!Max(t)}], units[P!Max(t)])
    <3>1. CASE k + 1 \in t
      <4>0. k + 1 \in t /\ t \subseteq Int /\ \A i \in t : i <= k + 1
        BY <3>1
      <4>1. P!Max(t) = k + 1
        BY <4>0, PMaxIs
      <4>2. more[t \ {k + 1}] = iter[t \ {k + 1}]
        OBVIOUS
      <4> QED
        BY <3>1, <4>1, <4>2
    <3>2. CASE k + 1 \notin t
      <4>0. \A i \in 1 .. k + 1 : i # k + 1 => i \in 1 .. k
        OBVIOUS
      <4>1. t \in SUBSET (1 .. k) /\ t \ {P!Max(t)} \in SUBSET (1 .. k + 1)
        BY <3>2, <4>0
      <4>2. more[t] = iter[t] /\ more[t \ {P!Max(t)}] = iter[t \ {P!Max(t)}]
        BY <3>2, <4>1
      <4>3. iter[t] = IF t = {} THEN P!Positioned ELSE P!Undo(iter[t \ {P!Max(t)}], units[P!Max(t)])
        BY <2>1, <4>1
      <4> QED
        BY <4>2, <4>3
    <3> QED
      BY <3>1, <3>2
  <2>3. more = [t \in SUBSET (1 .. k + 1) |->
                 IF t = {} THEN P!Positioned ELSE P!Undo(more[t \ {P!Max(t)}], units[P!Max(t)])]
    BY <2>2
  <2>4. Is(more, k + 1)
    BY <2>3
  <2> HIDE DEF more, Is
  <2> QED
    BY <2>4
<1> HIDE DEF good
<1>3. n \in good
  <2>1. \A k \in 0 .. n - 1 : k \in good => k + 1 \in good
    BY <1>2
  <2>2. 0 .. n \subseteq good
    BY <1>1, <2>1, AllNumbers
  <2> QED
    BY <2>2
<1>4. \E iter : Is(iter, n)
  BY <1>3 DEF good
<1>5. UndoIter(units) = CHOOSE iter : Is(iter, n)
  BY DEF UndoIter
<1>6. Is(UndoIter(units), n)
  <2> HIDE DEF Is
  <2> QED
    BY <1>4, <1>5
<1> QED
  BY <1>6 DEF UndoUpTo

LEMMA UndoStep ==
    ASSUME NEW n \in Nat, NEW units, DOMAIN units = 1 .. n
    PROVE  \E after : /\ after[0] = P!Positioned
                      /\ \A k \in 0 .. n - 1 : after[k + 1] = P!Undo(after[k], units[k + 1])
                      /\ P!UndoEach(units) = after[n]
<1> DEFINE it == UndoIter(units)
<1>0. UndoUpTo(it, units, n)
  BY UndoIterIs
<1>1. \A t \in SUBSET (1 .. n) : it[t] =
             IF t = {} THEN P!Positioned ELSE P!Undo(it[t \ {P!Max(t)}], units[P!Max(t)])
  BY <1>0, Zenon DEF UndoUpTo
<1> HIDE DEF it
<1>2. it[1 .. 0] = P!Positioned
  <2>1. 1 .. 0 = {} /\ {} \in SUBSET (1 .. n)
    OBVIOUS
  <2> QED
    BY <1>1, <2>1
<1>3. ASSUME NEW k \in 0 .. n - 1 PROVE it[1 .. k + 1] = P!Undo(it[1 .. k], units[k + 1])
  <2>0. k + 1 \in 1 .. k + 1 /\ 1 .. k + 1 \subseteq Int /\ \A i \in 1 .. k + 1 : i <= k + 1
    OBVIOUS
  <2>1. P!Max(1 .. k + 1) = k + 1
    BY <2>0, PMaxIs
  <2>2. (1 .. k + 1) \ {k + 1} = 1 .. k /\ 1 .. k + 1 \in SUBSET (1 .. n) /\ 1 .. k + 1 # {}
    OBVIOUS
  <2> QED
    BY <1>1, <2>1, <2>2
<1>4. P!UndoEach(units) = it[1 .. n]
  BY UndoIs DEF it
<1> DEFINE after == [k \in 0 .. n |-> it[1 .. k]]
<1>5. /\ after[0] = P!Positioned
      /\ \A k \in 0 .. n - 1 : after[k + 1] = P!Undo(after[k], units[k + 1])
      /\ P!UndoEach(units) = after[n]
  BY <1>2, <1>3, <1>4
<1> HIDE DEF after
<1> QED
  BY <1>5

(* The recursive function that a fold from the left is defined by.         *)
ExecIter(units) ==
  CHOOSE iter : iter = [t \in SUBSET DOMAIN units |->
    IF t = {} THEN committed ELSE P!Executed(iter[t \ {P!Max(t)}], units[P!Max(t)])]

ExecUpTo(iter, units, n) ==
  \A t \in SUBSET (1 .. n) :
    iter[t] = IF t = {} THEN committed ELSE P!Executed(iter[t \ {P!Max(t)}], units[P!Max(t)])

LEMMA ExecIs ==
    ASSUME NEW units
    PROVE  P!Expected(units) = ExecIter(units)[DOMAIN units]
  BY DEF P!Expected, P!FoldLeft, P!MapThenFoldSet, ExecIter

LEMMA ExecIterIs ==
    ASSUME NEW n \in Nat, NEW units, DOMAIN units = 1 .. n
    PROVE  ExecUpTo(ExecIter(units), units, n)
<1> DEFINE Is(iter, k) == iter = [t \in SUBSET (1 .. k) |->
             IF t = {} THEN committed ELSE P!Executed(iter[t \ {P!Max(t)}], units[P!Max(t)])]
           good == {k \in 0 .. n : \E iter : Is(iter, k)}
<1>1. 0 \in good
  <2> DEFINE none == [t \in SUBSET (1 .. 0) |-> committed]
  <2>1. Is(none, 0)
    OBVIOUS
  <2> QED
    BY <2>1
<1>2. ASSUME NEW k \in 0 .. n - 1, k \in good PROVE k + 1 \in good
  <2>1. PICK iter : Is(iter, k)
    BY <1>2
  <2> DEFINE more == [t \in SUBSET (1 .. k + 1) |->
               IF k + 1 \in t THEN P!Executed(iter[t \ {k + 1}], units[k + 1]) ELSE iter[t]]
  <2>2. ASSUME NEW t \in SUBSET (1 .. k + 1)
        PROVE  more[t] = IF t = {} THEN committed ELSE P!Executed(more[t \ {P!Max(t)}], units[P!Max(t)])
    <3>1. CASE k + 1 \in t
      <4>0. k + 1 \in t /\ t \subseteq Int /\ \A i \in t : i <= k + 1
        BY <3>1
      <4>1. P!Max(t) = k + 1
        BY <4>0, PMaxIs
      <4>2. more[t \ {k + 1}] = iter[t \ {k + 1}]
        OBVIOUS
      <4> QED
        BY <3>1, <4>1, <4>2
    <3>2. CASE k + 1 \notin t
      <4>0. \A i \in 1 .. k + 1 : i # k + 1 => i \in 1 .. k
        OBVIOUS
      <4>1. t \in SUBSET (1 .. k) /\ t \ {P!Max(t)} \in SUBSET (1 .. k + 1)
        BY <3>2, <4>0
      <4>2. more[t] = iter[t] /\ more[t \ {P!Max(t)}] = iter[t \ {P!Max(t)}]
        BY <3>2, <4>1
      <4>3. iter[t] = IF t = {} THEN committed ELSE P!Executed(iter[t \ {P!Max(t)}], units[P!Max(t)])
        BY <2>1, <4>1
      <4> QED
        BY <4>2, <4>3
    <3> QED
      BY <3>1, <3>2
  <2>3. more = [t \in SUBSET (1 .. k + 1) |->
                 IF t = {} THEN committed ELSE P!Executed(more[t \ {P!Max(t)}], units[P!Max(t)])]
    BY <2>2
  <2>4. Is(more, k + 1)
    BY <2>3
  <2> HIDE DEF more, Is
  <2> QED
    BY <2>4
<1> HIDE DEF good
<1>3. n \in good
  <2>1. \A k \in 0 .. n - 1 : k \in good => k + 1 \in good
    BY <1>2
  <2>2. 0 .. n \subseteq good
    BY <1>1, <2>1, AllNumbers
  <2> QED
    BY <2>2
<1>4. \E iter : Is(iter, n)
  BY <1>3 DEF good
<1>5. ExecIter(units) = CHOOSE iter : Is(iter, n)
  BY DEF ExecIter
<1>6. Is(ExecIter(units), n)
  <2> HIDE DEF Is
  <2> QED
    BY <1>4, <1>5
<1> QED
  BY <1>6 DEF ExecUpTo

LEMMA ExecStep ==
    ASSUME NEW n \in Nat, NEW units, DOMAIN units = 1 .. n
    PROVE  \E after : /\ after[0] = committed
                      /\ \A k \in 0 .. n - 1 : after[k + 1] = P!Executed(after[k], units[k + 1])
                      /\ P!Expected(units) = after[n]
<1> DEFINE it == ExecIter(units)
<1>0. ExecUpTo(it, units, n)
  BY ExecIterIs
<1>1. \A t \in SUBSET (1 .. n) : it[t] =
             IF t = {} THEN committed ELSE P!Executed(it[t \ {P!Max(t)}], units[P!Max(t)])
  BY <1>0, Zenon DEF ExecUpTo
<1> HIDE DEF it
<1>2. it[1 .. 0] = committed
  <2>1. 1 .. 0 = {} /\ {} \in SUBSET (1 .. n)
    OBVIOUS
  <2> QED
    BY <1>1, <2>1
<1>3. ASSUME NEW k \in 0 .. n - 1 PROVE it[1 .. k + 1] = P!Executed(it[1 .. k], units[k + 1])
  <2>0. k + 1 \in 1 .. k + 1 /\ 1 .. k + 1 \subseteq Int /\ \A i \in 1 .. k + 1 : i <= k + 1
    OBVIOUS
  <2>1. P!Max(1 .. k + 1) = k + 1
    BY <2>0, PMaxIs
  <2>2. (1 .. k + 1) \ {k + 1} = 1 .. k /\ 1 .. k + 1 \in SUBSET (1 .. n) /\ 1 .. k + 1 # {}
    OBVIOUS
  <2> QED
    BY <1>1, <2>1, <2>2
<1>4. P!Expected(units) = it[1 .. n]
  BY ExecIs DEF it
<1> DEFINE after == [k \in 0 .. n |-> it[1 .. k]]
<1>5. /\ after[0] = committed
      /\ \A k \in 0 .. n - 1 : after[k + 1] = P!Executed(after[k], units[k + 1])
      /\ P!Expected(units) = after[n]
  BY <1>2, <1>3, <1>4
<1> HIDE DEF after
<1> QED
  BY <1>5

(* The recursive function that a fold from the left is defined by.         *)
AccIter(units) ==
  CHOOSE iter : iter = [t \in SUBSET DOMAIN units |->
    IF t = {} THEN <<>> ELSE P!WithAccess(iter[t \ {P!Max(t)}], units[P!Max(t)])]

AccUpTo(iter, units, n) ==
  \A t \in SUBSET (1 .. n) :
    iter[t] = IF t = {} THEN <<>> ELSE P!WithAccess(iter[t \ {P!Max(t)}], units[P!Max(t)])

LEMMA AccIs ==
    ASSUME NEW units
    PROVE  P!Accesses(units) = AccIter(units)[DOMAIN units]
  BY DEF P!Accesses, P!FoldLeft, P!MapThenFoldSet, AccIter

LEMMA AccIterIs ==
    ASSUME NEW n \in Nat, NEW units, DOMAIN units = 1 .. n
    PROVE  AccUpTo(AccIter(units), units, n)
<1> DEFINE Is(iter, k) == iter = [t \in SUBSET (1 .. k) |->
             IF t = {} THEN <<>> ELSE P!WithAccess(iter[t \ {P!Max(t)}], units[P!Max(t)])]
           good == {k \in 0 .. n : \E iter : Is(iter, k)}
<1>1. 0 \in good
  <2> DEFINE none == [t \in SUBSET (1 .. 0) |-> <<>>]
  <2>1. Is(none, 0)
    OBVIOUS
  <2> QED
    BY <2>1
<1>2. ASSUME NEW k \in 0 .. n - 1, k \in good PROVE k + 1 \in good
  <2>1. PICK iter : Is(iter, k)
    BY <1>2
  <2> DEFINE more == [t \in SUBSET (1 .. k + 1) |->
               IF k + 1 \in t THEN P!WithAccess(iter[t \ {k + 1}], units[k + 1]) ELSE iter[t]]
  <2>2. ASSUME NEW t \in SUBSET (1 .. k + 1)
        PROVE  more[t] = IF t = {} THEN <<>> ELSE P!WithAccess(more[t \ {P!Max(t)}], units[P!Max(t)])
    <3>1. CASE k + 1 \in t
      <4>0. k + 1 \in t /\ t \subseteq Int /\ \A i \in t : i <= k + 1
        BY <3>1
      <4>1. P!Max(t) = k + 1
        BY <4>0, PMaxIs
      <4>2. more[t \ {k + 1}] = iter[t \ {k + 1}]
        OBVIOUS
      <4> QED
        BY <3>1, <4>1, <4>2
    <3>2. CASE k + 1 \notin t
      <4>0. \A i \in 1 .. k + 1 : i # k + 1 => i \in 1 .. k
        OBVIOUS
      <4>1. t \in SUBSET (1 .. k) /\ t \ {P!Max(t)} \in SUBSET (1 .. k + 1)
        BY <3>2, <4>0
      <4>2. more[t] = iter[t] /\ more[t \ {P!Max(t)}] = iter[t \ {P!Max(t)}]
        BY <3>2, <4>1
      <4>3. iter[t] = IF t = {} THEN <<>> ELSE P!WithAccess(iter[t \ {P!Max(t)}], units[P!Max(t)])
        BY <2>1, <4>1
      <4> QED
        BY <4>2, <4>3
    <3> QED
      BY <3>1, <3>2
  <2>3. more = [t \in SUBSET (1 .. k + 1) |->
                 IF t = {} THEN <<>> ELSE P!WithAccess(more[t \ {P!Max(t)}], units[P!Max(t)])]
    BY <2>2
  <2>4. Is(more, k + 1)
    BY <2>3
  <2> HIDE DEF more, Is
  <2> QED
    BY <2>4
<1> HIDE DEF good
<1>3. n \in good
  <2>1. \A k \in 0 .. n - 1 : k \in good => k + 1 \in good
    BY <1>2
  <2>2. 0 .. n \subseteq good
    BY <1>1, <2>1, AllNumbers
  <2> QED
    BY <2>2
<1>4. \E iter : Is(iter, n)
  BY <1>3 DEF good
<1>5. AccIter(units) = CHOOSE iter : Is(iter, n)
  BY DEF AccIter
<1>6. Is(AccIter(units), n)
  <2> HIDE DEF Is
  <2> QED
    BY <1>4, <1>5
<1> QED
  BY <1>6 DEF AccUpTo

LEMMA AccStep ==
    ASSUME NEW n \in Nat, NEW units, DOMAIN units = 1 .. n
    PROVE  \E after : /\ after[0] = <<>>
                      /\ \A k \in 0 .. n - 1 : after[k + 1] = P!WithAccess(after[k], units[k + 1])
                      /\ P!Accesses(units) = after[n]
<1> DEFINE it == AccIter(units)
<1>0. AccUpTo(it, units, n)
  BY AccIterIs
<1>1. \A t \in SUBSET (1 .. n) : it[t] =
             IF t = {} THEN <<>> ELSE P!WithAccess(it[t \ {P!Max(t)}], units[P!Max(t)])
  BY <1>0, Zenon DEF AccUpTo
<1> HIDE DEF it
<1>2. it[1 .. 0] = <<>>
  <2>1. 1 .. 0 = {} /\ {} \in SUBSET (1 .. n)
    OBVIOUS
  <2> QED
    BY <1>1, <2>1
<1>3. ASSUME NEW k \in 0 .. n - 1 PROVE it[1 .. k + 1] = P!WithAccess(it[1 .. k], units[k + 1])
  <2>0. k + 1 \in 1 .. k + 1 /\ 1 .. k + 1 \subseteq Int /\ \A i \in 1 .. k + 1 : i <= k + 1
    OBVIOUS
  <2>1. P!Max(1 .. k + 1) = k + 1
    BY <2>0, PMaxIs
  <2>2. (1 .. k + 1) \ {k + 1} = 1 .. k /\ 1 .. k + 1 \in SUBSET (1 .. n) /\ 1 .. k + 1 # {}
    OBVIOUS
  <2> QED
    BY <1>1, <2>1, <2>2
<1>4. P!Accesses(units) = it[1 .. n]
  BY AccIs DEF it
<1> DEFINE after == [k \in 0 .. n |-> it[1 .. k]]
<1>5. /\ after[0] = <<>>
      /\ \A k \in 0 .. n - 1 : after[k + 1] = P!WithAccess(after[k], units[k + 1])
      /\ P!Accesses(units) = after[n]
  BY <1>2, <1>3, <1>4
<1> HIDE DEF after
<1> QED
  BY <1>5

(* What an instruction leaves.                                             *)
IsValues(v) == v = [x \in P!Locations |-> v[x]]
LEMMA OverIs ==
    ASSUME NEW written, NEW v, IsValues(v)
    PROVE  /\ IsValues(P!Over(written, v))
           /\ \A x \in P!Locations :
                P!Over(written, v)[x] = IF x \in DOMAIN written THEN written[x] ELSE v[x]
<1>1. DOMAIN v = P!Locations
  BY DEF IsValues
<1> QED
  BY <1>1 DEF IsValues, P!Over

(* One iteration of a squash.                                              *)
UndoneVal(e, l, v) ==
  LET mem == IF e.ea_comp /\ l.is_store THEN P!Over(l.previous_mem, v) ELSE v
  IN [x \in P!Locations |->
       IF x = "C" THEN e.regs_C
       ELSE IF e.physreg /\ x = e.regs_index THEN e.saved ELSE mem[x]]

LEMMA UndoneAgrees ==
    ASSUME NEW w, NEW e, NEW l, NEW before, NEW after, NEW m, NEW n,
           Link(w, e, l, before, after, m, n), IsValues(before),
           NEW v, IsValues(v), Agree(w, v, after)
    PROVE  /\ IsValues(UndoneVal(e, l, v))
           /\ Agree(w, UndoneVal(e, l, v), before)
<1> DEFINE mem == IF e.ea_comp /\ l.is_store THEN P!Over(l.previous_mem, v) ELSE v
           u == UndoneVal(e, l, v)
<1>1. u = [x \in P!Locations |->
       IF x = "C" THEN e.regs_C
       ELSE IF e.physreg /\ x = e.regs_index THEN e.saved ELSE mem[x]]
  BY DEF UndoneVal
<1>2. Saves(w, e, l, before) /\ after = P!Over(e.effect, before)
  BY DEF Link
<1>3. \A x \in P!Locations :
        after[x] = IF x \in DOMAIN e.effect THEN e.effect[x] ELSE before[x]
  BY <1>2, OverIs
<1>4. \A x \in P!Locations :
        mem[x] = IF e.ea_comp /\ l.is_store /\ x \in DOMAIN l.previous_mem
                 THEN l.previous_mem[x] ELSE v[x]
  BY OverIs
<1> HIDE DEF mem, u
<1>5. IsValues(u)
  BY <1>1 DEF IsValues
<1>6. ASSUME NEW x \in P!Locations \ Spared(w)
      PROVE  u[x] = before[x]
  <2>1. v[x] = after[x]
    BY DEF Agree
  <2>2. CASE x = "C"
    BY <1>1, <1>2, <2>2 DEF Saves
  <2>3. CASE x # "C" /\ e.physreg /\ x = e.regs_index
    BY <1>1, <1>2, <2>3 DEF Saves
  <2>4. CASE x # "C" /\ ~(e.physreg /\ x = e.regs_index)
             /\ e.ea_comp /\ l.is_store /\ x \in DOMAIN l.previous_mem
    BY <1>1, <1>2, <1>4, <2>4 DEF Saves
  <2>5. CASE x # "C" /\ ~(e.physreg /\ x = e.regs_index)
             /\ ~(e.ea_comp /\ l.is_store /\ x \in DOMAIN l.previous_mem)
    <3>1. x \notin Restored(e, l)
      BY <2>5 DEF Restored
    <3>2. x \notin DOMAIN e.effect
      BY <1>2, <3>1 DEF Saves
    <3>3. u[x] = mem[x]
      BY <1>1, <2>5
    <3> QED
      BY <1>3, <1>4, <2>1, <2>5, <3>2, <3>3
  <2> QED
    BY <2>2, <2>3, <2>4, <2>5
<1> QED
  BY <1>5, <1>6 DEF Agree, u

UndoneOf(e, l, i, j, u, c, d) ==
  /\ DOMAIN d = DOMAIN c /\ d.val = UndoneVal(e, l, c.val)
  /\ d.ROB = [c.ROB EXCEPT ![i] = P!NoEntry] /\ d.ROB_index = i
  /\ d.ROB_num = c.ROB_num - 1 /\ d.ROB_tail = (c.ROB_tail - 1) % u
  /\ d.ROB_head = c.ROB_head /\ d.LSQ_head = c.LSQ_head
  /\ e.ea_comp =>
       /\ d.LSQ = [c.LSQ EXCEPT ![j] = P!NoEntry] /\ d.LSQ_index = j
       /\ d.LSQ_num = c.LSQ_num - 1 /\ d.LSQ_tail = (c.LSQ_tail - 1) % u
  /\ ~e.ea_comp =>
       /\ d.LSQ = c.LSQ /\ d.LSQ_index = c.LSQ_index
       /\ d.LSQ_num = c.LSQ_num /\ d.LSQ_tail = c.LSQ_tail

LoopFields == CxtFields \cup {"ROB_index", "LSQ_index"}
LEMMA UndoneFields ==
    ASSUME NEW c, DOMAIN c = LoopFields
    PROVE  LET i == P!Prev(c.ROB_index, window.ROB)
               j == P!Prev(c.LSQ_index, window.LSQ)
           IN UndoneOf(c.ROB[i], c.LSQ[j], i, j, window.UINT, c, P!Undone(c))
<1> DEFINE i == P!Prev(c.ROB_index, window.ROB)
           j == P!Prev(c.LSQ_index, window.LSQ)
           e == c.ROB[i]
           l == c.LSQ[j]
           m == P!UndoMemory(c, e)
           d == P!UndoRegisters(m, e)
           mem == IF e.ea_comp /\ l.is_store THEN P!Over(l.previous_mem, c.val) ELSE c.val
<1>1. P!Undone(c) = d
  BY DEF P!Undone
<1>2. /\ DOMAIN m = DOMAIN c /\ m.val = mem
      /\ m.ROB = c.ROB /\ m.ROB_index = c.ROB_index /\ m.ROB_num = c.ROB_num
      /\ m.ROB_tail = c.ROB_tail /\ m.ROB_head = c.ROB_head /\ m.LSQ_head = c.LSQ_head
      /\ e.ea_comp => /\ m.LSQ = [c.LSQ EXCEPT ![j] = P!NoEntry] /\ m.LSQ_index = j
                      /\ m.LSQ_num = c.LSQ_num - 1
                      /\ m.LSQ_tail = (c.LSQ_tail - 1) % window.UINT
      /\ ~e.ea_comp => /\ m.LSQ = c.LSQ /\ m.LSQ_index = c.LSQ_index
                       /\ m.LSQ_num = c.LSQ_num /\ m.LSQ_tail = c.LSQ_tail
  <2>1. CASE ~e.ea_comp
    BY <2>1 DEF P!UndoMemory
  <2>2. CASE e.ea_comp
    <3>1. m = [c EXCEPT !.val = IF l.is_store THEN P!Over(l.previous_mem, c.val) ELSE c.val,
                        !.LSQ[j] = P!NoEntry, !.LSQ_index = j, !.LSQ_num = c.LSQ_num - 1,
                        !.LSQ_tail = (c.LSQ_tail - 1) % window.UINT]
      BY <2>2 DEF P!UndoMemory
    <3> HIDE DEF m, e, l, j
    <3> QED
      BY <2>2, <3>1 DEF LoopFields, CxtFields
  <2> QED
    BY <2>1, <2>2
<1> HIDE DEF m, mem
<1>3. P!Prev(m.ROB_index, window.ROB) = i
  BY <1>2
<1>4. d = [m EXCEPT !.val = [x \in P!Locations |->
                          IF x = "C" THEN e.regs_C
                          ELSE IF e.physreg /\ x = e.regs_index THEN e.saved ELSE m.val[x]],
               !.ROB[i] = P!NoEntry, !.ROB_index = i, !.ROB_num = m.ROB_num - 1,
               !.ROB_tail = (m.ROB_tail - 1) % window.UINT]
  BY <1>3, Zenon DEF P!UndoRegisters
<1> HIDE DEF d, e, l, i, j
<1>5. /\ DOMAIN d = DOMAIN m
      /\ d.val = [x \in P!Locations |->
                    IF x = "C" THEN e.regs_C
                    ELSE IF e.physreg /\ x = e.regs_index THEN e.saved ELSE m.val[x]]
      /\ d.ROB = [m.ROB EXCEPT ![i] = P!NoEntry] /\ d.ROB_index = i
      /\ d.ROB_num = m.ROB_num - 1 /\ d.ROB_tail = (m.ROB_tail - 1) % window.UINT
      /\ d.ROB_head = m.ROB_head /\ d.LSQ_head = m.LSQ_head /\ d.LSQ = m.LSQ
      /\ d.LSQ_index = m.LSQ_index /\ d.LSQ_num = m.LSQ_num /\ d.LSQ_tail = m.LSQ_tail
  BY <1>2, <1>4 DEF LoopFields, CxtFields
<1>6. d.val = UndoneVal(e, l, c.val)
  BY <1>2, <1>5, Zenon DEF UndoneVal, mem
<1>7. UndoneOf(e, l, i, j, window.UINT, c, d)
  BY <1>2, <1>5, <1>6 DEF UndoneOf
<1> QED
  BY <1>1, <1>7 DEF e, l, i, j
(* A squash on its way: what it makes of the context c when the first k    *)
(* entries are left.                                                       *)
Undoing(w, c, d, V, n, k) ==
  /\ DOMAIN d = LoopFields /\ IsValues(d.val) /\ Agree(w, d.val, V[k])
  /\ DOMAIN d.ROB = 0 .. w.ROB - 1 /\ DOMAIN d.LSQ = 0 .. w.LSQ - 1
  /\ d.ROB_head = c.ROB_head /\ d.LSQ_head = c.LSQ_head
  /\ d.ROB_num = k /\ d.LSQ_num = n[k]
  /\ d.ROB_index = Spot(c.ROB_head, k, w.ROB)
  /\ d.LSQ_index = Spot(c.LSQ_head, n[k], w.LSQ)
  /\ d.ROB_tail = Below(c.ROB_tail, c.ROB_num - k, w.UINT)
  /\ d.LSQ_tail = Below(c.LSQ_tail, c.LSQ_num - n[k], w.UINT)
  /\ \A i \in 1 .. k : EntryAt(w, d, i) = EntryAt(w, c, i)
  /\ \A i \in k + 1 .. w.ROB : EntryAt(w, d, i) = P!NoEntry
  /\ \A j \in 1 .. n[k] : AccessAt(w, d, j) = AccessAt(w, c, j)

LEMMA LinkAny ==
    ASSUME NEW w, NEW e, NEW l, NEW before, NEW after, NEW m, NEW n, NEW other,
           Link(w, e, l, before, after, m, n), e.ea_comp => other = l
    PROVE  Link(w, e, other, before, after, m, n)
<1>1. CASE e.ea_comp
  BY <1>1, Zenon
<1>2. CASE ~e.ea_comp
  <2>1. Restored(e, other) = Restored(e, l)
    BY <1>2 DEF Restored
  <2> QED
    BY <1>2, <2>1, Zenon DEF Link, Saves
<1> QED
  BY <1>1, <1>2

(* A history, of each entry; and the sizes.                                *)
LEMMA HistoryFacts ==
    ASSUME NEW w, IsWindow(w), NEW c, Rings(w, c), NEW com, NEW V, NEW n,
           History(w, c, com, V, n), NEW k \in 0 .. c.ROB_num
    PROVE  /\ w.ROB \in Nat \ {0} /\ w.LSQ \in Nat \ {0} /\ w.UINT \in Nat \ {0}
           /\ w.ROB < w.UINT /\ w.LSQ < w.UINT
           /\ c.ROB_num \in 0 .. w.ROB /\ c.LSQ_num \in 0 .. w.LSQ
           /\ c.ROB_head \in 0 .. w.ROB - 1 /\ c.LSQ_head \in 0 .. w.LSQ - 1
           /\ c.ROB_tail \in 0 .. w.ROB - 1 /\ c.LSQ_tail \in 0 .. w.LSQ - 1
           /\ IsValues(V[k]) /\ n[k] \in 0 .. c.LSQ_num
           /\ k # 0 =>
                LET e == EntryAt(w, c, k) IN
                /\ Link(w, e, AccessAt(w, c, n[k]), V[k - 1], V[k], n[k - 1], n[k])
                /\ IsValues(V[k - 1]) /\ n[k - 1] \in 0 .. c.LSQ_num
                /\ e.ea_comp => n[k] = n[k - 1] + 1
                /\ ~e.ea_comp => n[k] = n[k - 1]
<1>1. /\ w.ROB \in Nat \ {0} /\ w.LSQ \in Nat \ {0} /\ w.UINT \in Nat
      /\ 2 * w.ROB <= w.UINT /\ 2 * w.LSQ <= w.UINT
  BY DEF IsWindow
<1>2. /\ c.ROB_num \in 0 .. w.ROB /\ c.LSQ_num \in 0 .. w.LSQ
      /\ c.ROB_head \in 0 .. w.ROB - 1 /\ c.LSQ_head \in 0 .. w.LSQ - 1
      /\ c.ROB_tail = Spot(c.ROB_head, c.ROB_num, w.ROB)
      /\ c.LSQ_tail = Spot(c.LSQ_head, c.LSQ_num, w.LSQ)
  BY DEF Rings
<1>3. c.ROB_tail \in 0 .. w.ROB - 1 /\ c.LSQ_tail \in 0 .. w.LSQ - 1
  BY <1>1, <1>2 DEF Spot
<1>4. \A j \in 0 .. c.ROB_num : IsValues(V[j]) /\ n[j] \in 0 .. c.LSQ_num
  BY DEF History, IsValues
<1>5. CASE k # 0
  <2>1. k \in 1 .. c.ROB_num /\ k - 1 \in 0 .. c.ROB_num
    BY <1>2, <1>5
  <2> DEFINE e == EntryAt(w, c, k)
  <2>2. Link(w, e, AccessAt(w, c, n[k]), V[k - 1], V[k], n[k - 1], n[k])
    BY <2>1 DEF History
  <2> HIDE DEF e
  <2>3. n[k] = IF e.ea_comp THEN n[k - 1] + 1 ELSE n[k - 1]
    BY <2>2 DEF Link
  <2>4. /\ e.ea_comp => n[k] = n[k - 1] + 1
        /\ ~e.ea_comp => n[k] = n[k - 1]
    BY <2>3
  <2> QED
    BY <1>1, <1>2, <1>3, <1>4, <1>5, <2>1, <2>2, <2>4 DEF e
<1> QED
  BY <1>1, <1>2, <1>3, <1>4, <1>5

LEMMA UndoStarts ==
    ASSUME IsWindow(window), Rings(window, cxt), NEW V, NEW n,
           History(window, cxt, committed, V, n)
    PROVE  Undoing(window, cxt, P!Positioned, V, n, cxt.ROB_num)
<1> DEFINE d == P!Positioned
           k == cxt.ROB_num
<1>1. DOMAIN cxt = CxtFields
  BY DEF Rings
<1>2. d = [f \in CxtFields \cup {"ROB_index", "LSQ_index"} |->
            IF f = "ROB_index" THEN cxt.ROB_tail
            ELSE IF f = "LSQ_index" THEN cxt.LSQ_tail ELSE cxt[f]]
  BY <1>1 DEF P!Positioned
<1> HIDE DEF d
<1>3. /\ DOMAIN d = LoopFields /\ d.val = cxt.val /\ d.ROB = cxt.ROB /\ d.LSQ = cxt.LSQ
      /\ d.ROB_head = cxt.ROB_head /\ d.LSQ_head = cxt.LSQ_head
      /\ d.ROB_num = k /\ d.LSQ_num = cxt.LSQ_num
      /\ d.ROB_tail = cxt.ROB_tail /\ d.LSQ_tail = cxt.LSQ_tail
      /\ d.ROB_index = cxt.ROB_tail /\ d.LSQ_index = cxt.LSQ_tail
  BY <1>2 DEF LoopFields, CxtFields
<1>4. /\ IsValues(cxt.val) /\ Agree(window, cxt.val, V[k]) /\ n[k] = cxt.LSQ_num
      /\ DOMAIN cxt.ROB = 0 .. window.ROB - 1 /\ DOMAIN cxt.LSQ = 0 .. window.LSQ - 1
      /\ cxt.ROB_tail = Spot(cxt.ROB_head, k, window.ROB)
      /\ cxt.LSQ_tail = Spot(cxt.LSQ_head, n[k], window.LSQ)
      /\ \A i \in k + 1 .. window.ROB : EntryAt(window, cxt, i) = P!NoEntry
  BY DEF History, Rings, IsValues
<1>5. k \in 0 .. k /\ k \in Nat
  BY DEF Rings, IsWindow
<1>6. /\ cxt.ROB_tail \in 0 .. window.ROB - 1 /\ cxt.LSQ_tail \in 0 .. window.LSQ - 1
      /\ n[k] \in Nat /\ window.ROB \in Nat /\ window.LSQ \in Nat
  BY <1>5, HistoryFacts
<1>7. /\ Below(cxt.ROB_tail, k - k, window.UINT) = cxt.ROB_tail
      /\ Below(cxt.LSQ_tail, cxt.LSQ_num - n[k], window.UINT) = cxt.LSQ_tail
  <2>1. k - k = 0 /\ cxt.LSQ_num - n[k] = 0
    BY <1>4, <1>5, <1>6
  <2> QED
    BY <1>6, <2>1 DEF Below
<1>8. /\ \A i : EntryAt(window, d, i) = EntryAt(window, cxt, i)
      /\ \A j : AccessAt(window, d, j) = AccessAt(window, cxt, j)
  BY <1>3 DEF EntryAt, AccessAt
<1> QED
  BY <1>3, <1>4, <1>7, <1>8 DEF Undoing, d, k

LEMMA UndoingNext ==
    ASSUME IsWindow(window), NEW c, Rings(window, c), NEW com, NEW V, NEW n,
           History(window, c, com, V, n), NEW k \in 1 .. c.ROB_num,
           NEW d, Undoing(window, c, d, V, n, k)
    PROVE  Undoing(window, c, P!Undone(d), V, n, k - 1)
<1> DEFINE w == window
           z == P!Undone(d)
           i == P!Prev(d.ROB_index, w.ROB)
           j == P!Prev(d.LSQ_index, w.LSQ)
           e == d.ROB[i]
           l == d.LSQ[j]
<1>1. /\ w.ROB \in Nat \ {0} /\ w.LSQ \in Nat \ {0} /\ w.UINT \in Nat \ {0}
      /\ w.ROB < w.UINT /\ w.LSQ < w.UINT
      /\ c.ROB_num \in 0 .. w.ROB /\ c.LSQ_num \in 0 .. w.LSQ
      /\ c.ROB_head \in 0 .. w.ROB - 1 /\ c.LSQ_head \in 0 .. w.LSQ - 1
      /\ c.ROB_tail \in 0 .. w.ROB - 1 /\ c.LSQ_tail \in 0 .. w.LSQ - 1
      /\ n[k] \in 0 .. c.LSQ_num
      /\ Link(w, EntryAt(w, c, k), AccessAt(w, c, n[k]), V[k - 1], V[k], n[k - 1], n[k])
      /\ IsValues(V[k - 1]) /\ n[k - 1] \in 0 .. c.LSQ_num
      /\ EntryAt(w, c, k).ea_comp => n[k] = n[k - 1] + 1
      /\ ~EntryAt(w, c, k).ea_comp => n[k] = n[k - 1]
  <2>1. k \in 0 .. c.ROB_num /\ k # 0
    OBVIOUS
  <2> QED
    BY <2>1, HistoryFacts
<1>2. /\ DOMAIN d = LoopFields /\ IsValues(d.val) /\ Agree(w, d.val, V[k])
      /\ DOMAIN d.ROB = 0 .. w.ROB - 1 /\ DOMAIN d.LSQ = 0 .. w.LSQ - 1
      /\ d.ROB_head = c.ROB_head /\ d.LSQ_head = c.LSQ_head
      /\ d.ROB_num = k /\ d.LSQ_num = n[k]
      /\ d.ROB_index = Spot(c.ROB_head, k, w.ROB)
      /\ d.LSQ_index = Spot(c.LSQ_head, n[k], w.LSQ)
      /\ d.ROB_tail = Below(c.ROB_tail, c.ROB_num - k, w.UINT)
      /\ d.LSQ_tail = Below(c.LSQ_tail, c.LSQ_num - n[k], w.UINT)
      /\ \A a \in 1 .. k : EntryAt(w, d, a) = EntryAt(w, c, a)
      /\ \A a \in k + 1 .. w.ROB : EntryAt(w, d, a) = P!NoEntry
      /\ \A a \in 1 .. n[k] : AccessAt(w, d, a) = AccessAt(w, c, a)
  BY DEF Undoing
<1>3. UndoneOf(e, l, i, j, w.UINT, d, z)
  BY <1>2, UndoneFields
<1>4. k \in 1 .. w.ROB /\ k - 1 \in 0 .. w.ROB - 1
  BY <1>1
<1>5. i = Spot(c.ROB_head, k - 1, w.ROB) /\ i \in 0 .. w.ROB - 1
  <2>1. /\ P!Prev(Spot(c.ROB_head, k, w.ROB), w.ROB) = Spot(c.ROB_head, k - 1, w.ROB)
        /\ Spot(c.ROB_head, k - 1, w.ROB) \in 0 .. w.ROB - 1
    <3>1. w.ROB \in Nat \ {0} /\ c.ROB_head \in 0 .. w.ROB - 1 /\ k \in 1 .. w.ROB
      BY <1>1, <1>4
    <3> HIDE DEF w, i, j, e, l, z
    <3> QED
      BY <3>1, SpotBack
  <2>2. d.ROB_index = Spot(c.ROB_head, k, w.ROB)
    BY <1>2
  <2> QED
    BY <2>1, <2>2, Zenon
<1>6. e = EntryAt(w, c, k)
  <2>1. e = EntryAt(w, d, k)
    BY <1>2, <1>5 DEF EntryAt
  <2> QED
    BY <1>2, <2>1
<1>7. ASSUME e.ea_comp
      PROVE  /\ n[k] = n[k - 1] + 1 /\ n[k] \in 1 .. w.LSQ
             /\ j = Spot(c.LSQ_head, n[k] - 1, w.LSQ) /\ j \in 0 .. w.LSQ - 1
             /\ l = AccessAt(w, c, n[k])
  <2>1. n[k] = n[k - 1] + 1 /\ n[k] \in 1 .. w.LSQ /\ n[k] \in 1 .. n[k]
    BY <1>1, <1>6, <1>7
  <2>2. j = Spot(c.LSQ_head, n[k] - 1, w.LSQ) /\ j \in 0 .. w.LSQ - 1
    <3>1. /\ P!Prev(Spot(c.LSQ_head, n[k], w.LSQ), w.LSQ) = Spot(c.LSQ_head, n[k] - 1, w.LSQ)
          /\ Spot(c.LSQ_head, n[k] - 1, w.LSQ) \in 0 .. w.LSQ - 1
      <4>1. w.LSQ \in Nat \ {0} /\ c.LSQ_head \in 0 .. w.LSQ - 1 /\ n[k] \in 1 .. w.LSQ
        BY <1>1, <2>1
      <4> HIDE DEF w, i, j, e, l, z
      <4> QED
        BY <4>1, SpotBack
    <3>2. d.LSQ_index = Spot(c.LSQ_head, n[k], w.LSQ)
      BY <1>2
    <3> QED
      BY <3>1, <3>2, Zenon
  <2>3. l = AccessAt(w, d, n[k])
    BY <1>2, <2>2 DEF AccessAt
  <2> QED
    BY <1>2, <2>1, <2>2, <2>3
<1>8. Link(w, e, l, V[k - 1], V[k], n[k - 1], n[k])
  BY <1>1, <1>6, <1>7, LinkAny
<1> HIDE DEF z, i, j, e, l
<1>9. /\ DOMAIN z = LoopFields /\ z.val = UndoneVal(e, l, d.val)
      /\ z.ROB = [d.ROB EXCEPT ![i] = P!NoEntry] /\ z.ROB_index = i
      /\ z.ROB_num = k - 1 /\ z.ROB_tail = (d.ROB_tail - 1) % w.UINT
      /\ z.ROB_head = c.ROB_head /\ z.LSQ_head = c.LSQ_head
      /\ e.ea_comp =>
           /\ z.LSQ = [d.LSQ EXCEPT ![j] = P!NoEntry] /\ z.LSQ_index = j
           /\ z.LSQ_num = d.LSQ_num - 1 /\ z.LSQ_tail = (d.LSQ_tail - 1) % w.UINT
      /\ ~e.ea_comp =>
           /\ z.LSQ = d.LSQ /\ z.LSQ_index = d.LSQ_index
           /\ z.LSQ_num = d.LSQ_num /\ z.LSQ_tail = d.LSQ_tail
  BY <1>2, <1>3 DEF UndoneOf
<1>10. IsValues(z.val) /\ Agree(w, z.val, V[k - 1])
  BY <1>1, <1>2, <1>8, <1>9, UndoneAgrees
<1>11. z.ROB_tail = Below(c.ROB_tail, c.ROB_num - (k - 1), w.UINT)
  <2>1. c.ROB_num - k \in 0 .. w.UINT - 1 /\ c.ROB_tail \in 0 .. w.UINT - 1
    BY <1>1
  <2>2. (Below(c.ROB_tail, c.ROB_num - k, w.UINT) - 1) % w.UINT
          = Below(c.ROB_tail, (c.ROB_num - k) + 1, w.UINT)
    BY <1>1, <2>1, BelowNext
  <2>3. (c.ROB_num - k) + 1 = c.ROB_num - (k - 1)
    BY <1>1
  <2> QED
    BY <1>2, <1>9, <2>2, <2>3
<1>12. /\ DOMAIN z.ROB = 0 .. w.ROB - 1
       /\ \A a \in 1 .. k - 1 : EntryAt(w, z, a) = EntryAt(w, c, a)
       /\ \A a \in k .. w.ROB : EntryAt(w, z, a) = P!NoEntry
  <2>1. \A a \in 1 .. w.ROB : /\ Spot(c.ROB_head, a - 1, w.ROB) \in 0 .. w.ROB - 1
                              /\ a # k => Spot(c.ROB_head, a - 1, w.ROB) # i
    <3> SUFFICES ASSUME NEW a \in 1 .. w.ROB
                 PROVE  /\ Spot(c.ROB_head, a - 1, w.ROB) \in 0 .. w.ROB - 1
                        /\ a # k => Spot(c.ROB_head, a - 1, w.ROB) # i
      OBVIOUS
    <3>1. a - 1 \in 0 .. w.ROB - 1 /\ (a # k => a - 1 # k - 1)
      BY <1>1
    <3> QED
      BY <1>1, <1>4, <1>5, <3>1, SpotsDiffer
  <2>2. DOMAIN z.ROB = 0 .. w.ROB - 1
    BY <1>2, <1>9
  <2>3. EntryAt(w, z, k) = P!NoEntry
    <3>1. z.ROB[i] = P!NoEntry
      BY <1>2, <1>5, <1>9
    <3>2. EntryAt(w, z, k) = z.ROB[i]
      BY <1>5, <1>9, Zenon DEF EntryAt
    <3> QED
      BY <3>1, <3>2
  <2>4. \A a \in 1 .. w.ROB : a # k => EntryAt(w, z, a) = EntryAt(w, d, a)
    BY <1>2, <1>9, <2>1 DEF EntryAt
  <2>5. \A a \in 1 .. k - 1 : a \in 1 .. w.ROB /\ a # k /\ a \in 1 .. k
    BY <1>1
  <2>6. \A a \in k .. w.ROB : a = k \/ (a # k /\ a \in k + 1 .. w.ROB /\ a \in 1 .. w.ROB)
    BY <1>1
  <2> QED
    BY <1>2, <2>2, <2>3, <2>4, <2>5, <2>6
<1>13. CASE e.ea_comp
  <2>1. n[k - 1] = n[k] - 1 /\ n[k - 1] \in 0 .. w.LSQ - 1
    BY <1>1, <1>7, <1>13
  <2>2. z.LSQ_num = n[k - 1] /\ z.LSQ_index = Spot(c.LSQ_head, n[k - 1], w.LSQ)
    BY <1>2, <1>7, <1>9, <1>13, <2>1
  <2>3. z.LSQ_tail = Below(c.LSQ_tail, c.LSQ_num - n[k - 1], w.UINT)
    <3>1. c.LSQ_num - n[k] \in 0 .. w.UINT - 1 /\ c.LSQ_tail \in 0 .. w.UINT - 1
      BY <1>1
    <3>2. (Below(c.LSQ_tail, c.LSQ_num - n[k], w.UINT) - 1) % w.UINT
            = Below(c.LSQ_tail, (c.LSQ_num - n[k]) + 1, w.UINT)
      BY <1>1, <3>1, BelowNext
    <3>3. (c.LSQ_num - n[k]) + 1 = c.LSQ_num - n[k - 1]
      BY <1>1, <2>1
    <3> QED
      BY <1>2, <1>9, <1>13, <3>2, <3>3
  <2>4. \A a \in 1 .. n[k - 1] : AccessAt(w, z, a) = AccessAt(w, c, a)
    <3> SUFFICES ASSUME NEW a \in 1 .. n[k - 1] PROVE AccessAt(w, z, a) = AccessAt(w, c, a)
      OBVIOUS
    <3>1. /\ a - 1 \in 0 .. w.LSQ - 1 /\ n[k] - 1 \in 0 .. w.LSQ - 1 /\ a - 1 # n[k] - 1
          /\ a \in 1 .. n[k]
      BY <1>1, <2>1
    <3>2. /\ Spot(c.LSQ_head, a - 1, w.LSQ) # j
          /\ Spot(c.LSQ_head, a - 1, w.LSQ) \in 0 .. w.LSQ - 1
      BY <1>1, <1>7, <1>13, <3>1, SpotsDiffer
    <3>3. AccessAt(w, z, a) = AccessAt(w, d, a)
      <4> DEFINE s == Spot(c.LSQ_head, a - 1, w.LSQ)
      <4>1. z.LSQ[s] = d.LSQ[s]
        <5>1. z.LSQ = [d.LSQ EXCEPT ![j] = P!NoEntry]
          BY <1>9, <1>13
        <5>2. s \in DOMAIN d.LSQ /\ s # j
          BY <1>2, <3>2
        <5> HIDE DEF s
        <5> QED
          BY <5>1, <5>2
      <4>2. AccessAt(w, z, a) = z.LSQ[s] /\ AccessAt(w, d, a) = d.LSQ[s]
        BY <1>2, <1>9, Zenon DEF AccessAt
      <4> QED
        BY <4>1, <4>2, Zenon
    <3> QED
      BY <1>2, <3>1, <3>3
  <2>5. DOMAIN z.LSQ = 0 .. w.LSQ - 1
    BY <1>2, <1>9, <1>13
  <2>6. \A a \in (k - 1) + 1 .. w.ROB : a \in k .. w.ROB
    BY <1>4
  <2> QED
    BY <1>9, <1>10, <1>11, <1>5, <1>12, <2>2, <2>3, <2>4, <2>5, <2>6 DEF Undoing, z
<1>14. CASE ~e.ea_comp
  <2>1. n[k - 1] = n[k]
    BY <1>1, <1>6, <1>14
  <2>2. /\ z.LSQ = d.LSQ /\ z.LSQ_num = n[k - 1]
        /\ z.LSQ_index = Spot(c.LSQ_head, n[k - 1], w.LSQ)
        /\ z.LSQ_tail = Below(c.LSQ_tail, c.LSQ_num - n[k - 1], w.UINT)
    BY <1>2, <1>9, <1>14, <2>1
  <2>3. \A a \in 1 .. n[k - 1] : AccessAt(w, z, a) = AccessAt(w, c, a)
    BY <1>2, <1>9, <2>1, <2>2 DEF AccessAt
  <2>4. DOMAIN z.LSQ = 0 .. w.LSQ - 1
    BY <1>2, <2>2
  <2>5. \A a \in (k - 1) + 1 .. w.ROB : a \in k .. w.ROB
    BY <1>4
  <2> QED
    BY <1>9, <1>10, <1>11, <1>5, <1>12, <2>2, <2>3, <2>4, <2>5 DEF Undoing, z
<1> QED
  BY <1>13, <1>14
LEMMA SpotsApart ==
    ASSUME NEW n \in Nat \ {0}, NEW h \in 0 .. n - 1, NEW i \in 1 .. n, NEW j \in 1 .. i
    PROVE  (Spot(h, i - 1, n) - Spot(h, j - 1, n)) % n = i - j
<1> DEFINE p == Spot(h, i - 1, n)
           q == Spot(h, j - 1, n)
           a == p - q
<1>1. CASE h + (j - 1) < n /\ h + (i - 1) >= n
  <2>1. p = h + (i - 1) - n /\ q = h + (j - 1)
    BY <1>1 DEF Spot
  <2> HIDE DEF p, q
  <2>2. a \in Int /\ -n <= a /\ a < n + n /\ i - j = a + n /\ a < 0
    BY <1>1, <2>1
  <2> HIDE DEF a
  <2>3. a % n = a + n
    BY <2>2, ModOnce
  <2> QED
    BY <2>2, <2>3 DEF a, p, q
<1>2. CASE ~(h + (j - 1) < n /\ h + (i - 1) >= n)
  <2>1. p - q = i - j /\ p \in Int /\ q \in Int
    BY <1>2 DEF Spot
  <2> HIDE DEF p, q
  <2>2. a \in Int /\ -n <= a /\ a < n /\ i - j = a /\ a >= 0 /\ a < n + n
    BY <2>1
  <2> HIDE DEF a
  <2>3. a % n = a
    BY <2>2, ModOnce
  <2> QED
    BY <2>2, <2>3 DEF a, p, q
<1> QED
  BY <1>1, <1>2

LEMMA UndoneDown ==
    ASSUME IsWindow(window), Rings(window, cxt), NEW V, NEW n,
           History(window, cxt, committed, V, n), NEW m \in 0 .. cxt.ROB_num
    PROVE  Undoing(window, cxt, P!UndoLast(m), V, n, cxt.ROB_num - m)
<1> DEFINE units == [k \in 1 .. m |-> k]
           num == cxt.ROB_num
<1>0. num \in Nat /\ m \in Nat
  BY DEF Rings, IsWindow
<1>1. DOMAIN units = 1 .. m
  OBVIOUS
<1> HIDE DEF units
<1>2. PICK after : /\ after[0] = P!Positioned
                   /\ \A k \in 0 .. m - 1 : after[k + 1] = P!Undo(after[k], units[k + 1])
                   /\ P!UndoEach(units) = after[m]
  BY <1>0, <1>1, UndoStep
<1>3. P!UndoLast(m) = after[m]
  BY <1>2 DEF P!UndoLast, units
<1> DEFINE good == {k \in 0 .. m : Undoing(window, cxt, after[k], V, n, num - k)}
<1>4. 0 \in good
  <2>1. Undoing(window, cxt, P!Positioned, V, n, num)
    BY UndoStarts
  <2>2. num - 0 = num
    BY <1>0
  <2> QED
    BY <1>0, <1>2, <2>1, <2>2
<1>5. ASSUME NEW k \in 0 .. m - 1, k \in good PROVE k + 1 \in good
  <2>1. Undoing(window, cxt, after[k], V, n, num - k) /\ num - k \in 1 .. num
    BY <1>0, <1>5
  <2>2. Undoing(window, cxt, P!Undone(after[k]), V, n, (num - k) - 1)
    BY <2>1, UndoingNext
  <2>3. after[k + 1] = P!Undone(after[k])
    BY <1>2, Zenon DEF P!Undo
  <2>4. (num - k) - 1 = num - (k + 1) /\ k + 1 \in 0 .. m
    BY <1>0
  <2> HIDE DEF num
  <2>5. Undoing(window, cxt, after[k + 1], V, n, num - (k + 1))
    BY <2>2, <2>3, <2>4, Zenon
  <2> QED
    BY <2>4, <2>5
<1>6. m \in good
  <2>1. \A k \in 0 .. m - 1 : k \in good => k + 1 \in good
    BY <1>5
  <2> HIDE DEF good
  <2>2. 0 .. m \subseteq good
    BY <1>0, <1>4, <2>1, AllNumbers
  <2> QED
    BY <1>0, <2>2
<1> QED
  BY <1>3, <1>6

(* The context when the first k entries are left and the tails are behind  *)
(* them.                                                                   *)
LEMMA Left ==
    ASSUME NEW w, IsWindow(w), NEW c, Rings(w, c), NEW com, NEW V, NEW n,
           History(w, c, com, V, n), NEW k \in 0 .. c.ROB_num,
           NEW d, Undoing(w, c, d, V, n, k), NEW z, DOMAIN z = CxtFields,
           z.val = d.val, z.ROB = d.ROB, z.LSQ = d.LSQ,
           z.ROB_head = c.ROB_head, z.LSQ_head = c.LSQ_head,
           z.ROB_num = k, z.LSQ_num = n[k],
           z.ROB_tail = Spot(c.ROB_head, k, w.ROB), z.LSQ_tail = Spot(c.LSQ_head, n[k], w.LSQ)
    PROVE  Rings(w, z) /\ History(w, z, com, V, n)
<1>1. /\ w.ROB \in Nat \ {0} /\ w.LSQ \in Nat \ {0}
      /\ c.ROB_num \in 0 .. w.ROB /\ c.LSQ_num \in 0 .. w.LSQ
      /\ c.ROB_head \in 0 .. w.ROB - 1 /\ c.LSQ_head \in 0 .. w.LSQ - 1
      /\ n[k] \in 0 .. c.LSQ_num
  BY HistoryFacts
<1>2. /\ IsValues(d.val) /\ Agree(w, d.val, V[k])
      /\ DOMAIN d.ROB = 0 .. w.ROB - 1 /\ DOMAIN d.LSQ = 0 .. w.LSQ - 1
      /\ d.ROB_head = c.ROB_head /\ d.LSQ_head = c.LSQ_head
      /\ \A i \in 1 .. k : EntryAt(w, d, i) = EntryAt(w, c, i)
      /\ \A i \in k + 1 .. w.ROB : EntryAt(w, d, i) = P!NoEntry
      /\ \A j \in 1 .. n[k] : AccessAt(w, d, j) = AccessAt(w, c, j)
  BY DEF Undoing
<1>3. /\ \A i : EntryAt(w, z, i) = EntryAt(w, d, i)
      /\ \A j : AccessAt(w, z, j) = AccessAt(w, d, j)
  BY <1>2 DEF EntryAt, AccessAt
<1>4. Rings(w, z)
  BY <1>1, <1>2, <1>3 DEF Rings, IsValues
<1>5. \A i \in 0 .. k : i \in 0 .. c.ROB_num /\ IsValues(V[i]) /\ n[i] \in 0 .. c.LSQ_num
  BY <1>1 DEF History, IsValues
<1>6. \A i, j \in 0 .. k : i <= j => n[i] <= n[j]
  BY <1>1 DEF History
<1>7. \A i \in 0 .. k : n[i] \in 0 .. n[k]
  <2>1. \A i \in 0 .. k : n[i] <= n[k]
    BY <1>1, <1>6
  <2> QED
    BY <1>1, <1>5, <2>1
<1>8. ASSUME NEW i \in 1 .. k
      PROVE  Link(w, EntryAt(w, z, i), AccessAt(w, z, n[i]), V[i - 1], V[i], n[i - 1], n[i])
  <2> DEFINE e == EntryAt(w, c, i)
  <2>1. i \in 0 .. c.ROB_num /\ i # 0 /\ i - 1 \in 0 .. k /\ i \in 0 .. k
    BY <1>1
  <2>2. /\ Link(w, e, AccessAt(w, c, n[i]), V[i - 1], V[i], n[i - 1], n[i])
        /\ e.ea_comp => n[i] = n[i - 1] + 1
    BY <2>1, HistoryFacts
  <2>3. EntryAt(w, z, i) = e
    BY <1>2, <1>3
  <2> HIDE DEF e
  <2>4. ASSUME e.ea_comp PROVE AccessAt(w, z, n[i]) = AccessAt(w, c, n[i])
    <3>1. n[i] \in 1 .. n[k]
      BY <1>1, <1>7, <2>1, <2>2, <2>4
    <3> QED
      BY <1>2, <1>3, <3>1
  <2>5. Link(w, e, AccessAt(w, z, n[i]), V[i - 1], V[i], n[i - 1], n[i])
    BY <2>2, <2>4, LinkAny
  <2> QED
    BY <2>3, <2>5
<1>9. V[0] = com /\ n[0] = 0
  BY DEF History
<1>10. \A i \in 0 .. k : V[i] = [x \in P!Locations |-> V[i][x]]
  BY <1>5 DEF IsValues
<1>11. Agree(w, z.val, V[k])
  BY <1>2
<1>12. History(w, z, com, V, n)
  BY <1>6, <1>7, <1>8, <1>9, <1>10, <1>11 DEF History
<1> QED
  BY <1>4, <1>12

(* Where rollbackTo ends: when the entry of the branch is the last.        *)
LEMMA RolledBack ==
    ASSUME IsWindow(window), Rings(window, cxt), NEW V, NEW n,
           History(window, cxt, committed, V, n), NEW k \in 1 .. cxt.ROB_num,
           NEW slot, slot = Spot(cxt.ROB_head, k - 1, window.ROB)
    PROVE  LET z == P!rollbackTo(slot)
           IN /\ Rings(window, z) /\ History(window, z, committed, V, n)
              /\ z.ROB_num = k /\ z.ROB_head = cxt.ROB_head
<1> DEFINE w == window
           num == cxt.ROB_num
           z == P!rollbackTo(slot)
           m == (P!Prev(cxt.ROB_tail, w.ROB) - slot) % w.ROB
           d == P!UndoLast(m)
<1>1. k \in 0 .. num /\ num \in 0 .. num
  BY DEF Rings, IsWindow
<1>2. /\ w.ROB \in Nat \ {0} /\ w.LSQ \in Nat \ {0} /\ w.UINT \in Nat \ {0}
      /\ num \in 0 .. w.ROB /\ cxt.LSQ_num \in 0 .. w.LSQ
      /\ cxt.ROB_head \in 0 .. w.ROB - 1 /\ cxt.LSQ_head \in 0 .. w.LSQ - 1
      /\ n[k] \in 0 .. cxt.LSQ_num
  BY <1>1, HistoryFacts
<1>3. /\ DOMAIN cxt = CxtFields /\ 2 * w.ROB <= w.UINT /\ 2 * w.LSQ <= w.UINT
      /\ cxt.ROB_tail = Spot(cxt.ROB_head, num, w.ROB)
      /\ cxt.LSQ_tail = Spot(cxt.LSQ_head, cxt.LSQ_num, w.LSQ)
  BY DEF Rings, IsWindow
<1>4. m = num - k
  <2> DEFINE r == w.ROB
             h == cxt.ROB_head
  <2>0. num \in 1 .. r /\ k \in 1 .. num /\ h \in 0 .. r - 1 /\ r \in Nat \ {0}
    BY <1>2
  <2>1. P!Prev(cxt.ROB_tail, r) = Spot(h, num - 1, r)
    <3>1. P!Prev(Spot(h, num, r), r) = Spot(h, num - 1, r)
      <4> HIDE DEF w, num, r, h, z, d, m
      <4> QED
        BY <2>0, SpotBack
    <3> QED
      BY <1>3, <3>1, Zenon
  <2>2. m = (Spot(h, num - 1, r) - Spot(h, k - 1, r)) % r
    BY <2>1, Zenon
  <2> HIDE DEF w, num, r, h, z, d, m
  <2>3. (Spot(h, num - 1, r) - Spot(h, k - 1, r)) % r = num - k
    BY <2>0, SpotsApart
  <2> QED
    BY <2>2, <2>3, Zenon DEF h, r
<1>5. Undoing(w, cxt, d, V, n, k)
  <2>1. m \in 0 .. num /\ num - m = k
    BY <1>2, <1>4
  <2> HIDE DEF m
  <2>2. Undoing(w, cxt, d, V, n, num - m)
    BY <2>1, UndoneDown
  <2> QED
    BY <2>1, <2>2, Zenon
<1>6. /\ DOMAIN d = LoopFields
      /\ d.ROB_head = cxt.ROB_head /\ d.LSQ_head = cxt.LSQ_head
      /\ d.ROB_num = k /\ d.LSQ_num = n[k]
      /\ d.ROB_tail = Below(cxt.ROB_tail, num - k, w.UINT)
      /\ d.LSQ_tail = Below(cxt.LSQ_tail, cxt.LSQ_num - n[k], w.UINT)
  BY <1>5 DEF Undoing
<1>7. P!Repaired(d.ROB_tail, w.ROB) = Spot(cxt.ROB_head, k, w.ROB)
  <2>1. P!Repaired(Below(Spot(cxt.ROB_head, num, w.ROB), num - k, w.UINT), w.ROB)
          = Spot(cxt.ROB_head, k, w.ROB)
    BY <1>1, <1>2, <1>3, RepairedIs
  <2> QED
    BY <1>3, <1>6, <2>1, Zenon
<1>8. P!Repaired(d.LSQ_tail, w.LSQ) = Spot(cxt.LSQ_head, n[k], w.LSQ)
  <2>1. P!Repaired(Below(Spot(cxt.LSQ_head, cxt.LSQ_num, w.LSQ), cxt.LSQ_num - n[k], w.UINT),
                   w.LSQ)
          = Spot(cxt.LSQ_head, n[k], w.LSQ)
    BY <1>2, <1>3, RepairedIs
  <2> QED
    BY <1>3, <1>6, <2>1, Zenon
<1>9. z = P!Fields([d EXCEPT !.ROB_tail = P!Repaired(d.ROB_tail, w.ROB),
                             !.LSQ_tail = P!Repaired(d.LSQ_tail, w.LSQ)])
  BY DEF P!rollbackTo
<1> HIDE DEF w, z, d, m
<1>10. /\ DOMAIN z = CxtFields /\ z.val = d.val /\ z.ROB = d.ROB /\ z.LSQ = d.LSQ
       /\ z.ROB_head = d.ROB_head /\ z.LSQ_head = d.LSQ_head
       /\ z.ROB_num = d.ROB_num /\ z.LSQ_num = d.LSQ_num
       /\ z.ROB_tail = P!Repaired(d.ROB_tail, w.ROB)
       /\ z.LSQ_tail = P!Repaired(d.LSQ_tail, w.LSQ)
  BY <1>3, <1>6, <1>9 DEF P!Fields, LoopFields, CxtFields
<1>11. /\ z.ROB_head = cxt.ROB_head /\ z.LSQ_head = cxt.LSQ_head
       /\ z.ROB_num = k /\ z.LSQ_num = n[k]
       /\ z.ROB_tail = Spot(cxt.ROB_head, k, w.ROB)
       /\ z.LSQ_tail = Spot(cxt.LSQ_head, n[k], w.LSQ)
  BY <1>6, <1>7, <1>8, <1>10
<1>12. Rings(w, z) /\ History(w, z, committed, V, n)
  <2>1. IsWindow(w) /\ Rings(w, cxt) /\ History(w, cxt, committed, V, n)
    BY DEF w
  <2> QED
    BY <1>1, <1>5, <1>10, <1>11, <2>1, Left
<1> QED
  BY <1>11, <1>12 DEF w, z
(* The branch that has gone wrong is complete: nothing of what links its   *)
(* entry to the values changes.                                            *)
LEMMA LinkCompleted ==
    ASSUME NEW w, NEW e, NEW l, NEW before, NEW after, NEW m, NEW n,
           Link(w, e, l, before, after, m, n)
    PROVE  Link(w, [e EXCEPT !.completed = TRUE], l, before, after, m, n)
<1> DEFINE f == [e EXCEPT !.completed = TRUE]
<1>1. DOMAIN e = EntryFields
  BY DEF Link
<1>2. /\ DOMAIN f = EntryFields /\ f.op = e.op /\ f.ea_comp = e.ea_comp
      /\ f.physreg = e.physreg /\ f.regs_index = e.regs_index /\ f.saved = e.saved
      /\ f.regs_C = e.regs_C /\ f.effect = e.effect
  BY <1>1 DEF EntryFields
<1> HIDE DEF f
<1>3. Restored(f, l) = Restored(e, l)
  BY <1>2 DEF Restored
<1>4. Saves(w, f, l, before) = Saves(w, e, l, before)
  BY <1>2, <1>3, Zenon DEF Saves
<1>5. /\ after = P!Over(e.effect, before)
      /\ n = IF e.ea_comp THEN m + 1 ELSE m
      /\ e.ea_comp => l.op = e.op /\ l.physreg = e.physreg
      /\ Saves(w, e, l, before)
  BY DEF Link
<1>6. /\ after = P!Over(f.effect, before)
      /\ n = IF f.ea_comp THEN m + 1 ELSE m
      /\ f.ea_comp => l.op = f.op /\ l.physreg = f.physreg
      /\ Saves(w, f, l, before)
  BY <1>2, <1>4, <1>5, Zenon
<1>7. Link(w, f, l, before, after, m, n)
  BY <1>2, <1>6, Zenon DEF Link
<1> QED
  BY <1>7 DEF f

LEMMA Completed ==
    ASSUME NEW w, IsWindow(w), NEW c, Rings(w, c), NEW com, NEW V, NEW n,
           History(w, c, com, V, n), NEW k \in 1 .. c.ROB_num, NEW slot,
           slot = Spot(c.ROB_head, k - 1, w.ROB)
    PROVE  LET z == [c EXCEPT !.ROB[slot].completed = TRUE]
           IN Rings(w, z) /\ History(w, z, com, V, n)
<1> DEFINE z == [c EXCEPT !.ROB[slot].completed = TRUE]
           e == [c.ROB[slot] EXCEPT !.completed = TRUE]
<1>1. k \in 0 .. c.ROB_num /\ DOMAIN c = CxtFields
      /\ c.ROB_num \in 0 .. w.ROB /\ w.ROB \in Nat \ {0} /\ c.ROB_head \in 0 .. w.ROB - 1
  BY DEF Rings, IsWindow
<1>2. z = [c EXCEPT !.ROB = [c.ROB EXCEPT ![slot] = e]]
  OBVIOUS
<1> HIDE DEF z, e
<1>3. /\ DOMAIN z = CxtFields /\ z.val = c.val /\ z.LSQ = c.LSQ
      /\ z.ROB_head = c.ROB_head /\ z.LSQ_head = c.LSQ_head
      /\ z.ROB_num = c.ROB_num /\ z.LSQ_num = c.LSQ_num
      /\ z.ROB_tail = c.ROB_tail /\ z.LSQ_tail = c.LSQ_tail
      /\ z.ROB = [c.ROB EXCEPT ![slot] = e]
  BY <1>1, <1>2 DEF CxtFields
<1>4. slot \in 0 .. w.ROB - 1 /\ slot \in DOMAIN c.ROB /\ DOMAIN c.ROB = 0 .. w.ROB - 1
  <2>1. k - 1 \in 0 .. w.ROB - 1
    BY <1>1
  <2> QED
    BY <1>1, <2>1, SpotsDiffer DEF Rings
<1>5. ASSUME NEW i \in 1 .. w.ROB
      PROVE  /\ i # k => EntryAt(w, z, i) = EntryAt(w, c, i)
             /\ i = k => EntryAt(w, z, i) = e
  <2> DEFINE s == Spot(c.ROB_head, i - 1, w.ROB)
  <2>1. i - 1 \in 0 .. w.ROB - 1 /\ k - 1 \in 0 .. w.ROB - 1 /\ (i # k => i - 1 # k - 1)
    BY <1>1
  <2>2. s \in 0 .. w.ROB - 1 /\ (i # k => s # slot) /\ (i = k => s = slot)
    BY <1>1, <2>1, SpotsDiffer
  <2>3. EntryAt(w, z, i) = z.ROB[s] /\ EntryAt(w, c, i) = c.ROB[s]
    BY <1>3, Zenon DEF EntryAt
  <2> HIDE DEF s
  <2>4. (i # k => z.ROB[s] = c.ROB[s]) /\ (i = k => z.ROB[s] = e)
    BY <1>3, <1>4, <2>2
  <2> QED
    BY <2>3, <2>4
<1>6. \A j : AccessAt(w, z, j) = AccessAt(w, c, j)
  BY <1>3 DEF AccessAt
<1>7. EntryAt(w, c, k) = c.ROB[slot]
  BY DEF EntryAt
<1>8. Rings(w, z)
  <2>1. \A i \in c.ROB_num + 1 .. w.ROB : i \in 1 .. w.ROB /\ i # k
    BY <1>1
  <2>2. \A i \in c.ROB_num + 1 .. w.ROB : EntryAt(w, z, i) = P!NoEntry
    BY <1>5, <2>1 DEF Rings
  <2>3. DOMAIN z.ROB = 0 .. w.ROB - 1
    BY <1>3, <1>4
  <2> QED
    BY <1>3, <2>2, <2>3 DEF Rings
<1>9. ASSUME NEW i \in 1 .. c.ROB_num
      PROVE  Link(w, EntryAt(w, z, i), AccessAt(w, z, n[i]), V[i - 1], V[i], n[i - 1], n[i])
  <2>1. Link(w, EntryAt(w, c, i), AccessAt(w, c, n[i]), V[i - 1], V[i], n[i - 1], n[i])
    BY DEF History
  <2>2. i \in 1 .. w.ROB
    BY <1>1
  <2>3. CASE i # k
    BY <1>5, <1>6, <2>1, <2>2, <2>3
  <2>4. CASE i = k
    <3>1. Link(w, c.ROB[slot], AccessAt(w, c, n[i]), V[i - 1], V[i], n[i - 1], n[i])
      BY <1>7, <2>1, <2>4
    <3>2. Link(w, e, AccessAt(w, c, n[i]), V[i - 1], V[i], n[i - 1], n[i])
      BY <3>1, LinkCompleted DEF e
    <3> QED
      BY <1>5, <1>6, <2>2, <2>4, <3>2
  <2> QED
    BY <2>3, <2>4
<1>10. History(w, z, com, V, n)
  BY <1>3, <1>9 DEF History
<1> QED
  BY <1>8, <1>10 DEF z

LEMMA SameWriteback ==
    ASSUME StateInv, P!writeback
    PROVE  StateInv'
<1> DEFINE w == window
<1>1. /\ w' = w /\ committed' = committed
  BY DEF P!writeback
<1>2. PICK slot \in DOMAIN cxt.ROB :
        /\ cxt.ROB[slot] # P!NoEntry
        /\ cxt' = [P!rollbackTo(slot) EXCEPT !.ROB[slot].completed = TRUE]
  BY DEF P!writeback
<1>3. IsWindow(w) /\ Rings(w, cxt)
  BY DEF StateInv
<1>4. PICK V, n : History(w, cxt, committed, V, n)
  BY DEF StateInv
<1>5. PICK k \in 1 .. cxt.ROB_num : slot = Spot(cxt.ROB_head, k - 1, w.ROB)
  <2>1. /\ DOMAIN cxt.ROB = 0 .. w.ROB - 1 /\ w.ROB \in Nat \ {0}
        /\ cxt.ROB_head \in 0 .. w.ROB - 1 /\ cxt.ROB_num \in 0 .. w.ROB
        /\ \A i \in cxt.ROB_num + 1 .. w.ROB : EntryAt(w, cxt, i) = P!NoEntry
    BY <1>3 DEF Rings, IsWindow
  <2>2. slot \in 0 .. w.ROB - 1
    BY <2>1
  <2>3. PICK i \in 1 .. w.ROB : slot = Spot(cxt.ROB_head, i - 1, w.ROB)
    BY <2>1, <2>2, SpotOnto
  <2>4. EntryAt(w, cxt, i) # P!NoEntry
    BY <1>2, <2>3, Zenon DEF EntryAt
  <2>5. i \in 1 .. cxt.ROB_num
    BY <2>1, <2>4
  <2> QED
    BY <2>3, <2>5
<1> DEFINE z == P!rollbackTo(slot)
<1>6. /\ Rings(w, z) /\ History(w, z, committed, V, n)
      /\ z.ROB_num = k /\ z.ROB_head = cxt.ROB_head
  BY <1>3, <1>4, <1>5, RolledBack
<1> HIDE DEF z
<1>7. cxt' = [z EXCEPT !.ROB[slot].completed = TRUE]
  BY <1>2 DEF z
<1>8. k \in 1 .. z.ROB_num /\ slot = Spot(z.ROB_head, k - 1, w.ROB)
  BY <1>5, <1>6
<1> HIDE DEF w
<1>9. Rings(w, cxt') /\ History(w, cxt', committed, V, n)
  BY <1>3, <1>6, <1>7, <1>8, Completed
<1>10. IsWindow(w) /\ Rings(w, cxt') /\ \E V1, n1 : History(w, cxt', committed, V1, n1)
  BY <1>3, <1>9
<1> QED
  BY <1>1, <1>10 DEF StateInv, w

LEMMA SameFlush ==
    ASSUME StateInv, P!flushcontext
    PROVE  StateInv'
<1> DEFINE w == window
           d == P!UndoLast(cxt.ROB_num)
           z == cxt'
<1>1. /\ window' = window /\ committed' = committed
      /\ z = P!Fields([d EXCEPT !.ROB_head = 0, !.ROB_tail = 0, !.LSQ_head = 0, !.LSQ_tail = 0])
  BY DEF P!flushcontext
<1>3. IsWindow(w) /\ Rings(w, cxt)
  BY DEF StateInv
<1>4. PICK V, n : History(w, cxt, committed, V, n)
  BY DEF StateInv
<1>5. /\ w.ROB \in Nat \ {0} /\ w.LSQ \in Nat \ {0} /\ cxt.ROB_num \in 0 .. w.ROB
      /\ cxt.ROB_head \in 0 .. w.ROB - 1 /\ DOMAIN cxt = CxtFields
  BY <1>3 DEF Rings, IsWindow
<1>6. Undoing(w, cxt, d, V, n, 0)
  <2>1. cxt.ROB_num \in 0 .. cxt.ROB_num /\ cxt.ROB_num - cxt.ROB_num = 0
    BY <1>5
  <2>2. Undoing(w, cxt, d, V, n, cxt.ROB_num - cxt.ROB_num)
    BY <1>3, <1>4, <2>1, UndoneDown
  <2> QED
    BY <2>1, <2>2
<1> HIDE DEF d, z
<1>7. /\ DOMAIN d = LoopFields /\ IsValues(d.val) /\ Agree(w, d.val, V[0])
      /\ DOMAIN d.ROB = 0 .. w.ROB - 1 /\ DOMAIN d.LSQ = 0 .. w.LSQ - 1
      /\ d.ROB_head = cxt.ROB_head
      /\ d.ROB_num = 0 /\ d.LSQ_num = n[0]
      /\ \A i \in 0 + 1 .. w.ROB : EntryAt(w, d, i) = P!NoEntry
  BY <1>6 DEF Undoing
<1>8. /\ DOMAIN z = CxtFields /\ z.val = d.val /\ z.ROB = d.ROB /\ z.LSQ = d.LSQ
      /\ z.ROB_head = 0 /\ z.LSQ_head = 0 /\ z.ROB_tail = 0 /\ z.LSQ_tail = 0
      /\ z.ROB_num = d.ROB_num /\ z.LSQ_num = d.LSQ_num
  BY <1>1, <1>5, <1>7 DEF P!Fields, LoopFields, CxtFields
<1>9. /\ V[0] = committed /\ n[0] = 0 /\ IsValues(V[0])
  <2>1. 0 \in 0 .. cxt.ROB_num
    BY <1>5
  <2> QED
    BY <1>4, <2>1 DEF History, IsValues
<1>10. ASSUME NEW i \in 1 .. w.ROB PROVE EntryAt(w, z, i) = P!NoEntry
  <2> DEFINE s == Spot(0, i - 1, w.ROB)
  <2>1. s \in 0 .. w.ROB - 1
    BY <1>5 DEF Spot
  <2>2. EntryAt(w, z, i) = d.ROB[s]
    BY <1>8, Zenon DEF EntryAt
  <2> HIDE DEF s
  <2>3. PICK j \in 1 .. w.ROB : s = Spot(cxt.ROB_head, j - 1, w.ROB)
    BY <1>5, <2>1, SpotOnto
  <2>4. d.ROB[s] = EntryAt(w, d, j)
    BY <1>7, <2>3, Zenon DEF EntryAt
  <2>5. j \in 0 + 1 .. w.ROB
    OBVIOUS
  <2> QED
    BY <1>7, <2>2, <2>4, <2>5
<1>11. Rings(w, z)
  <2>1. Spot(0, 0, w.ROB) = 0 /\ Spot(0, 0, w.LSQ) = 0
    BY <1>5 DEF Spot
  <2>2. 0 \in 0 .. w.ROB - 1 /\ 0 \in 0 .. w.LSQ - 1 /\ 0 \in 0 .. w.ROB /\ 0 \in 0 .. w.LSQ
    BY <1>5
  <2>3. \A i \in z.ROB_num + 1 .. w.ROB : EntryAt(w, z, i) = P!NoEntry
    BY <1>7, <1>8, <1>10
  <2> QED
    BY <1>7, <1>8, <1>9, <2>1, <2>2, <2>3 DEF Rings, IsValues
<1>12. History(w, z, committed, V, n)
  <2>1. z.ROB_num = 0 /\ z.LSQ_num = 0 /\ Agree(w, z.val, V[0])
    BY <1>7, <1>8, <1>9
  <2>2. /\ \A k \in 0 .. z.ROB_num : k = 0
        /\ \A k \in 1 .. z.ROB_num : FALSE
    BY <2>1
  <2>3. /\ \A k \in 0 .. z.ROB_num : /\ V[k] = [x \in P!Locations |-> V[k][x]]
                                     /\ n[k] \in 0 .. z.LSQ_num
        /\ \A j, k \in 0 .. z.ROB_num : j <= k => n[j] <= n[k]
    BY <1>9, <2>1, <2>2 DEF IsValues
  <2> QED
    BY <1>9, <2>1, <2>2, <2>3 DEF History
<1>13. IsWindow(w) /\ Rings(w, z) /\ \E V1, n1 : History(w, z, committed, V1, n1)
  BY <1>3, <1>11, <1>12
<1> QED
  BY <1>1, <1>13 DEF StateInv, w, z
LEMMA SpotShift ==
    ASSUME NEW n \in Nat \ {0}, NEW h \in 0 .. n - 1, NEW q \in 0 .. 1, NEW i \in Nat, i + q <= n
    PROVE  /\ Spot(h, q, n) \in 0 .. n - 1 /\ Spot(h, i + q, n) \in 0 .. n - 1
           /\ Spot(Spot(h, q, n), i, n) = Spot(h, i + q, n)
           /\ i + q = n => Spot(h, i + q, n) = h
           /\ 0 < i + q /\ i + q < n => Spot(h, i + q, n) # h
<1>1. CASE q = 0
  BY <1>1 DEF Spot
<1>2. CASE q = 1
  BY <1>2 DEF Spot
<1> QED
  BY <1>1, <1>2

LEMMA LinkShift ==
    ASSUME NEW w, NEW e, NEW l, NEW before, NEW after, NEW m \in Int, NEW n \in Int,
           NEW q \in Int, Link(w, e, l, before, after, m, n)
    PROVE  Link(w, e, l, before, after, m - q, n - q)
<1>1. n = IF e.ea_comp THEN m + 1 ELSE m
  BY DEF Link
<1>2. n - q = IF e.ea_comp THEN (m - q) + 1 ELSE m - q
  BY <1>1
<1> QED
  BY <1>2, Zenon DEF Link

(* The first entry leaves, with its access if it has one (q of them).      *)
PoppedOf(w, c, q, z) ==
  /\ DOMAIN z = CxtFields /\ z.val = c.val
  /\ z.ROB = [c.ROB EXCEPT ![c.ROB_head] = P!NoEntry]
  /\ z.ROB_head = Spot(c.ROB_head, 1, w.ROB) /\ z.ROB_tail = c.ROB_tail
  /\ z.ROB_num = c.ROB_num - 1
  /\ z.LSQ = IF q = 1 THEN [c.LSQ EXCEPT ![c.LSQ_head] = P!NoEntry] ELSE c.LSQ
  /\ z.LSQ_head = Spot(c.LSQ_head, q, w.LSQ) /\ z.LSQ_tail = c.LSQ_tail
  /\ z.LSQ_num = c.LSQ_num - q

LEMMA Popped ==
    ASSUME NEW w, IsWindow(w), NEW c, Rings(w, c), NEW com, NEW V, NEW n,
           History(w, c, com, V, n), c.ROB_num > 0, NEW z, PoppedOf(w, c, n[1], z)
    PROVE  Rings(w, z) /\ \E U, m : History(w, z, V[1], U, m)
<1> DEFINE num == c.ROB_num
           U == [k \in 0 .. num - 1 |-> V[k + 1]]
           q == n[1]
           m == [k \in 0 .. num - 1 |-> n[k + 1] - q]
<1>0. /\ DOMAIN z = CxtFields /\ z.val = c.val
      /\ z.ROB = [c.ROB EXCEPT ![c.ROB_head] = P!NoEntry]
      /\ z.ROB_head = Spot(c.ROB_head, 1, w.ROB) /\ z.ROB_tail = c.ROB_tail
      /\ z.ROB_num = num - 1
      /\ z.LSQ = IF q = 1 THEN [c.LSQ EXCEPT ![c.LSQ_head] = P!NoEntry] ELSE c.LSQ
      /\ z.LSQ_head = Spot(c.LSQ_head, q, w.LSQ) /\ z.LSQ_tail = c.LSQ_tail
      /\ z.LSQ_num = c.LSQ_num - q
  BY DEF PoppedOf
<1>1. /\ w.ROB \in Nat \ {0} /\ w.LSQ \in Nat \ {0}
      /\ num \in 1 .. w.ROB /\ c.LSQ_num \in 0 .. w.LSQ
      /\ c.ROB_head \in 0 .. w.ROB - 1 /\ c.LSQ_head \in 0 .. w.LSQ - 1
      /\ DOMAIN c.ROB = 0 .. w.ROB - 1 /\ DOMAIN c.LSQ = 0 .. w.LSQ - 1
      /\ c.ROB_tail = Spot(c.ROB_head, num, w.ROB)
      /\ c.LSQ_tail = Spot(c.LSQ_head, c.LSQ_num, w.LSQ)
      /\ \A k \in num + 1 .. w.ROB : EntryAt(w, c, k) = P!NoEntry
  BY DEF Rings, IsWindow
<1>2. /\ n[0] = 0 /\ n[num] = c.LSQ_num
      /\ \A k \in 0 .. num : IsValues(V[k]) /\ n[k] \in 0 .. c.LSQ_num
      /\ \A j, k \in 0 .. num : j <= k => n[j] <= n[k]
      /\ Agree(w, c.val, V[num])
  BY DEF History, IsValues
<1>3. q \in 0 .. 1 /\ q \in {0, 1} /\ q <= c.LSQ_num
  <2>1. 1 \in 0 .. num /\ 1 # 0 /\ 1 - 1 = 0
    BY <1>1
  <2> DEFINE e == EntryAt(w, c, 1)
  <2>2. /\ n[1] \in 0 .. c.LSQ_num
        /\ e.ea_comp => n[1] = n[1 - 1] + 1
        /\ ~e.ea_comp => n[1] = n[1 - 1]
    BY <2>1, HistoryFacts
  <2> HIDE DEF e
  <2> QED
    BY <1>1, <1>2, <2>1, <2>2
<1> HIDE DEF num, q
<1>4. ASSUME NEW k \in 1 .. w.ROB
      PROVE  EntryAt(w, z, k) = IF k = w.ROB THEN P!NoEntry ELSE EntryAt(w, c, k + 1)
  <2> DEFINE s == Spot(Spot(c.ROB_head, 1, w.ROB), k - 1, w.ROB)
             t == Spot(c.ROB_head, k, w.ROB)
  <2>1. s = t /\ t \in 0 .. w.ROB - 1 /\ (k = w.ROB => t = c.ROB_head)
             /\ (k # w.ROB => t # c.ROB_head)
    <3> DEFINE r == w.ROB
               h == c.ROB_head
               i == k - 1
               o == 1
    <3>1. /\ r \in Nat \ {0} /\ h \in 0 .. r - 1 /\ o \in 0 .. 1 /\ i \in Nat
          /\ k = i + o /\ k <= r /\ 0 < k
      BY <1>1
    <3> HIDE DEF r, h, i, o
    <3>2. /\ Spot(h, k, r) \in 0 .. r - 1 /\ Spot(Spot(h, o, r), i, r) = Spot(h, k, r)
          /\ (k = r => Spot(h, k, r) = h) /\ (k # r => Spot(h, k, r) # h)
      <4>1. /\ Spot(h, o, r) \in 0 .. r - 1 /\ Spot(h, i + o, r) \in 0 .. r - 1
            /\ Spot(Spot(h, o, r), i, r) = Spot(h, i + o, r)
            /\ i + o = r => Spot(h, i + o, r) = h
            /\ 0 < i + o /\ i + o < r => Spot(h, i + o, r) # h
        BY <3>1, SpotShift
      <4>2. /\ Spot(h, o, r) \in 0 .. r - 1 /\ Spot(h, k, r) \in 0 .. r - 1
            /\ Spot(Spot(h, o, r), i, r) = Spot(h, k, r)
            /\ k = r => Spot(h, k, r) = h
            /\ 0 < k /\ k < r => Spot(h, k, r) # h
        BY <3>1, <4>1, Zenon
      <4> QED
        BY <3>1, <4>2
    <3> QED
      BY <3>2, Zenon DEF r, h, i, o
  <2>2. EntryAt(w, z, k) = z.ROB[s]
    BY <1>0, Zenon DEF EntryAt
  <2>3. k # w.ROB => EntryAt(w, c, k + 1) = c.ROB[t]
    <3>1. (k + 1) - 1 = k
      BY <1>1
    <3> QED
      BY <3>1, Zenon DEF EntryAt
  <2> HIDE DEF s, t
  <2>4. z.ROB[t] = IF t = c.ROB_head THEN P!NoEntry ELSE c.ROB[t]
    BY <1>0, <1>1, <2>1
  <2> QED
    BY <2>1, <2>2, <2>3, <2>4
<1>5. ASSUME NEW j \in 1 .. c.LSQ_num - q
      PROVE  AccessAt(w, z, j) = AccessAt(w, c, j + q)
  <2> DEFINE s == Spot(Spot(c.LSQ_head, q, w.LSQ), j - 1, w.LSQ)
             t == Spot(c.LSQ_head, (j + q) - 1, w.LSQ)
  <2>1. s = t /\ t \in 0 .. w.LSQ - 1 /\ (q = 1 => t # c.LSQ_head)
    <3> DEFINE r == w.LSQ
               h == c.LSQ_head
               i == j - 1
               a == (j + q) - 1
    <3>1. /\ r \in Nat \ {0} /\ h \in 0 .. r - 1 /\ q \in 0 .. 1 /\ i \in Nat
          /\ a = i + q /\ a <= r /\ a < r /\ (q = 1 => 0 < a)
      BY <1>1, <1>3
    <3> HIDE DEF r, h, i, a
    <3>2. /\ Spot(h, a, r) \in 0 .. r - 1
          /\ Spot(Spot(h, q, r), i, r) = Spot(h, a, r)
          /\ q = 1 => Spot(h, a, r) # h
      <4>1. /\ Spot(h, q, r) \in 0 .. r - 1 /\ Spot(h, i + q, r) \in 0 .. r - 1
            /\ Spot(Spot(h, q, r), i, r) = Spot(h, i + q, r)
            /\ i + q = r => Spot(h, i + q, r) = h
            /\ 0 < i + q /\ i + q < r => Spot(h, i + q, r) # h
        BY <3>1, SpotShift
      <4>2. /\ Spot(h, q, r) \in 0 .. r - 1 /\ Spot(h, a, r) \in 0 .. r - 1
            /\ Spot(Spot(h, q, r), i, r) = Spot(h, a, r)
            /\ a = r => Spot(h, a, r) = h
            /\ 0 < a /\ a < r => Spot(h, a, r) # h
        BY <3>1, <4>1, Zenon
      <4> QED
        BY <3>1, <4>2
    <3> QED
      BY <3>2, Zenon DEF r, h, i, a
  <2>2. AccessAt(w, z, j) = z.LSQ[s]
    BY <1>0, Zenon DEF AccessAt
  <2>3. AccessAt(w, c, j + q) = c.LSQ[t]
    BY <1>0, Zenon DEF AccessAt
  <2> HIDE DEF s, t
  <2>4. z.LSQ[t] = c.LSQ[t]
    BY <1>0, <1>1, <1>3, <2>1
  <2> QED
    BY <2>1, <2>2, <2>3, <2>4
<1>6. Rings(w, z)
  <2>1. /\ z.ROB_head \in 0 .. w.ROB - 1 /\ z.ROB_num \in 0 .. w.ROB
        /\ Spot(Spot(c.ROB_head, 1, w.ROB), num - 1, w.ROB) = Spot(c.ROB_head, num, w.ROB)
    <3> DEFINE r == w.ROB
               h == c.ROB_head
               i == num - 1
               o == 1
    <3>1. /\ r \in Nat \ {0} /\ h \in 0 .. r - 1 /\ o \in 0 .. 1 /\ i \in Nat
          /\ num = i + o /\ num <= r /\ i \in 0 .. r
      BY <1>1
    <3>2. z.ROB_num = i /\ z.ROB_head = Spot(h, o, r)
      BY <1>0
    <3> HIDE DEF r, h, i, o
    <3>3. Spot(h, o, r) \in 0 .. r - 1 /\ Spot(Spot(h, o, r), i, r) = Spot(h, num, r)
      <4>1. /\ Spot(h, o, r) \in 0 .. r - 1 /\ Spot(h, i + o, r) \in 0 .. r - 1
            /\ Spot(Spot(h, o, r), i, r) = Spot(h, i + o, r)
            /\ i + o = r => Spot(h, i + o, r) = h
            /\ 0 < i + o /\ i + o < r => Spot(h, i + o, r) # h
        BY <3>1, SpotShift
      <4>2. /\ Spot(h, o, r) \in 0 .. r - 1 /\ Spot(h, num, r) \in 0 .. r - 1
            /\ Spot(Spot(h, o, r), i, r) = Spot(h, num, r)
            /\ num = r => Spot(h, num, r) = h
            /\ 0 < num /\ num < r => Spot(h, num, r) # h
        BY <3>1, <4>1, Zenon
      <4> QED
        BY <3>1, <4>2
    <3> QED
      BY <3>1, <3>2, <3>3, Zenon DEF r, h, i, o
  <2>2. /\ z.LSQ_head \in 0 .. w.LSQ - 1 /\ z.LSQ_num \in 0 .. w.LSQ
        /\ Spot(Spot(c.LSQ_head, q, w.LSQ), c.LSQ_num - q, w.LSQ)
             = Spot(c.LSQ_head, c.LSQ_num, w.LSQ)
    <3> DEFINE r == w.LSQ
               h == c.LSQ_head
               i == c.LSQ_num - q
               t == c.LSQ_num
    <3>1. /\ r \in Nat \ {0} /\ h \in 0 .. r - 1 /\ q \in 0 .. 1 /\ i \in Nat
          /\ t = i + q /\ t <= r /\ i \in 0 .. r
      BY <1>1, <1>3
    <3>2. z.LSQ_num = i /\ z.LSQ_head = Spot(h, q, r)
      BY <1>0
    <3> HIDE DEF r, h, i, t
    <3>3. Spot(h, q, r) \in 0 .. r - 1 /\ Spot(Spot(h, q, r), i, r) = Spot(h, t, r)
      <4>1. /\ Spot(h, q, r) \in 0 .. r - 1 /\ Spot(h, i + q, r) \in 0 .. r - 1
            /\ Spot(Spot(h, q, r), i, r) = Spot(h, i + q, r)
            /\ i + q = r => Spot(h, i + q, r) = h
            /\ 0 < i + q /\ i + q < r => Spot(h, i + q, r) # h
        BY <3>1, SpotShift
      <4>2. /\ Spot(h, q, r) \in 0 .. r - 1 /\ Spot(h, t, r) \in 0 .. r - 1
            /\ Spot(Spot(h, q, r), i, r) = Spot(h, t, r)
            /\ t = r => Spot(h, t, r) = h
            /\ 0 < t /\ t < r => Spot(h, t, r) # h
        BY <3>1, <4>1, Zenon
      <4> QED
        BY <3>1, <4>2
    <3> QED
      BY <3>1, <3>2, <3>3, Zenon DEF r, h, i, t
  <2>3. z.ROB_tail = Spot(z.ROB_head, z.ROB_num, w.ROB)
    BY <1>0, <1>1, <2>1
  <2>4. z.LSQ_tail = Spot(z.LSQ_head, z.LSQ_num, w.LSQ)
    BY <1>0, <1>1, <2>2
  <2>5. DOMAIN z.ROB = 0 .. w.ROB - 1 /\ DOMAIN z.LSQ = 0 .. w.LSQ - 1
    BY <1>0, <1>1
  <2>6. \A k \in z.ROB_num + 1 .. w.ROB :
          k \in 1 .. w.ROB /\ (k # w.ROB => k + 1 \in num + 1 .. w.ROB)
    BY <1>0, <1>1
  <2>7. \A k \in z.ROB_num + 1 .. w.ROB : EntryAt(w, z, k) = P!NoEntry
    BY <1>0, <1>1, <1>4, <2>6
  <2>8. z.val = [x \in P!Locations |-> z.val[x]]
    BY <1>0 DEF Rings
  <2> QED
    BY <2>1, <2>2, <2>3, <2>4, <2>5, <2>7, <2>8, <1>0 DEF Rings
<1>7. z.ROB_num = num - 1 /\ num \in Nat \ {0}
  BY <1>0, <1>1
<1>8. \A k \in 0 .. num - 1 : /\ k + 1 \in 0 .. num /\ 1 \in 0 .. num /\ 1 <= k + 1
                              /\ U[k] = V[k + 1] /\ m[k] = n[k + 1] - q
  BY <1>7
<1> HIDE DEF U, m
<1>9. ASSUME NEW k \in 0 .. num - 1 PROVE IsValues(U[k]) /\ m[k] \in 0 .. c.LSQ_num - q
  <2>1. q <= n[k + 1] /\ n[k + 1] \in 0 .. c.LSQ_num /\ q \in 0 .. 1
    BY <1>2, <1>3, <1>8 DEF q
  <2>2. m[k] \in 0 .. c.LSQ_num - q
    <3> DEFINE a == n[k + 1]
               b == c.LSQ_num
    <3>1. m[k] = a - q /\ a \in 0 .. b /\ q <= a /\ q \in 0 .. 1 /\ b \in Nat
      BY <1>1, <1>8, <2>1
    <3> HIDE DEF a, b
    <3>2. m[k] \in 0 .. b - q
      BY <3>1
    <3> QED
      BY <3>2 DEF b
  <2>3. IsValues(U[k])
    BY <1>2, <1>8
  <2> QED
    BY <2>2, <2>3
<1>10. ASSUME NEW j \in 0 .. num - 1, NEW k \in 0 .. num - 1, j <= k PROVE m[j] <= m[k]
  <2>1. j + 1 <= k + 1
    BY <1>7, <1>10
  <2>2. n[j + 1] <= n[k + 1] /\ n[j + 1] \in Int /\ n[k + 1] \in Int
    BY <1>2, <1>8, <2>1
  <2> QED
    BY <1>3, <1>8, <2>2
<1>11. U[0] = V[1] /\ m[0] = 0 /\ m[num - 1] = c.LSQ_num - q /\ Agree(w, z.val, U[num - 1])
  <2>1. 0 \in 0 .. num - 1 /\ num - 1 \in 0 .. num - 1 /\ 0 + 1 = 1 /\ (num - 1) + 1 = num
    BY <1>7
  <2>2. /\ U[0] = V[1] /\ m[0] = n[1] - q
        /\ U[num - 1] = V[num] /\ m[num - 1] = n[num] - q
    <3>1. /\ U[0] = V[0 + 1] /\ m[0] = n[0 + 1] - q
          /\ U[num - 1] = V[(num - 1) + 1] /\ m[num - 1] = n[(num - 1) + 1] - q
      BY <1>8, <2>1
    <3> QED
      BY <2>1, <3>1, Zenon
  <2> QED
    BY <1>0, <1>2, <1>3, <2>2 DEF q
<1>12. ASSUME NEW k \in 1 .. num - 1
       PROVE  Link(w, EntryAt(w, z, k), AccessAt(w, z, m[k]), U[k - 1], U[k], m[k - 1], m[k])
  <2> DEFINE e == EntryAt(w, c, k + 1)
             a == n[k + 1]
             b == n[k]
  <2>1. /\ k + 1 \in 1 .. num /\ (k + 1) - 1 = k /\ k - 1 \in 0 .. num - 1 /\ (k - 1) + 1 = k
        /\ k \in 0 .. num - 1 /\ k \in 1 .. w.ROB /\ k # w.ROB
        /\ k + 1 \in 0 .. c.ROB_num /\ k + 1 # 0 /\ k \in 0 .. num
    <3> DEFINE r == w.ROB
    <3>1. num \in 1 .. r /\ r \in Nat \ {0} /\ k \in 1 .. num - 1
      BY <1>1 DEF num
    <3> HIDE DEF r, e, a, b
    <3>2. /\ k + 1 \in 1 .. num /\ (k + 1) - 1 = k /\ k - 1 \in 0 .. num - 1 /\ (k - 1) + 1 = k
          /\ k \in 0 .. num - 1 /\ k \in 1 .. r /\ k # r
          /\ k + 1 \in 0 .. num /\ k + 1 # 0 /\ k \in 0 .. num
      BY <3>1
    <3> QED
      BY <3>2, Zenon DEF r, num
  <2>2. /\ Link(w, e, AccessAt(w, c, a), V[(k + 1) - 1], V[k + 1], n[(k + 1) - 1], a)
        /\ e.ea_comp => a = n[(k + 1) - 1] + 1
    BY <2>1, HistoryFacts
  <2>3. Link(w, e, AccessAt(w, c, a), V[k], V[k + 1], b, a) /\ (e.ea_comp => a = b + 1)
    <3> HIDE DEF e
    <3> QED
      BY <2>1, <2>2, Zenon
  <2>4. a \in 0 .. c.LSQ_num /\ b \in 0 .. c.LSQ_num /\ q <= b
    <3>1. 1 \in 0 .. num /\ 1 <= k
      BY <1>7
    <3>2. n[1] <= n[k]
      BY <1>2, <2>1, <3>1
    <3> QED
      BY <1>2, <2>1, <3>2 DEF q
  <2>5. EntryAt(w, z, k) = e
    BY <1>4, <2>1
  <2>6. U[k - 1] = V[k] /\ U[k] = V[k + 1] /\ m[k - 1] = b - q /\ m[k] = a - q
    <3>1. /\ U[k - 1] = V[(k - 1) + 1] /\ m[k - 1] = n[(k - 1) + 1] - q
          /\ U[k] = V[k + 1] /\ m[k] = n[k + 1] - q
      BY <1>8, <2>1
    <3> QED
      BY <2>1, <3>1, Zenon
  <2> HIDE DEF e, a, b
  <2>7. e.ea_comp => AccessAt(w, z, a - q) = AccessAt(w, c, a)
    <3> SUFFICES ASSUME e.ea_comp PROVE AccessAt(w, z, a - q) = AccessAt(w, c, a)
      OBVIOUS
    <3>1. a - q \in 1 .. c.LSQ_num - q /\ (a - q) + q = a
      <4>1. a = b + 1
        BY <2>3
      <4> DEFINE p == c.LSQ_num
      <4>2. p \in Nat /\ a \in 0 .. p /\ b \in 0 .. p /\ q <= b /\ q \in 0 .. 1
        BY <1>1, <1>3, <2>4
      <4> HIDE DEF p
      <4>3. a - q \in 1 .. p - q /\ (a - q) + q = a
        BY <4>1, <4>2
      <4> QED
        BY <4>3, Zenon DEF p
    <3>2. AccessAt(w, z, a - q) = AccessAt(w, c, (a - q) + q)
      BY <1>5, <3>1
    <3> QED
      BY <3>1, <3>2, Zenon
  <2>8. Link(w, e, AccessAt(w, z, a - q), V[k], V[k + 1], b, a)
    BY <2>3, <2>7, LinkAny
  <2>9. a \in Int /\ b \in Int /\ q \in Int
    BY <1>3, <2>4
  <2>10. Link(w, e, AccessAt(w, z, a - q), V[k], V[k + 1], b - q, a - q)
    BY <2>8, <2>9, LinkShift
  <2> QED
    BY <2>5, <2>6, <2>10, Zenon
<1>13. History(w, z, V[1], U, m)
  <2>1. \A k \in 0 .. z.ROB_num : /\ U[k] = [x \in P!Locations |-> U[k][x]]
                                  /\ m[k] \in 0 .. z.LSQ_num
    BY <1>0, <1>7, <1>9 DEF IsValues
  <2>2. \A j, k \in 0 .. z.ROB_num : j <= k => m[j] <= m[k]
    BY <1>7, <1>10
  <2>3. \A k \in 1 .. z.ROB_num :
          Link(w, EntryAt(w, z, k), AccessAt(w, z, m[k]), U[k - 1], U[k], m[k - 1], m[k])
    BY <1>7, <1>12
  <2>4. U[0] = V[1] /\ m[0] = 0 /\ m[z.ROB_num] = z.LSQ_num /\ Agree(w, z.val, U[z.ROB_num])
    BY <1>0, <1>7, <1>11
  <2> QED
    BY <2>1, <2>2, <2>3, <2>4, Zenon DEF History
<1> QED
  BY <1>6, <1>13

LEMMA SameCommit ==
    ASSUME StateInv, P!commit
    PROVE  StateInv'
<1> DEFINE w == window
           c == cxt
           z == cxt'
           e == c.ROB[c.ROB_head]
           popped == [cxt EXCEPT !.ROB[cxt.ROB_head] = P!NoEntry,
                                 !.ROB_head = (@ + 1) % window.ROB, !.ROB_num = @ - 1]
<1>1. /\ window' = window /\ c.ROB_num > 0
      /\ z = IF e.ea_comp
             THEN [popped EXCEPT !.LSQ[cxt.LSQ_head] = P!NoEntry,
                                 !.LSQ_head = (@ + 1) % window.LSQ, !.LSQ_num = @ - 1]
             ELSE popped
      /\ committed' = P!Over(e.effect, committed)
  BY DEF P!commit
<1>3. IsWindow(w) /\ Rings(w, c)
  BY DEF StateInv
<1>4. PICK V, n : History(w, c, committed, V, n)
  BY DEF StateInv
<1>5. /\ w.ROB \in Nat \ {0} /\ w.LSQ \in Nat \ {0} /\ c.ROB_num \in 0 .. w.ROB
      /\ c.ROB_head \in 0 .. w.ROB - 1 /\ c.LSQ_head \in 0 .. w.LSQ - 1
      /\ DOMAIN c = CxtFields
  BY <1>3 DEF Rings, IsWindow
<1>6. e = EntryAt(w, c, 1)
  <2>1. Spot(c.ROB_head, 1 - 1, w.ROB) = c.ROB_head
    BY <1>5 DEF Spot
  <2> QED
    BY <2>1, Zenon DEF EntryAt
<1>7. /\ n[1] = IF e.ea_comp THEN 1 ELSE 0
      /\ V[1] = P!Over(e.effect, committed)
  <2>1. 1 \in 0 .. c.ROB_num /\ 1 # 0 /\ 1 - 1 = 0
    BY <1>1, <1>5
  <2>2. /\ Link(w, EntryAt(w, c, 1), AccessAt(w, c, n[1]), V[1 - 1], V[1], n[1 - 1], n[1])
        /\ EntryAt(w, c, 1).ea_comp => n[1] = n[1 - 1] + 1
        /\ ~EntryAt(w, c, 1).ea_comp => n[1] = n[1 - 1]
    BY <1>3, <1>4, <2>1, HistoryFacts
  <2>3. V[0] = committed /\ n[0] = 0
    BY <1>4 DEF History
  <2> HIDE DEF e
  <2>4. V[1] = P!Over(e.effect, V[0])
    BY <1>6, <2>1, <2>2, Zenon DEF Link
  <2> QED
    BY <1>6, <2>1, <2>2, <2>3, <2>4
<1>8. /\ (c.ROB_head + 1) % w.ROB = Spot(c.ROB_head, 1, w.ROB)
      /\ (c.LSQ_head + 1) % w.LSQ = Spot(c.LSQ_head, 1, w.LSQ)
      /\ Spot(c.LSQ_head, 0, w.LSQ) = c.LSQ_head
  <2>1. 1 \in 0 .. w.ROB /\ 1 \in 0 .. w.LSQ
    BY <1>5
  <2>2. Spot(c.LSQ_head, 0, w.LSQ) = c.LSQ_head
    BY <1>5 DEF Spot
  <2> HIDE DEF w, c
  <2> QED
    BY <1>5, <2>1, <2>2, ModSmall
<1>9. /\ DOMAIN popped = CxtFields /\ popped.val = c.val
      /\ popped.ROB = [c.ROB EXCEPT ![c.ROB_head] = P!NoEntry]
      /\ popped.ROB_head = (c.ROB_head + 1) % w.ROB /\ popped.ROB_tail = c.ROB_tail
      /\ popped.ROB_num = c.ROB_num - 1
      /\ popped.LSQ = c.LSQ /\ popped.LSQ_head = c.LSQ_head /\ popped.LSQ_tail = c.LSQ_tail
      /\ popped.LSQ_num = c.LSQ_num
  BY <1>5 DEF CxtFields
<1> HIDE DEF z, e, popped
<1>10. CASE e.ea_comp
  <2>1. n[1] = 1
    BY <1>7, <1>10
  <2>2. z = [popped EXCEPT !.LSQ[cxt.LSQ_head] = P!NoEntry,
                           !.LSQ_head = (@ + 1) % window.LSQ, !.LSQ_num = @ - 1]
    BY <1>1, <1>10
  <2>3. /\ DOMAIN z = CxtFields /\ z.val = c.val
        /\ z.ROB = [c.ROB EXCEPT ![c.ROB_head] = P!NoEntry]
        /\ z.ROB_head = (c.ROB_head + 1) % w.ROB /\ z.ROB_tail = c.ROB_tail
        /\ z.ROB_num = c.ROB_num - 1
        /\ z.LSQ = [c.LSQ EXCEPT ![c.LSQ_head] = P!NoEntry]
        /\ z.LSQ_head = (c.LSQ_head + 1) % w.LSQ /\ z.LSQ_tail = c.LSQ_tail
        /\ z.LSQ_num = c.LSQ_num - 1
    BY <1>9, <2>2 DEF CxtFields
  <2> HIDE DEF w, c
  <2>4. Rings(w, z) /\ \E U, m : History(w, z, V[1], U, m)
    <3>1. PoppedOf(w, c, 1, z)
      BY <1>8, <2>3, Zenon DEF PoppedOf
    <3>2. PoppedOf(w, c, n[1], z)
      BY <2>1, <3>1, Zenon
    <3> QED
      BY <1>1, <1>3, <1>4, <3>2, Popped
  <2> QED
    BY <1>1, <1>3, <1>7, <2>4 DEF StateInv, w, z
<1>11. CASE ~e.ea_comp
  <2>1. n[1] = 0
    BY <1>7, <1>11
  <2>2. z = popped
    BY <1>1, <1>11
  <2> HIDE DEF w, c
  <2>3. c.LSQ_num - 0 = c.LSQ_num
    BY <1>3 DEF Rings, IsWindow
  <2>4. Rings(w, z) /\ \E U, m : History(w, z, V[1], U, m)
    <3>1. PoppedOf(w, c, 0, z)
      <4>1. /\ DOMAIN z = CxtFields /\ z.val = c.val
            /\ z.ROB = [c.ROB EXCEPT ![c.ROB_head] = P!NoEntry]
            /\ z.ROB_head = Spot(c.ROB_head, 1, w.ROB) /\ z.ROB_tail = c.ROB_tail
            /\ z.ROB_num = c.ROB_num - 1
            /\ z.LSQ = IF 0 = 1 THEN [c.LSQ EXCEPT ![c.LSQ_head] = P!NoEntry] ELSE c.LSQ
            /\ z.LSQ_head = Spot(c.LSQ_head, 0, w.LSQ) /\ z.LSQ_tail = c.LSQ_tail
            /\ z.LSQ_num = c.LSQ_num - 0
        BY <1>8, <1>9, <2>2, <2>3
      <4> QED
        BY <4>1, Zenon DEF PoppedOf
    <3>2. PoppedOf(w, c, n[1], z)
      BY <2>1, <3>1, Zenon
    <3> QED
      BY <1>1, <1>3, <1>4, <3>2, Popped
  <2> QED
    BY <1>1, <1>3, <1>7, <2>4 DEF StateInv, w, z
<1> QED
  BY <1>10, <1>11
(* An entry e arrives, and its access l if it has one.                     *)
PushedOf(w, c, e, l, z) ==
  /\ DOMAIN z = CxtFields
  /\ z.ROB = [c.ROB EXCEPT ![c.ROB_tail] = e]
  /\ z.ROB_head = c.ROB_head /\ z.ROB_tail = Spot(c.ROB_tail, 1, w.ROB)
  /\ z.ROB_num = c.ROB_num + 1
  /\ z.LSQ_head = c.LSQ_head
  /\ e.ea_comp => /\ z.LSQ = [c.LSQ EXCEPT ![c.LSQ_tail] = l]
                  /\ z.LSQ_tail = Spot(c.LSQ_tail, 1, w.LSQ)
                  /\ z.LSQ_num = c.LSQ_num + 1
  /\ ~e.ea_comp => z.LSQ = c.LSQ /\ z.LSQ_tail = c.LSQ_tail /\ z.LSQ_num = c.LSQ_num

LEMMA Pushed ==
    ASSUME NEW w, IsWindow(w), NEW c, Rings(w, c), NEW com, NEW V, NEW n,
           History(w, c, com, V, n), c.ROB_num < w.ROB, c.LSQ_num < w.LSQ,
           NEW e, NEW l, NEW z, PushedOf(w, c, e, l, z), NEW after,
           Link(w, e, l, V[c.ROB_num], after, c.LSQ_num, z.LSQ_num),
           IsValues(after), IsValues(z.val), Agree(w, z.val, after)
    PROVE  Rings(w, z) /\ \E U, m : History(w, z, com, U, m)
<1> DEFINE num == c.ROB_num
           lnum == c.LSQ_num
           rob == w.ROB
           lsq == w.LSQ
           U == [k \in 0 .. num + 1 |-> IF k = num + 1 THEN after ELSE V[k]]
           m == [k \in 0 .. num + 1 |-> IF k = num + 1 THEN z.LSQ_num ELSE n[k]]
<1>0. /\ DOMAIN z = CxtFields
      /\ z.ROB = [c.ROB EXCEPT ![c.ROB_tail] = e]
      /\ z.ROB_head = c.ROB_head /\ z.ROB_tail = Spot(c.ROB_tail, 1, rob)
      /\ z.ROB_num = num + 1
      /\ z.LSQ_head = c.LSQ_head
      /\ e.ea_comp => /\ z.LSQ = [c.LSQ EXCEPT ![c.LSQ_tail] = l]
                      /\ z.LSQ_tail = Spot(c.LSQ_tail, 1, lsq)
                      /\ z.LSQ_num = lnum + 1
      /\ ~e.ea_comp => z.LSQ = c.LSQ /\ z.LSQ_tail = c.LSQ_tail /\ z.LSQ_num = lnum
  BY DEF PushedOf
<1>1. /\ rob \in Nat \ {0} /\ lsq \in Nat \ {0}
      /\ num \in 0 .. rob - 1 /\ lnum \in 0 .. lsq - 1
      /\ c.ROB_head \in 0 .. rob - 1 /\ c.LSQ_head \in 0 .. lsq - 1
      /\ DOMAIN c.ROB = 0 .. rob - 1 /\ DOMAIN c.LSQ = 0 .. lsq - 1
      /\ c.ROB_tail = Spot(c.ROB_head, num, rob)
      /\ c.LSQ_tail = Spot(c.LSQ_head, lnum, lsq)
      /\ \A k \in num + 1 .. rob : EntryAt(w, c, k) = P!NoEntry
  BY DEF Rings, IsWindow
<1>2. /\ V[0] = com /\ n[0] = 0 /\ n[num] = lnum
      /\ \A k \in 0 .. num : IsValues(V[k]) /\ n[k] \in 0 .. lnum
      /\ \A j, k \in 0 .. num : j <= k => n[j] <= n[k]
  BY DEF History, IsValues
<1>3. Link(w, e, l, V[num], after, n[num], z.LSQ_num)
  BY <1>2
<1> HIDE DEF num, lnum, rob, lsq
<1>4. ASSUME NEW k \in 1 .. rob
      PROVE  EntryAt(w, z, k) = IF k = num + 1 THEN e ELSE EntryAt(w, c, k)
  <2> DEFINE s == Spot(c.ROB_head, k - 1, rob)
  <2>1. k - 1 \in 0 .. rob - 1 /\ (k # num + 1 => k - 1 # num) /\ (k = num + 1 => k - 1 = num)
    BY <1>1
  <2>2. /\ s \in 0 .. rob - 1 /\ (k # num + 1 => s # c.ROB_tail)
        /\ (k = num + 1 => s = c.ROB_tail)
    BY <1>1, <2>1, SpotsDiffer
  <2>3. EntryAt(w, z, k) = z.ROB[s] /\ EntryAt(w, c, k) = c.ROB[s]
    BY <1>0, Zenon DEF EntryAt, rob
  <2> HIDE DEF s
  <2>4. z.ROB[s] = IF s = c.ROB_tail THEN e ELSE c.ROB[s]
    BY <1>0, <1>1, <2>2
  <2> QED
    BY <2>2, <2>3, <2>4
<1>5. ASSUME NEW j \in 1 .. lnum PROVE AccessAt(w, z, j) = AccessAt(w, c, j)
  <2> DEFINE s == Spot(c.LSQ_head, j - 1, lsq)
  <2>1. j - 1 \in 0 .. lsq - 1 /\ j - 1 # lnum
    BY <1>1
  <2>2. s \in 0 .. lsq - 1 /\ s # c.LSQ_tail
    BY <1>1, <2>1, SpotsDiffer
  <2>3. AccessAt(w, z, j) = z.LSQ[s] /\ AccessAt(w, c, j) = c.LSQ[s]
    BY <1>0, Zenon DEF AccessAt, lsq
  <2> HIDE DEF s
  <2>4. z.LSQ[s] = c.LSQ[s]
    BY <1>0, <1>1, <2>2
  <2> QED
    BY <2>3, <2>4
<1>6. ASSUME e.ea_comp PROVE AccessAt(w, z, z.LSQ_num) = l
  <2>1. z.LSQ_num - 1 = lnum
    BY <1>0, <1>1, <1>6
  <2>2. AccessAt(w, z, z.LSQ_num) = z.LSQ[c.LSQ_tail]
    BY <1>0, <1>1, <2>1, Zenon DEF AccessAt, lsq
  <2>3. c.LSQ_tail \in DOMAIN c.LSQ
    BY <1>1, SpotsDiffer
  <2> QED
    BY <1>0, <1>6, <2>2, <2>3
<1>7. Rings(w, z)
  <2>1. z.ROB_tail = Spot(c.ROB_head, num + 1, rob)
    <3>1. Spot(Spot(c.ROB_head, num, rob), 1, rob) = Spot(c.ROB_head, num + 1, rob)
      BY <1>1, SpotNext
    <3> QED
      BY <1>0, <1>1, <3>1, Zenon
  <2>2. z.LSQ_tail = Spot(c.LSQ_head, z.LSQ_num, lsq)
    <3>1. CASE e.ea_comp
      <4>1. Spot(Spot(c.LSQ_head, lnum, lsq), 1, lsq) = Spot(c.LSQ_head, lnum + 1, lsq)
        BY <1>1, SpotNext
      <4> QED
        BY <1>0, <1>1, <3>1, <4>1, Zenon
    <3>2. CASE ~e.ea_comp
      BY <1>0, <1>1, <3>2, Zenon
    <3> QED
      BY <3>1, <3>2
  <2>3. z.ROB_num \in 0 .. rob /\ z.LSQ_num \in 0 .. lsq
    BY <1>0, <1>1
  <2>4. DOMAIN z.ROB = 0 .. rob - 1 /\ DOMAIN z.LSQ = 0 .. lsq - 1
    BY <1>0, <1>1
  <2>5. \A k \in z.ROB_num + 1 .. rob : k \in 1 .. rob /\ k # num + 1 /\ k \in num + 1 .. rob
    BY <1>0, <1>1
  <2>6. \A k \in z.ROB_num + 1 .. rob : EntryAt(w, z, k) = P!NoEntry
    BY <1>1, <1>4, <2>5
  <2>7. z.val = [x \in P!Locations |-> z.val[x]]
    BY DEF IsValues
  <2> QED
    BY <1>0, <1>1, <2>1, <2>2, <2>3, <2>4, <2>6, <2>7 DEF Rings, rob, lsq
<1>8. z.ROB_num = num + 1 /\ num \in Nat /\ z.LSQ_num \in {lnum, lnum + 1} /\ lnum \in Nat
  BY <1>0, <1>1
<1>9. /\ \A k \in 0 .. num : U[k] = V[k] /\ m[k] = n[k]
      /\ U[num + 1] = after /\ m[num + 1] = z.LSQ_num
  BY <1>8
<1> HIDE DEF U, m
<1>10. ASSUME NEW k \in 0 .. num + 1 PROVE IsValues(U[k]) /\ m[k] \in 0 .. z.LSQ_num
  <2>1. CASE k = num + 1
    BY <1>8, <1>9, <2>1
  <2>2. CASE k # num + 1
    <3>1. k \in 0 .. num
      BY <1>8, <2>2
    <3>2. n[k] \in 0 .. lnum /\ IsValues(V[k]) /\ U[k] = V[k] /\ m[k] = n[k]
      BY <1>2, <1>9, <3>1
    <3> QED
      BY <1>8, <3>2
  <2> QED
    BY <2>1, <2>2
<1>11. ASSUME NEW j \in 0 .. num + 1, NEW k \in 0 .. num + 1, j <= k PROVE m[j] <= m[k]
  <2>1. CASE k = num + 1
    <3>1. m[j] \in 0 .. z.LSQ_num
      BY <1>10
    <3> QED
      BY <1>8, <1>9, <2>1, <3>1
  <2>2. CASE k # num + 1
    <3>1. j \in 0 .. num /\ k \in 0 .. num
      BY <1>8, <1>11, <2>2
    <3> QED
      BY <1>2, <1>9, <1>11, <3>1
  <2> QED
    BY <2>1, <2>2
<1>12. ASSUME NEW k \in 1 .. num + 1
       PROVE  Link(w, EntryAt(w, z, k), AccessAt(w, z, m[k]), U[k - 1], U[k], m[k - 1], m[k])
  <2>0. k \in 1 .. rob /\ k - 1 \in 0 .. num
    BY <1>1, <1>8
  <2>1. CASE k = num + 1
    <3>1. /\ EntryAt(w, z, k) = e /\ m[k] = z.LSQ_num /\ U[k] = after
          /\ k - 1 = num /\ U[num] = V[num] /\ m[num] = n[num]
      BY <1>4, <1>8, <1>9, <2>0, <2>1
    <3>2. Link(w, e, AccessAt(w, z, z.LSQ_num), V[num], after, n[num], z.LSQ_num)
      BY <1>3, <1>6, LinkAny
    <3> QED
      BY <3>1, <3>2, Zenon
  <2>2. CASE k # num + 1
    <3>1. k \in 1 .. num /\ k \in 0 .. num /\ k # 0
      BY <1>8, <2>2
    <3> DEFINE f == EntryAt(w, c, k)
    <3>2. /\ Link(w, f, AccessAt(w, c, n[k]), V[k - 1], V[k], n[k - 1], n[k])
          /\ f.ea_comp => n[k] = n[k - 1] + 1
      BY <3>1, HistoryFacts DEF num
    <3>3. EntryAt(w, z, k) = f
      BY <1>4, <2>0, <2>2
    <3> HIDE DEF f
    <3>4. f.ea_comp => AccessAt(w, z, n[k]) = AccessAt(w, c, n[k])
      <4>1. f.ea_comp => n[k] \in 1 .. lnum
        BY <1>2, <2>0, <3>1, <3>2
      <4> QED
        BY <1>5, <4>1
    <3>5. Link(w, f, AccessAt(w, z, n[k]), V[k - 1], V[k], n[k - 1], n[k])
      BY <3>2, <3>4, LinkAny
    <3>6. U[k] = V[k] /\ m[k] = n[k] /\ U[k - 1] = V[k - 1] /\ m[k - 1] = n[k - 1]
      BY <1>9, <2>0, <3>1
    <3> QED
      BY <3>3, <3>5, <3>6, Zenon
  <2> QED
    BY <2>1, <2>2
<1>13. History(w, z, com, U, m)
  <2>1. \A k \in 0 .. z.ROB_num : /\ U[k] = [x \in P!Locations |-> U[k][x]]
                                  /\ m[k] \in 0 .. z.LSQ_num
    BY <1>0, <1>10 DEF IsValues
  <2>2. \A j, k \in 0 .. z.ROB_num : j <= k => m[j] <= m[k]
    BY <1>0, <1>11
  <2>3. \A k \in 1 .. z.ROB_num :
          Link(w, EntryAt(w, z, k), AccessAt(w, z, m[k]), U[k - 1], U[k], m[k - 1], m[k])
    BY <1>0, <1>12
  <2>4. U[0] = com /\ m[0] = 0
    <3>1. 0 \in 0 .. num
      BY <1>8
    <3> QED
      BY <1>2, <1>9, <3>1
  <2>5. m[z.ROB_num] = z.LSQ_num /\ Agree(w, z.val, U[z.ROB_num])
    BY <1>0, <1>9
  <2> QED
    BY <2>1, <2>2, <2>3, <2>4, <2>5, Zenon DEF History
<1> QED
  BY <1>7, <1>13

(* What the table of opcodes says: a register that an instruction writes   *)
(* is that of its destination, or one saved with every entry, or lost; and *)
(* what writes memory is a store.                                          *)
OpSaves(op, o) ==
  /\ o.out1 \subseteq {"R", "F", "C"} /\ o.span \subseteq {"lo", "hi"}
  /\ o.span # {} => "F_MEM" \in o.flags /\ "F_STORE" \in o.flags
  /\ \A x \in o.out1 : \/ x = "C"
                       \/ x = "R" /\ o.dest = "REG_INT"
                       \/ x = "F" /\ o.dest = "REG_FP"
                       \/ x = "F" /\ op = "mf_fpcr"
  /\ op = "stl_c" => o.dest = "REG_INT" /\ "F_MEM" \in o.flags
  /\ op = "callsys" => o.dest = "REG_NONE" /\ o.flags = {"F_TRAP"}

LEMMA OpFacts ==
    ASSUME NEW op \in Opcodes
    PROVE  OpSaves(op, P!get_reg_set[op])
<1>1. \/ op \in {"add", "branch", "jsr", "wruniq", "callsys"}
      \/ op \in {"addt", "mt_fpcr", "mf_fpcr"}
      \/ op \in {"ldl", "ldl_l", "stl", "stq", "stl_c"}
  BY DEF Opcodes
<1>2. CASE op \in {"add", "branch", "jsr", "wruniq", "callsys"}
  <2>1. P!get_reg_set[op] = P!IntOps[op]
    BY <1>2 DEF P!get_reg_set, P!IntOps
  <2>2. OpSaves(op, P!IntOps[op])
    BY <1>2 DEF P!IntOps, P!Opcode, OpSaves
  <2> QED
    BY <2>1, <2>2
<1>3. CASE op \in {"addt", "mt_fpcr", "mf_fpcr"}
  <2>1. P!get_reg_set[op] = P!FloatOps[op]
    BY <1>3 DEF P!get_reg_set, P!IntOps, P!FloatOps
  <2>2. OpSaves(op, P!FloatOps[op])
    BY <1>3 DEF P!FloatOps, P!Opcode, OpSaves
  <2> QED
    BY <2>1, <2>2
<1>4. CASE op \in {"ldl", "ldl_l", "stl", "stq", "stl_c"}
  <2>1. P!get_reg_set[op] = P!MemOps[op]
    BY <1>4 DEF P!get_reg_set, P!IntOps, P!FloatOps, P!MemOps
  <2>2. OpSaves(op, P!MemOps[op])
    BY <1>4 DEF P!MemOps, P!Opcode, OpSaves
  <2> QED
    BY <2>1, <2>2
<1> QED
  BY <1>1, <1>2, <1>3, <1>4
(* What register_rename makes of the context.                              *)
Renaming(c, e, l, written) ==
  LET inrob == P!WithRob([c EXCEPT !.val = P!Over(written, @)], e)
  IN IF e.ea_comp THEN P!WithLsq(inrob, l) ELSE inrob

LEMMA RenamingIs ==
    ASSUME IsWindow(window), NEW c, Rings(window, c), NEW e, NEW l, NEW written
    PROVE  LET z == Renaming(c, e, l, written)
           IN PushedOf(window, c, e, l, z) /\ z.val = P!Over(written, c.val)
<1> DEFINE w == window
           a == [c EXCEPT !.val = P!Over(written, c.val)]
           b == P!WithRob(a, e)
           z == Renaming(c, e, l, written)
<1>1. /\ w.ROB \in Nat \ {0} /\ w.LSQ \in Nat \ {0} /\ DOMAIN c = CxtFields
      /\ c.ROB_head \in 0 .. w.ROB - 1 /\ c.LSQ_head \in 0 .. w.LSQ - 1
      /\ c.ROB_num \in 0 .. w.ROB /\ c.LSQ_num \in 0 .. w.LSQ
      /\ c.ROB_tail = Spot(c.ROB_head, c.ROB_num, w.ROB)
      /\ c.LSQ_tail = Spot(c.LSQ_head, c.LSQ_num, w.LSQ)
  BY DEF Rings, IsWindow
<1>2. /\ (c.ROB_tail + 1) % w.ROB = Spot(c.ROB_tail, 1, w.ROB)
      /\ (c.LSQ_tail + 1) % w.LSQ = Spot(c.LSQ_tail, 1, w.LSQ)
  <2>1. c.ROB_tail \in 0 .. w.ROB - 1 /\ c.LSQ_tail \in 0 .. w.LSQ - 1
    BY <1>1 DEF Spot
  <2>2. 1 \in 0 .. w.ROB /\ 1 \in 0 .. w.LSQ
    BY <1>1
  <2> HIDE DEF w
  <2> QED
    BY <1>1, <2>1, <2>2, ModSmall
<1>3. /\ DOMAIN a = CxtFields /\ a.val = P!Over(written, c.val) /\ a.ROB = c.ROB
      /\ a.ROB_head = c.ROB_head /\ a.ROB_tail = c.ROB_tail /\ a.ROB_num = c.ROB_num
      /\ a.LSQ = c.LSQ /\ a.LSQ_head = c.LSQ_head /\ a.LSQ_tail = c.LSQ_tail
      /\ a.LSQ_num = c.LSQ_num
  BY <1>1 DEF CxtFields
<1> HIDE DEF a
<1>4. b = [a EXCEPT !.ROB[a.ROB_tail] = e, !.ROB_tail = (@ + 1) % w.ROB, !.ROB_num = @ + 1]
  BY DEF P!WithRob
<1> HIDE DEF b
<1>5. /\ DOMAIN b = CxtFields /\ b.val = P!Over(written, c.val)
      /\ b.ROB = [c.ROB EXCEPT ![c.ROB_tail] = e]
      /\ b.ROB_head = c.ROB_head /\ b.ROB_tail = (c.ROB_tail + 1) % w.ROB
      /\ b.ROB_num = c.ROB_num + 1
      /\ b.LSQ = c.LSQ /\ b.LSQ_head = c.LSQ_head /\ b.LSQ_tail = c.LSQ_tail
      /\ b.LSQ_num = c.LSQ_num
  BY <1>3, <1>4 DEF CxtFields
<1>6. z = IF e.ea_comp THEN P!WithLsq(b, l) ELSE b
  BY DEF Renaming, a, b
<1> HIDE DEF z
<1>7. CASE e.ea_comp
  <2>1. z = [b EXCEPT !.LSQ[b.LSQ_tail] = l, !.LSQ_tail = (@ + 1) % w.LSQ, !.LSQ_num = @ + 1]
    BY <1>6, <1>7 DEF P!WithLsq
  <2>2. /\ DOMAIN z = CxtFields /\ z.val = b.val /\ z.ROB = b.ROB
        /\ z.ROB_head = b.ROB_head /\ z.ROB_tail = b.ROB_tail /\ z.ROB_num = b.ROB_num
        /\ z.LSQ = [c.LSQ EXCEPT ![c.LSQ_tail] = l] /\ z.LSQ_head = b.LSQ_head
        /\ z.LSQ_tail = (c.LSQ_tail + 1) % w.LSQ /\ z.LSQ_num = c.LSQ_num + 1
    BY <1>5, <2>1 DEF CxtFields
  <2> QED
    BY <1>2, <1>5, <1>7, <2>2 DEF PushedOf, z
<1>8. CASE ~e.ea_comp
  <2>1. z = b
    BY <1>6, <1>8
  <2> QED
    BY <1>2, <1>5, <1>8, <2>1 DEF PushedOf, z
<1> QED
  BY <1>7, <1>8

(* An instruction renamed leaves in its entries what takes it back.        *)
LEMMA RenamedSaves ==
    ASSUME NEW w, NEW op \in Opcodes, op \in w.Ops, NEW fault \in BOOLEAN, NEW mispredicted,
           IsValues(cxt.val), NEW before, IsValues(before), Agree(w, cxt.val, before),
           NEW num \in Nat
    PROVE  LET effect == P!Effect(op, fault, renamed + 1)
               e == P!RobEntry(op, mispredicted, effect)
           IN e.effect = effect
              /\ Link(w, e, P!LsqEntry(op), before, P!Over(effect, before), num,
                   IF e.ea_comp THEN num + 1 ELSE num)
<1> DEFINE o == P!get_reg_set[op]
           effect == P!Effect(op, fault, renamed + 1)
           index == IF o.dest = "REG_INT" THEN "R" ELSE "F"
           e == P!RobEntry(op, mispredicted, effect)
           l == P!LsqEntry(op)
           at == IF P!Succeeds(op) THEN o.span ELSE {"null"}
           s == P!Succeeds(op)
<1>1. OpSaves(op, o)
  BY OpFacts
<1>2. /\ DOMAIN e = EntryFields /\ e.op = op /\ e.ea_comp = ("F_MEM" \in o.flags)
      /\ e.physreg = (o.dest # "REG_NONE") /\ e.regs_index = index
      /\ e.saved = cxt.val[index] /\ e.regs_C = cxt.val["C"] /\ e.effect = effect
  BY Zenon DEF P!RobEntry, EntryFields
<1>3. /\ l.op = op /\ l.is_store = ("F_STORE" \in o.flags)
      /\ l.physreg = (o.dest # "REG_NONE")
      /\ l.previous_mem = [x \in at |-> IF x = "null" THEN cxt.val["lo"] ELSE cxt.val[x]]
  BY DEF P!LsqEntry
<1>4. DOMAIN effect \subseteq o.out1 \cup (IF s THEN o.span ELSE {})
                              \cup (IF op = "stl_c" THEN {"R"} ELSE {})
  BY DEF P!Effect
<1> HIDE DEF o, effect, e, l, s
<1>5. \A x \in {"R", "F", "C", "lo", "hi"} \ Spared(w) : cxt.val[x] = before[x]
  BY DEF Agree, P!Locations, P!Registers, P!Words
<1>6. "C" \notin Spared(w)
  BY DEF Spared
<1>7. DOMAIN l.previous_mem = at /\ at \subseteq {"null", "lo", "hi"}
  BY <1>1, <1>3 DEF OpSaves
<1>8. \A x \in DOMAIN effect \ Spared(w) : x \in Restored(e, l)
  <2> SUFFICES ASSUME NEW x \in DOMAIN effect, x \notin Spared(w) PROVE x \in Restored(e, l)
    OBVIOUS
  <2>1. CASE x = "C"
    BY <2>1 DEF Restored
  <2>2. CASE x = "R" /\ o.dest = "REG_INT"
    BY <1>2, <2>2 DEF Restored
  <2>3. CASE x = "F" /\ o.dest = "REG_FP"
    BY <1>2, <2>3 DEF Restored
  <2>4. CASE x = "F" /\ op = "mf_fpcr"
    BY <2>4 DEF Spared
  <2>5. CASE op = "stl_c" /\ x = "R"
    BY <1>1, <2>2, <2>5 DEF OpSaves
  <2>6. CASE s /\ x \in o.span
    <3>1. e.ea_comp /\ l.is_store /\ x \in DOMAIN l.previous_mem
      BY <1>1, <1>2, <1>3, <1>7, <2>6 DEF OpSaves, s
    <3> QED
      BY <3>1 DEF Restored
  <2>7. x \in o.out1 \/ (s /\ x \in o.span) \/ (op = "stl_c" /\ x = "R")
    BY <1>4
  <2> QED
    BY <1>1, <2>1, <2>2, <2>3, <2>4, <2>5, <2>6, <2>7 DEF OpSaves
<1>9. Saves(w, e, l, before)
  <2>1. e.regs_C = before["C"] /\ e.regs_index \in {"R", "F"}
    BY <1>2, <1>5, <1>6
  <2>2. e.regs_index \notin Spared(w) => e.saved = before[e.regs_index]
    BY <1>2, <1>5, <2>1
  <2>3. DOMAIN l.previous_mem \subseteq P!Words
    BY <1>7 DEF P!Words
  <2>4. \A x \in DOMAIN l.previous_mem \ Spared(w) : l.previous_mem[x] = before[x]
    <3> SUFFICES ASSUME NEW x \in DOMAIN l.previous_mem, x \notin Spared(w)
                 PROVE  l.previous_mem[x] = before[x]
      OBVIOUS
    <3>1. x # "null"
      BY DEF Spared
    <3>2. x \in {"lo", "hi"} /\ x \in at
      BY <1>7, <3>1
    <3>3. l.previous_mem[x] = cxt.val[x]
      BY <1>3, <3>1, <3>2
    <3> QED
      BY <1>5, <3>2, <3>3
  <2> QED
    BY <1>8, <1>2, <2>1, <2>2, <2>3, <2>4 DEF Saves
<1>10. Link(w, e, l, before, P!Over(effect, before), num, IF e.ea_comp THEN num + 1 ELSE num)
  BY <1>2, <1>3, <1>9, Zenon DEF Link
<1> QED
  BY <1>2, <1>10 DEF e, l, effect

LEMMA OverAgrees ==
    ASSUME NEW w, NEW written, NEW u, IsValues(u), NEW v, IsValues(v), Agree(w, u, v)
    PROVE  Agree(w, P!Over(written, u), P!Over(written, v))
<1>1. \A x \in P!Locations :
        P!Over(written, u)[x] = IF x \in DOMAIN written THEN written[x] ELSE u[x]
  BY OverIs
<1>2. \A x \in P!Locations :
        P!Over(written, v)[x] = IF x \in DOMAIN written THEN written[x] ELSE v[x]
  BY OverIs
<1> QED
  BY <1>1, <1>2 DEF Agree

LEMMA SameRename ==
    ASSUME StateInv, NEW op \in window.Ops, NEW fault \in BOOLEAN, NEW mispredicted,
           P!register_rename(op, fault, mispredicted)
    PROVE  StateInv'
<1> DEFINE w == window
           effect == P!Effect(op, fault, renamed + 1)
           e == P!RobEntry(op, mispredicted, effect)
           l == P!LsqEntry(op)
           z == Renaming(cxt, e, l, effect)
<1>1. window' = window /\ committed' = committed
  BY DEF P!register_rename
<1>2. cxt.ROB_num < w.ROB /\ cxt.LSQ_num < w.LSQ
  BY DEF P!register_rename, P!CanRename
<1>3. IsWindow(w) /\ Rings(w, cxt) /\ op \in Opcodes
  BY DEF StateInv, IsWindow
<1>4. PICK V, n : History(w, cxt, committed, V, n)
  BY DEF StateInv
<1>5. cxt' = z
  <2>1. cxt' = IF "F_MEM" \in P!get_reg_set[op].flags
               THEN P!WithLsq(P!WithRob([cxt EXCEPT !.val = P!Over(effect, @)], e), l)
               ELSE P!WithRob([cxt EXCEPT !.val = P!Over(effect, @)], e)
    BY DEF P!register_rename
  <2>2. e.ea_comp = ("F_MEM" \in P!get_reg_set[op].flags)
    BY DEF P!RobEntry
  <2> HIDE DEF e, l, effect
  <2> QED
    BY <2>1, <2>2 DEF Renaming
<1> DEFINE num == cxt.ROB_num
           before == V[num]
           lnum == cxt.LSQ_num
<1>6. /\ IsValues(cxt.val) /\ IsValues(before) /\ Agree(w, cxt.val, before) /\ lnum \in Nat
  <2>1. num \in 0 .. num
    BY <1>3 DEF Rings, IsWindow
  <2>2. V[num] = [x \in P!Locations |-> V[num][x]] /\ Agree(w, cxt.val, V[num])
    BY <1>4, <2>1 DEF History
  <2>3. cxt.val = [x \in P!Locations |-> cxt.val[x]]
    BY <1>3 DEF Rings
  <2>4. lnum \in Nat
    BY <1>3 DEF Rings, IsWindow
  <2> QED
    BY <2>2, <2>3, <2>4 DEF IsValues
<1>7. /\ e.effect = effect
      /\ Link(w, e, l, before, P!Over(effect, before), lnum, IF e.ea_comp THEN lnum + 1 ELSE lnum)
  <2> HIDE DEF before, lnum
  <2> QED
    BY <1>3, <1>6, RenamedSaves
<1> HIDE DEF effect, e, l, z
<1>8. PushedOf(w, cxt, e, l, z) /\ z.val = P!Over(effect, cxt.val)
  BY <1>3, RenamingIs DEF z
<1>9. z.LSQ_num = IF e.ea_comp THEN lnum + 1 ELSE lnum
  BY <1>8 DEF PushedOf
<1> DEFINE after == P!Over(effect, before)
<1>10. IsValues(after) /\ IsValues(z.val) /\ Agree(w, z.val, after)
  <2> HIDE DEF before
  <2> QED
    BY <1>6, <1>8, OverIs, OverAgrees
<1>11. Link(w, e, l, V[cxt.ROB_num], after, cxt.LSQ_num, z.LSQ_num)
  BY <1>7, <1>9, Zenon
<1> HIDE DEF after, w
<1>12. Rings(w, z) /\ \E U, m : History(w, z, committed, U, m)
  BY <1>2, <1>3, <1>4, <1>8, <1>10, <1>11, Pushed
<1> QED
  BY <1>1, <1>3, <1>5, <1>12 DEF StateInv, w
LEMMA SameTrap ==
    ASSUME StateInv, P!Trap
    PROVE  StateInv'
<1> DEFINE w == window
           e == P!RobEntry("callsys", FALSE, <<>>)
           l == P!NoEntry
<1>1. window' = window /\ "callsys" \in w.Ops /\ P!CanRename("callsys")
  BY DEF P!Trap
<1>2. PICK written \in {{"R"}, {"R", "lo", "hi"}} :
        /\ cxt' = P!WithRob([cxt EXCEPT !.val = P!Over([x \in written |-> renamed + 1], @)], e)
        /\ committed' = P!Over([x \in written |-> renamed + 1], committed)
  BY DEF P!Trap
<1> DEFINE effect == [x \in written |-> renamed + 1]
           z == Renaming(cxt, e, l, effect)
           com == P!Over(effect, committed)
           c == [cxt EXCEPT !.val = P!Over(effect, cxt.val)]
           after == P!Over(<<>>, com)
<1>3. IsWindow(w) /\ Rings(w, cxt) /\ "callsys" \in Opcodes
  BY <1>1 DEF StateInv, IsWindow
<1>4. PICK V, n : History(w, cxt, committed, V, n)
  BY DEF StateInv
<1>5. OpSaves("callsys", P!get_reg_set["callsys"])
  BY <1>3, OpFacts
<1>6. /\ P!get_reg_set["callsys"].flags = {"F_TRAP"}
      /\ P!get_reg_set["callsys"].dest = "REG_NONE"
  BY <1>5 DEF OpSaves
<1>7. /\ cxt.ROB_num = 0 /\ cxt.ROB_num < w.ROB /\ cxt.LSQ_num < w.LSQ
      /\ cxt.LSQ_num = 0 /\ DOMAIN cxt = CxtFields
      /\ IsValues(cxt.val) /\ IsValues(committed) /\ Agree(w, cxt.val, committed)
  <2>1. cxt.ROB_num = 0 /\ cxt.ROB_num < w.ROB /\ cxt.LSQ_num < w.LSQ
    BY <1>1, <1>6 DEF P!CanRename
  <2>2. V[0] = committed /\ n[0] = 0 /\ n[0] = cxt.LSQ_num
    BY <1>4, <2>1 DEF History
  <2>3. V[0] = [x \in P!Locations |-> V[0][x]] /\ Agree(w, cxt.val, V[0])
    BY <1>4, <2>1 DEF History
  <2>4. cxt.val = [x \in P!Locations |-> cxt.val[x]] /\ DOMAIN cxt = CxtFields
    BY <1>3 DEF Rings
  <2> QED
    BY <2>1, <2>2, <2>3, <2>4 DEF IsValues
<1>8. /\ DOMAIN e = EntryFields /\ ~e.ea_comp /\ ~e.physreg
      /\ e.regs_C = cxt.val["C"] /\ e.effect = <<>>
  BY <1>6 DEF P!RobEntry, EntryFields
<1>9. cxt' = z
  <2> HIDE DEF e
  <2> QED
    BY <1>2, <1>8 DEF Renaming
<1>10. committed' = com
  BY <1>2
<1>11. DOMAIN effect = written /\ "C" \notin DOMAIN effect
  BY <1>2
<1> HIDE DEF e, l, z, effect
<1>12. PushedOf(w, cxt, e, l, z) /\ z.val = P!Over(effect, cxt.val)
  BY <1>3, RenamingIs DEF z
<1>13. /\ DOMAIN c = CxtFields /\ c.val = P!Over(effect, cxt.val) /\ c.ROB = cxt.ROB
       /\ c.LSQ = cxt.LSQ /\ c.ROB_head = cxt.ROB_head /\ c.ROB_tail = cxt.ROB_tail
       /\ c.ROB_num = cxt.ROB_num /\ c.LSQ_head = cxt.LSQ_head
       /\ c.LSQ_tail = cxt.LSQ_tail /\ c.LSQ_num = cxt.LSQ_num
  BY <1>7 DEF CxtFields
<1>14. IsValues(com) /\ IsValues(P!Over(effect, cxt.val))
  BY <1>7, OverIs
<1>15. Agree(w, c.val, com)
  BY <1>7, <1>13, OverAgrees
<1>16. IsValues(after) /\ Agree(w, z.val, after)
  <2> HIDE DEF com
  <2>1. DOMAIN <<>> = {}
    OBVIOUS
  <2>2. IsValues(after) /\ \A x \in P!Locations : after[x] = com[x]
    BY <1>14, <2>1, OverIs
  <2> QED
    BY <1>12, <1>13, <1>15, <2>2 DEF Agree
<1>17. e.regs_C = com["C"]
  <2>1. "C" \in P!Locations /\ "C" \notin Spared(w)
    BY DEF Spared, P!Locations, P!Registers
  <2>2. com["C"] = committed["C"]
    BY <1>7, <1>11, <2>1, OverIs
  <2> QED
    BY <1>7, <1>8, <2>1, <2>2 DEF Agree
<1> HIDE DEF c, com, w
<1> DEFINE U == [k \in {0} |-> com]
           m == [k \in {0} |-> 0]
<1>18. Rings(w, c)
  <2>1. \A k : EntryAt(w, c, k) = EntryAt(w, cxt, k)
    BY <1>13 DEF EntryAt
  <2>2. c.val = [x \in P!Locations |-> c.val[x]]
    BY <1>13, <1>14 DEF IsValues
  <2> QED
    BY <1>3, <1>13, <2>1, <2>2 DEF Rings
<1>19. U[0] = com /\ m[0] = 0 /\ \A k \in 0 .. 0 : k = 0
  OBVIOUS
<1> HIDE DEF U, m
<1>20. History(w, c, com, U, m)
  <2>1. c.ROB_num = 0 /\ c.LSQ_num = 0
    BY <1>7, <1>13
  <2>2. \A k \in 1 .. c.ROB_num : FALSE
    BY <2>1
  <2>3. \A k \in 0 .. c.ROB_num : /\ U[k] = [x \in P!Locations |-> U[k][x]]
                                  /\ m[k] \in 0 .. c.LSQ_num
    BY <1>14, <1>19, <2>1 DEF IsValues
  <2>4. \A j, k \in 0 .. c.ROB_num : j <= k => m[j] <= m[k]
    BY <1>19, <2>1
  <2> QED
    BY <1>15, <1>19, <2>1, <2>2, <2>3, <2>4 DEF History
<1>21. PushedOf(w, c, e, l, z)
  BY <1>12, <1>13, Zenon DEF PushedOf
<1>22. z.LSQ_num = 0 /\ c.LSQ_num = 0 /\ c.ROB_num = 0
  BY <1>7, <1>8, <1>12, <1>13 DEF PushedOf
<1>23. Link(w, e, l, U[c.ROB_num], after, c.LSQ_num, z.LSQ_num)
  <2>1. Saves(w, e, l, com)
    <3>1. DOMAIN e.effect = {}
      BY <1>8
    <3> QED
      BY <1>8, <1>17, <3>1 DEF Saves
  <2>2. after = P!Over(e.effect, com)
    BY <1>8
  <2> HIDE DEF after
  <2>3. Link(w, e, l, com, after, 0, 0)
    BY <1>8, <2>1, <2>2 DEF Link
  <2> QED
    BY <1>19, <1>22, <2>3
<1>24. c.ROB_num < w.ROB /\ c.LSQ_num < w.LSQ
  BY <1>7, <1>13
<1> HIDE DEF after
<1>25. Rings(w, z) /\ \E U1, m1 : History(w, z, com, U1, m1)
  <2>1. IsValues(z.val)
    BY <1>12, <1>14
  <2> QED
    BY <1>3, <1>16, <1>18, <1>20, <1>21, <1>23, <1>24, <2>1, Pushed
<1> QED
  BY <1>1, <1>3, <1>9, <1>10, <1>25 DEF StateInv, w

LEMMA InitState ==
    ASSUME P!Init
    PROVE  StateInv
<1> DEFINE w == window
           V == [k \in {0} |-> committed]
           n == [k \in {0} |-> 0]
<1>1. IsWindow(w)
  BY WindowsAssumption DEF P!Init
<1>2. /\ w.ROB \in Nat \ {0} /\ w.LSQ \in Nat \ {0}
  BY <1>1 DEF IsWindow
<1>3. /\ DOMAIN cxt = CxtFields /\ cxt.val = [x \in P!Locations |-> 0]
      /\ cxt.ROB = [i \in 0 .. w.ROB - 1 |-> P!NoEntry]
      /\ cxt.LSQ = [i \in 0 .. w.LSQ - 1 |-> P!NoEntry]
      /\ cxt.ROB_head = 0 /\ cxt.ROB_tail = 0 /\ cxt.ROB_num = 0
      /\ cxt.LSQ_head = 0 /\ cxt.LSQ_tail = 0 /\ cxt.LSQ_num = 0
      /\ committed = cxt.val
  BY DEF P!Init, CxtFields
<1>4. IsValues(cxt.val)
  BY <1>3 DEF IsValues
<1>5. Rings(w, cxt)
  <2>1. Spot(0, 0, w.ROB) = 0 /\ Spot(0, 0, w.LSQ) = 0
    BY <1>2 DEF Spot
  <2>2. \A k \in 0 + 1 .. w.ROB : EntryAt(w, cxt, k) = P!NoEntry
    <3> SUFFICES ASSUME NEW k \in 1 .. w.ROB PROVE EntryAt(w, cxt, k) = P!NoEntry
      OBVIOUS
    <3>1. Spot(0, k - 1, w.ROB) \in 0 .. w.ROB - 1
      BY <1>2 DEF Spot
    <3> QED
      BY <1>3, <3>1 DEF EntryAt
  <2>3. /\ 0 \in 0 .. w.ROB - 1 /\ 0 \in 0 .. w.LSQ - 1 /\ 0 \in 0 .. w.ROB /\ 0 \in 0 .. w.LSQ
        /\ DOMAIN cxt.ROB = 0 .. w.ROB - 1 /\ DOMAIN cxt.LSQ = 0 .. w.LSQ - 1
    BY <1>2, <1>3
  <2> QED
    BY <1>3, <1>4, <2>1, <2>2, <2>3 DEF Rings, IsValues
<1>6. V[0] = committed /\ n[0] = 0 /\ \A k \in 0 .. 0 : k = 0
  OBVIOUS
<1> HIDE DEF V, n
<1>7. History(w, cxt, committed, V, n)
  <2>1. \A k \in 0 .. cxt.ROB_num : /\ V[k] = [x \in P!Locations |-> V[k][x]]
                                    /\ n[k] \in 0 .. cxt.LSQ_num
    BY <1>3, <1>4, <1>6 DEF IsValues
  <2>2. \A j, k \in 0 .. cxt.ROB_num : j <= k => n[j] <= n[k]
    BY <1>3, <1>6
  <2>3. \A k \in 1 .. cxt.ROB_num : FALSE
    BY <1>3
  <2>4. Agree(w, cxt.val, V[cxt.ROB_num])
    BY <1>3, <1>6 DEF Agree
  <2> QED
    BY <1>3, <1>6, <2>1, <2>2, <2>3, <2>4 DEF History
<1> QED
  BY <1>1, <1>5, <1>7 DEF StateInv, w

LEMMA StateNext ==
    ASSUME StateInv, P!Next
    PROVE  StateInv'
<1>1. CASE \E op \in window.Ops \ {"callsys"}, fault, mispredicted \in BOOLEAN :
             P!register_rename(op, fault, mispredicted)
  BY <1>1, SameRename
<1>2. CASE P!Trap
  BY <1>2, SameTrap
<1>3. CASE P!writeback
  BY <1>3, SameWriteback
<1>4. CASE P!flushcontext
  BY <1>4, SameFlush
<1>5. CASE P!commit
  BY <1>5, SameCommit
<1> QED
  BY <1>1, <1>2, <1>3, <1>4, <1>5 DEF P!Next

(* The invariant says what the property does.                              *)
LEMMA InFlightIs ==
    ASSUME IsWindow(window), Rings(window, cxt)
    PROVE  /\ DOMAIN P!InFlight(cxt) = 1 .. cxt.ROB_num
           /\ \A k \in 1 .. cxt.ROB_num : P!InFlight(cxt)[k] = EntryAt(window, cxt, k)
           /\ \A k \in 1 .. cxt.LSQ_num : P!MemoryOps(cxt)[k] = AccessAt(window, cxt, k)
           /\ cxt.ROB_tail = (cxt.ROB_head + cxt.ROB_num) % window.ROB
           /\ cxt.LSQ_tail = (cxt.LSQ_head + cxt.LSQ_num) % window.LSQ
<1> DEFINE rob == window.ROB
           lsq == window.LSQ
<1>1. /\ rob \in Nat \ {0} /\ lsq \in Nat \ {0}
      /\ cxt.ROB_head \in 0 .. rob - 1 /\ cxt.ROB_num \in 0 .. rob
      /\ cxt.LSQ_head \in 0 .. lsq - 1 /\ cxt.LSQ_num \in 0 .. lsq
      /\ cxt.ROB_tail = Spot(cxt.ROB_head, cxt.ROB_num, rob)
      /\ cxt.LSQ_tail = Spot(cxt.LSQ_head, cxt.LSQ_num, lsq)
  BY DEF Rings, IsWindow
<1> HIDE DEF rob, lsq
<1>2. /\ (cxt.ROB_head + cxt.ROB_num) % rob = Spot(cxt.ROB_head, cxt.ROB_num, rob)
      /\ (cxt.LSQ_head + cxt.LSQ_num) % lsq = Spot(cxt.LSQ_head, cxt.LSQ_num, lsq)
  BY <1>1, ModSmall
<1>3. ASSUME NEW k \in 1 .. cxt.ROB_num PROVE P!InFlight(cxt)[k] = EntryAt(window, cxt, k)
  <2>1. k - 1 \in 0 .. rob /\ cxt.ROB_head + k - 1 = cxt.ROB_head + (k - 1)
    BY <1>1
  <2>2. (cxt.ROB_head + (k - 1)) % rob = Spot(cxt.ROB_head, k - 1, rob)
    BY <1>1, <2>1, ModSmall
  <2>3. P!InFlight(cxt)[k] = cxt.ROB[(cxt.ROB_head + k - 1) % rob]
    BY DEF P!InFlight, rob
  <2> QED
    BY <2>1, <2>2, <2>3, Zenon DEF EntryAt, rob
<1>4. ASSUME NEW k \in 1 .. cxt.LSQ_num PROVE P!MemoryOps(cxt)[k] = AccessAt(window, cxt, k)
  <2>1. k - 1 \in 0 .. lsq /\ cxt.LSQ_head + k - 1 = cxt.LSQ_head + (k - 1)
    BY <1>1
  <2>2. (cxt.LSQ_head + (k - 1)) % lsq = Spot(cxt.LSQ_head, k - 1, lsq)
    BY <1>1, <2>1, ModSmall
  <2>3. P!MemoryOps(cxt)[k] = cxt.LSQ[(cxt.LSQ_head + k - 1) % lsq]
    BY DEF P!MemoryOps, lsq
  <2> QED
    BY <2>1, <2>2, <2>3, Zenon DEF AccessAt, lsq
<1>5. DOMAIN P!InFlight(cxt) = 1 .. cxt.ROB_num
  BY DEF P!InFlight
<1> QED
  BY <1>1, <1>2, <1>3, <1>4, <1>5, Zenon DEF rob, lsq

LEMMA ExpectedIs ==
    ASSUME IsWindow(window), Rings(window, cxt), NEW V, NEW n,
           History(window, cxt, committed, V, n)
    PROVE  P!Expected(P!InFlight(cxt)) = V[cxt.ROB_num]
<1> DEFINE num == cxt.ROB_num
           units == P!InFlight(cxt)
<1>0. num \in Nat
  BY DEF Rings, IsWindow
<1>1. DOMAIN units = 1 .. num /\ \A k \in 1 .. num : units[k] = EntryAt(window, cxt, k)
  BY InFlightIs
<1> HIDE DEF units
<1>2. PICK after : /\ after[0] = committed
                   /\ \A k \in 0 .. num - 1 : after[k + 1] = P!Executed(after[k], units[k + 1])
                   /\ P!Expected(units) = after[num]
  BY <1>0, <1>1, ExecStep
<1> DEFINE good == {k \in 0 .. num : after[k] = V[k]}
<1>3. 0 \in good
  BY <1>0, <1>2 DEF History
<1>4. ASSUME NEW k \in 0 .. num - 1, k \in good PROVE k + 1 \in good
  <2>1. k + 1 \in 1 .. num /\ (k + 1) - 1 = k
    BY <1>0
  <2>2. Link(window, EntryAt(window, cxt, k + 1), AccessAt(window, cxt, n[k + 1]),
             V[(k + 1) - 1], V[k + 1], n[(k + 1) - 1], n[k + 1])
    BY <2>1 DEF History
  <2>3. V[k + 1] = P!Over(EntryAt(window, cxt, k + 1).effect, V[(k + 1) - 1])
    BY <2>2 DEF Link
  <2>4. after[k + 1] = P!Over(units[k + 1].effect, after[k])
    BY <1>2, Zenon DEF P!Executed
  <2>5. after[k] = V[k] /\ units[k + 1] = EntryAt(window, cxt, k + 1)
    BY <1>1, <1>4, <2>1
  <2> HIDE DEF num
  <2>6. after[k + 1] = V[k + 1]
    BY <2>1, <2>3, <2>4, <2>5, Zenon
  <2> QED
    BY <2>1, <2>6
<1>5. num \in good
  <2>1. \A k \in 0 .. num - 1 : k \in good => k + 1 \in good
    BY <1>4
  <2> HIDE DEF good
  <2>2. 0 .. num \subseteq good
    BY <1>0, <1>3, <2>1, AllNumbers
  <2> QED
    BY <1>0, <2>2
<1> QED
  BY <1>2, <1>5 DEF units

(* The accesses of the first k entries are the first n[k] of the LSQ.      *)
LEMMA AccessesAre ==
    ASSUME IsWindow(window), Rings(window, cxt), NEW V, NEW n,
           History(window, cxt, committed, V, n)
    PROVE  LET all == P!Accesses(P!InFlight(cxt))
           IN /\ Len(all) = cxt.LSQ_num
              /\ \A i \in 1 .. cxt.LSQ_num : /\ AccessAt(window, cxt, i).op = all[i].op
                                             /\ AccessAt(window, cxt, i).physreg = all[i].physreg
<1> DEFINE w == window
           c == cxt
           num == c.ROB_num
           units == P!InFlight(c)
           S == {EntryAt(w, c, k) : k \in 1 .. num}
           Same(s, i) == /\ AccessAt(w, c, i).op = s[i].op
                         /\ AccessAt(w, c, i).physreg = s[i].physreg
           Is(s, k) == s \in Seq(S) /\ Len(s) = n[k] /\ \A i \in 1 .. n[k] : Same(s, i)
<1>0. num \in Nat
  BY DEF Rings, IsWindow
<1>1. DOMAIN units = 1 .. num /\ \A k \in 1 .. num : units[k] = EntryAt(w, c, k)
  BY InFlightIs
<1> HIDE DEF units
<1>2. PICK after : /\ after[0] = <<>>
                   /\ \A k \in 0 .. num - 1 : after[k + 1] = P!WithAccess(after[k], units[k + 1])
                   /\ P!Accesses(units) = after[num]
  BY <1>0, <1>1, AccStep
<1> DEFINE good == {k \in 0 .. num : Is(after[k], k)}
<1>3. 0 \in good
  <2>1. n[0] = 0 /\ after[0] = <<>>
    BY <1>2 DEF History
  <2>2. <<>> \in Seq(S) /\ Len(<<>>) = 0 /\ \A i \in 1 .. 0 : FALSE
    <3> HIDE DEF S
    <3> QED
      OBVIOUS
  <2>3. Is(after[0], 0)
    <3> HIDE DEF S, Same
    <3> QED
      BY <2>1, <2>2
  <2> QED
    BY <1>0, <2>3
<1>4. ASSUME NEW k \in 0 .. num - 1, k \in good PROVE k + 1 \in good
  <2> DEFINE e == EntryAt(w, c, k + 1)
             l == AccessAt(w, c, n[k + 1])
             s == after[k]
  <2>1. k + 1 \in 1 .. num /\ (k + 1) - 1 = k /\ k + 1 \in 0 .. num /\ k + 1 # 0 /\ k \in 0 .. num
    BY <1>0
  <2>2. /\ Link(w, e, l, V[(k + 1) - 1], V[k + 1], n[(k + 1) - 1], n[k + 1])
        /\ e.ea_comp => n[k + 1] = n[(k + 1) - 1] + 1
        /\ ~e.ea_comp => n[k + 1] = n[(k + 1) - 1]
    BY <2>1, HistoryFacts
  <2>3. /\ e.ea_comp => l.op = e.op /\ l.physreg = e.physreg
        /\ e.ea_comp => n[k + 1] = n[k] + 1
        /\ ~e.ea_comp => n[k + 1] = n[k]
    <3> HIDE DEF e, l, num
    <3> QED
      BY <2>1, <2>2, Zenon DEF Link
  <2>4. e \in S /\ units[k + 1] = e
    BY <1>1, <2>1
  <2>5. s \in Seq(S) /\ Len(s) = n[k] /\ \A i \in 1 .. n[k] : Same(s, i)
    BY <1>4
  <2>6. after[k + 1] = IF e.ea_comp THEN Append(s, e) ELSE s
    <3>1. after[k + 1] = P!WithAccess(s, units[k + 1])
      BY <1>2
    <3>2. after[k + 1] = P!WithAccess(s, e)
      BY <2>4, <3>1
    <3> HIDE DEF s, e
    <3> QED
      BY <3>2, Zenon DEF P!WithAccess
  <2> HIDE DEF e, S, s
  <2>7. CASE e.ea_comp
    <3>1. after[k + 1] = Append(s, e) /\ n[k + 1] = n[k] + 1
      BY <2>3, <2>6, <2>7
    <3>2. /\ Append(s, e) \in Seq(S) /\ Len(Append(s, e)) = n[k] + 1 /\ n[k] \in Nat
          /\ \A i \in 1 .. n[k] : Append(s, e)[i] = s[i]
          /\ Append(s, e)[n[k] + 1] = e
      BY <2>4, <2>5
    <3> DEFINE t == Append(s, e)
    <3> HIDE DEF t
    <3>3. Same(t, n[k] + 1)
      BY <2>3, <2>7, <3>2 DEF t
    <3>4. ASSUME NEW i \in 1 .. n[k] PROVE Same(t, i)
      <4>1. t[i] = s[i] /\ Same(s, i)
        BY <2>5, <3>2 DEF t
      <4> QED
        BY <4>1
    <3>5. \A i \in 1 .. n[k] + 1 : i = n[k] + 1 \/ i \in 1 .. n[k]
      BY <3>2
    <3>6. Is(t, k + 1)
      <4> HIDE DEF Same
      <4> QED
        BY <3>1, <3>2, <3>3, <3>4, <3>5 DEF t
    <3> QED
      BY <2>1, <3>1, <3>6 DEF t
  <2>8. CASE ~e.ea_comp
    <3>1. after[k + 1] = s /\ n[k + 1] = n[k]
      BY <2>3, <2>6, <2>8
    <3>2. Is(s, k + 1)
      <4> HIDE DEF Same
      <4> QED
        BY <2>5, <3>1
    <3> QED
      BY <2>1, <3>1, <3>2
  <2> QED
    BY <2>7, <2>8
<1>5. Is(after[num], num)
  <2>1. \A k \in 0 .. num - 1 : k \in good => k + 1 \in good
    BY <1>4
  <2>2. num \in good
    <3> HIDE DEF good
    <3>1. 0 .. num \subseteq good
      BY <1>0, <1>3, <2>1, AllNumbers
    <3> QED
      BY <1>0, <3>1
  <2> QED
    BY <2>2
<1>6. n[num] = c.LSQ_num
  BY DEF History
<1> QED
  BY <1>2, <1>5, <1>6 DEF units

LEMMA StateHolds ==
    ASSUME StateInv
    PROVE  P!StateIsPrecise
<1>1. IsWindow(window) /\ Rings(window, cxt)
  BY DEF StateInv
<1>2. PICK V, n : History(window, cxt, committed, V, n)
  BY DEF StateInv
<1> DEFINE all == P!Accesses(P!InFlight(cxt))
           ops == P!MemoryOps(cxt)
<1>3. /\ Len(all) = cxt.LSQ_num
      /\ \A i \in 1 .. cxt.LSQ_num : /\ AccessAt(window, cxt, i).op = all[i].op
                                     /\ AccessAt(window, cxt, i).physreg = all[i].physreg
  BY <1>1, <1>2, AccessesAre
<1> HIDE DEF all
<1>4. \A i \in 1 .. cxt.LSQ_num : ops[i] = AccessAt(window, cxt, i)
  BY <1>1, InFlightIs
<1> HIDE DEF ops
<1>5. /\ cxt.ROB_tail = (cxt.ROB_head + cxt.ROB_num) % window.ROB
      /\ cxt.LSQ_tail = (cxt.LSQ_head + cxt.LSQ_num) % window.LSQ
  BY <1>1, InFlightIs
<1>6. \A k \in 1 .. cxt.LSQ_num : ops[k].op = all[k].op /\ ops[k].physreg = all[k].physreg
  BY <1>3, <1>4
<1>7. P!InStep
  BY <1>3, <1>5, <1>6, Zenon DEF P!InStep, all, ops
<1>8. P!Expected(P!InFlight(cxt)) = V[cxt.ROB_num]
  BY <1>1, <1>2, ExpectedIs
<1>9. Agree(window, cxt.val, V[cxt.ROB_num])
  BY <1>2 DEF History
<1>10. P!Exempt = Spared(window)
  BY DEF P!Exempt, Spared
<1> QED
  BY <1>7, <1>8, <1>9, <1>10, Zenon DEF P!StateIsPrecise, Agree

(* Registers and memory of a context, whatever the sizes of its ROB and    *)
(* LSQ and the instructions, hold what committed and what is in flight     *)
(* wrote and nothing that a squash took back, and both rings are whole     *)
(* (StateIsPrecise, of register_rename, rollbackTo, flushcontext and       *)
(* commit).                                                                *)
THEOREM StateCorrect == Spec => []StateIsPrecise
<1>1. Init => StateInv
  BY InitState DEF Init
<1>2. StateInv /\ [Next]_vars => StateInv'
  <2> SUFFICES ASSUME StateInv, [Next]_vars PROVE StateInv'
    OBVIOUS
  <2>1. P!Next \/ undoing' = undoing
    BY DEF Next, vars, FetchStep, PredictorsStep, CachesStep, StateStep, PowerStep
  <2>2. CASE undoing' = undoing
    <3>1. window' = window /\ cxt' = cxt /\ committed' = committed
      BY <2>2 DEF undoing
    <3> QED
      BY <3>1 DEF StateInv
  <2> QED
    BY <2>1, <2>2, StateNext
<1>3. StateInv => StateIsPrecise
  BY StateHolds DEF StateIsPrecise
<1> QED
  BY <1>1, <1>2, <1>3, PTL DEF Spec
=============================================================================
