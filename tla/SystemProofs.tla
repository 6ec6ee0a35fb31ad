---------------------------- MODULE SystemProofs ----------------------------
(***************************************************************************)
(* What is proved of the operating system side, for every value of the     *)
(* constants: processes, contexts and their places on the cores, then the  *)
(* descriptors of the simulated programs.                                  *)
(***************************************************************************)
EXTENDS MCSystem, SequenceTheorems, FiniteSetTheorems, WellFoundedInduction, TLAPS

-----------------------------------------------------------------------------
(* Sequences *)

At(s, i) == P!RemoveAt(s, i)

LEMMA Removed ==
    ASSUME NEW S, NEW s \in Seq(S), NEW i \in 1 .. Len(s)
    PROVE  /\ At(s, i) \in Seq(S) /\ Len(At(s, i)) = Len(s) - 1
           /\ \A l \in 1 .. Len(s) - 1 : At(s, i)[l] = s[IF l < i THEN l ELSE l + 1]
<1> DEFINE a == SubSeq(s, 1, i - 1)
           b == SubSeq(s, i + 1, Len(s))
<1>1. /\ a \in Seq(S) /\ Len(a) = i - 1 /\ \A l \in 1 .. i - 1 : a[l] = s[l]
  OBVIOUS
<1>2. /\ b \in Seq(S) /\ Len(b) = Len(s) - i /\ \A l \in 1 .. Len(s) - i : b[l] = s[l + i]
  OBVIOUS
<1>3. At(s, i) = a \o b
  BY DEF At, P!RemoveAt
<1> HIDE DEF a, b
<1>4. /\ a \o b \in Seq(S) /\ Len(a \o b) = Len(s) - 1
      /\ \A l \in 1 .. Len(s) - 1 :
            (a \o b)[l] = IF l < i THEN a[l] ELSE b[l - (i - 1)]
  <2>1. Len(a) \in Nat /\ Len(b) \in Nat /\ Len(a) + Len(b) = Len(s) - 1 /\ Len(s) \in Nat
    BY <1>1, <1>2
  <2>2. a \o b \in Seq(S) /\ Len(a \o b) = Len(a) + Len(b)
    BY <1>1, <1>2, ConcatProperties
  <2>3. \A l \in 1 .. Len(a) + Len(b) : (a \o b)[l] = IF l <= Len(a) THEN a[l] ELSE b[l - Len(a)]
    BY <1>1, <1>2
  <2>4. ASSUME NEW l \in 1 .. Len(s) - 1
        PROVE  (a \o b)[l] = IF l < i THEN a[l] ELSE b[l - (i - 1)]
    <3>1. l \in 1 .. Len(a) + Len(b) /\ (l <= Len(a) <=> l < i) /\ Len(a) = i - 1
      BY <1>1, <2>1
    <3>2. (a \o b)[l] = IF l <= Len(a) THEN a[l] ELSE b[l - Len(a)]
      BY <2>3, <3>1
    <3> QED
      BY <3>1, <3>2
  <2> QED
    BY <2>1, <2>2, <2>4
<1>5. \A l \in 1 .. Len(s) - 1 : (a \o b)[l] = s[IF l < i THEN l ELSE l + 1]
  BY <1>1, <1>2, <1>4
<1> QED
  BY <1>3, <1>4, <1>5

(* What is left are the elements of the sequence, each once if each was    *)
(* there once, and without the one that was removed.                       *)
LEMMA RemovedElements ==
    ASSUME NEW S, NEW s \in Seq(S), NEW i \in 1 .. Len(s)
    PROVE  /\ \A l \in 1 .. Len(s) - 1 : \E m \in 1 .. Len(s) : At(s, i)[l] = s[m] /\ m # i
           /\ \A m \in 1 .. Len(s) : m # i => \E l \in 1 .. Len(s) - 1 : At(s, i)[l] = s[m]
           /\ P!IsInjective(s) =>
                P!IsInjective(At(s, i)) /\ \A l \in 1 .. Len(s) - 1 : At(s, i)[l] # s[i]
<1>1. /\ At(s, i) \in Seq(S) /\ Len(At(s, i)) = Len(s) - 1
      /\ \A l \in 1 .. Len(s) - 1 : At(s, i)[l] = s[IF l < i THEN l ELSE l + 1]
  BY Removed
<1>2. Len(s) \in Nat
  OBVIOUS
<1>3. ASSUME NEW l \in 1 .. Len(s) - 1
      PROVE  \E m \in 1 .. Len(s) : At(s, i)[l] = s[m] /\ m # i
  <2> DEFINE m == IF l < i THEN l ELSE l + 1
  <2>1. m \in 1 .. Len(s) /\ m # i
    BY <1>2
  <2>2. At(s, i)[l] = s[m]
    BY <1>1
  <2> QED
    BY <2>1, <2>2
<1>4. ASSUME NEW m \in 1 .. Len(s), m # i
      PROVE  \E l \in 1 .. Len(s) - 1 : At(s, i)[l] = s[m]
  <2>1. CASE m < i
    BY <1>1, <1>2, <2>1
  <2>2. CASE m > i
    <3>1. m - 1 \in 1 .. Len(s) - 1 /\ ~(m - 1 < i) /\ (m - 1) + 1 = m
      BY <1>2, <2>2
    <3> QED
      BY <1>1, <3>1
  <2> QED
    BY <1>2, <1>4, <2>1, <2>2
<1>5. ASSUME P!IsInjective(s) PROVE P!IsInjective(At(s, i))
  <2>1. SUFFICES ASSUME NEW l \in 1 .. Len(s) - 1, NEW m \in 1 .. Len(s) - 1, At(s, i)[l] = At(s, i)[m]
                 PROVE  l = m
    BY <1>1, <1>2 DEF P!IsInjective
  <2>2. \A x, y \in 1 .. Len(s) : s[x] = s[y] => x = y
    BY <1>5 DEF P!IsInjective
  <2>3. s[IF l < i THEN l ELSE l + 1] = s[IF m < i THEN m ELSE m + 1]
    BY <1>1, <2>1
  <2> QED
    BY <1>2, <2>2, <2>3
<1>6. ASSUME P!IsInjective(s) PROVE \A l \in 1 .. Len(s) - 1 : At(s, i)[l] # s[i]
  <2>1. \A x, y \in 1 .. Len(s) : s[x] = s[y] => x = y
    BY <1>6 DEF P!IsInjective
  <2> QED
    BY <1>3, <2>1
<1> QED
  BY <1>3, <1>4, <1>5, <1>6

LEMMA Replaced ==
    ASSUME NEW S, NEW s \in Seq(S), NEW i \in 1 .. Len(s), NEW x \in S
    PROVE  /\ [s EXCEPT ![i] = x] \in Seq(S) /\ Len([s EXCEPT ![i] = x]) = Len(s)
           /\ \A j \in 1 .. Len(s) : [s EXCEPT ![i] = x][j] = IF j = i THEN x ELSE s[j]
OBVIOUS

LEMMA RemovedKeeps ==
    ASSUME NEW S, NEW s \in Seq(S), NEW i \in 1 .. Len(s), NEW m \in 1 .. Len(s), m # i
    PROVE  \E l \in 1 .. Len(s) - 1 : At(s, i)[l] = s[m]
BY RemovedElements

IsTable(s, n, S) == s \in [1 .. n -> S]

LEMMA TablesAreSeqs ==
    ASSUME NEW S, NEW n \in Nat, NEW s, IsTable(s, n, S)
    PROVE  s \in Seq(S) /\ Len(s) = n
BY DEF IsTable

(* The element removed, or another, goes to the end.                       *)
Rotate(s, i, x) == Append(At(s, i), x)

LEMMA Rotated ==
    ASSUME NEW S, NEW n \in Nat, NEW s, IsTable(s, n, S), NEW i \in 1 .. n, NEW x \in S
    PROVE  /\ IsTable(Rotate(s, i, x), n, S)
           /\ \A l \in 1 .. n :
                Rotate(s, i, x)[l] = IF l = n THEN x ELSE s[IF l < i THEN l ELSE l + 1]
           /\ P!IsInjective(s) /\ x = s[i] => P!IsInjective(Rotate(s, i, x))
<1> DEFINE r == At(s, i)
           t == Rotate(s, i, x)
<1>1. s \in Seq(S) /\ Len(s) = n
  BY TablesAreSeqs
<1>2. /\ r \in Seq(S) /\ Len(r) = n - 1
      /\ \A l \in 1 .. n - 1 : r[l] = s[IF l < i THEN l ELSE l + 1]
  BY <1>1, Removed
<1>3. t = Append(r, x)
  BY DEF Rotate
<1> HIDE DEF r, t
<1>4. t \in Seq(S) /\ Len(t) = n
  BY <1>2, <1>3
<1>5. t \in [1 .. n -> S]
  BY <1>4
<1>6. \A l \in 1 .. n : t[l] = IF l = n THEN x ELSE s[IF l < i THEN l ELSE l + 1]
  <2>1. \A l \in 1 .. n - 1 : t[l] = r[l]
    BY <1>2, <1>3
  <2>2. t[n] = x
    BY <1>2, <1>3
  <2>3. \A l \in 1 .. n : l = n \/ l \in 1 .. n - 1
    OBVIOUS
  <2> QED
    BY <1>2, <2>1, <2>2, <2>3
<1>7. ASSUME P!IsInjective(s), x = s[i] PROVE P!IsInjective(t)
  <2>1. SUFFICES ASSUME NEW l \in 1 .. n, NEW m \in 1 .. n, t[l] = t[m]
                 PROVE  l = m
    BY <1>4, <1>5 DEF P!IsInjective
  <2> DEFINE from(z) == IF z = n THEN i ELSE IF z < i THEN z ELSE z + 1
  <2>2. \A z \in 1 .. n : from(z) \in 1 .. n /\ t[z] = s[from(z)]
    BY <1>6, <1>7
  <2>3. from(l) = from(m)
    BY <1>7, <2>1, <2>2 DEF P!IsInjective, IsTable
  <2> QED
    BY <2>3
<1> QED
  BY <1>3, <1>5, <1>6, <1>7 DEF r, t, IsTable

LEMMA LeastNat ==
    ASSUME NEW T \in SUBSET Nat, T # {}
    PROVE  \E x \in T : \A y \in T : x <= y
<1>1. PICK x \in T : \A y \in T : ~(<<y, x>> \in OpToRel(<, Nat))
  BY NatLessThanWellFounded, WFMin
<1>2. \A y \in T : ~(y < x)
  BY <1>1 DEF OpToRel
<1> QED
  BY <1>2

-----------------------------------------------------------------------------
(* The invariant of the processes *)

CtxType ==
    [pid : 0 .. P!MaxPids, core : 0 .. P!Cores, pred : P!CoreSet \X P!Places,
     waiting : -1 .. P!MaxPids, check : 0 .. P!Check, retry : -1 .. P!MaxPids, fast : Int]

CtxTypes ==
    /\ machine \in Machines
    /\ contexts \in Seq(CtxType)
    /\ plist \in Seq([alive : BOOLEAN, parent : 0 .. P!MaxPids, children : Seq(Nat)])
    /\ Len(plist) <= P!MaxPids

CoreTypes ==
    /\ context_ids \in [P!CoreSet -> Seq(P!Ids)]
    /\ pred \in [P!CoreSet -> [P!Places -> P!CoreSet \X P!Places]]
    /\ pred_list \in [P!CoreSet -> [P!Places -> Nat]]

LoopTypes ==
    /\ mode \in {"fast", "timing"} /\ (mode = "fast" => left # <<>>)
    /\ left \in Seq(P!Ids) /\ at \in Nat \ {0} /\ core \in 0 .. P!Cores /\ cycle \in Nat

(* The places of a core hold, in front, the contexts that have it as their *)
(* core, each with the resource of its place.                              *)
Seated(k) ==
    /\ Len(context_ids[k]) <= P!MaxContexts
    /\ P!IsInjective(context_ids[k]) /\ P!IsInjective(pred[k])
    /\ \A l \in 1 .. Len(context_ids[k]) :
        LET c == context_ids[k][l]
        IN  /\ contexts[c].pid # P!None /\ contexts[c].core = k
            /\ contexts[c].pred = pred[k][l] /\ pred_list[k][l] = c
    /\ \A l \in P!Places : l > Len(context_ids[k]) => pred_list[k][l] = P!None

HasSeat(c) ==
    /\ contexts[c].core # P!None
    /\ \E l \in 1 .. Len(context_ids[contexts[c].core]) : context_ids[contexts[c].core][l] = c

Placed ==
    /\ \A k \in P!CoreSet : Seated(k)
    /\ \A c \in P!Ids : IF contexts[c].pid = P!None THEN contexts[c].core = P!None ELSE HasSeat(c)

(* A process has one context; parents are processes, or 0, and a child is  *)
(* on the list of its parent.                                              *)
Related ==
    /\ \A c \in P!Ids : contexts[c].pid \in 0 .. Len(plist)
    /\ \A c, d \in P!Ids : contexts[c].pid = contexts[d].pid /\ contexts[c].pid # P!None => c = d
    /\ \A p \in P!Pids : plist[p].parent \in 0 .. Len(plist)
    /\ \A p \in P!Pids :
        /\ P!IsInjective(plist[p].children)
        /\ \A i \in 1 .. Len(plist[p].children) :
              plist[p].children[i] \in P!Pids /\ plist[plist[p].children[i]].parent = p
    /\ \A p, q \in P!Pids : plist[q].parent = p /\ plist[q].alive =>
          \E i \in 1 .. Len(plist[p].children) : plist[p].children[i] = q
    /\ P!KillKinds \subseteq {"kill"} => P!AliveMatches

CallInv == CtxTypes /\ CoreTypes /\ Placed /\ Related
ProcInv == CallInv /\ LoopTypes

LEMMA MachineGiven ==
    ASSUME machine \in Machines
    PROVE  /\ P!Cores \in Nat \ {0} /\ P!MaxContexts \in Nat \ {0}
           /\ P!MaxPids \in Nat /\ P!Check \in Nat
           /\ P!Programs \in 1 .. P!Cores * P!MaxContexts /\ P!Programs <= P!MaxPids
           /\ P!KillKinds \subseteq {"kill", "group", "zero", "thread"}
           /\ P!FastForward \in [1 .. P!Programs -> Int] /\ P!CycleBound \in Nat \ {0}
BY MachinesAssumption DEF P!Cores, P!MaxContexts, P!MaxPids, P!Check, P!Programs,
   P!KillKinds, P!FastForward, P!CycleBound

LEMMA MachineFacts ==
    ASSUME CtxTypes
    PROVE  /\ P!Cores \in Nat \ {0} /\ P!MaxContexts \in Nat \ {0}
           /\ P!MaxPids \in Nat /\ P!Check \in Nat
           /\ P!Programs \in 1 .. P!Cores * P!MaxContexts /\ P!Programs <= P!MaxPids
           /\ P!KillKinds \subseteq {"kill", "group", "zero", "thread"}
           /\ P!FastForward \in [1 .. P!Programs -> Int] /\ P!CycleBound \in Nat \ {0}
BY MachineGiven DEF CtxTypes

LEMMA SameMachine ==
    ASSUME machine' = machine
    PROVE  /\ P!Cores' = P!Cores /\ P!MaxContexts' = P!MaxContexts /\ P!MaxPids' = P!MaxPids
           /\ P!Check' = P!Check /\ P!CoreSet' = P!CoreSet /\ P!Places' = P!Places
           /\ P!KillKinds' = P!KillKinds /\ P!CycleBound' = P!CycleBound
           /\ CtxType' = CtxType
BY DEF P!Cores, P!MaxContexts, P!MaxPids, P!Check, P!CoreSet, P!Places, P!KillKinds, CtxType,
   P!CycleBound

(* The contexts after an instruction of one of them is counted.            *)
Counted(cs) ==
    /\ cs \in Seq(CtxType) /\ Len(cs) = Len(contexts)
    /\ \A i \in P!Ids : cs[i].pid = contexts[i].pid /\ cs[i].core = contexts[i].core
                         /\ cs[i].pred = contexts[i].pred

(* Who has which place and which pid does not change.                      *)
SamePlaces ==
    /\ machine' = machine /\ Counted(contexts')
    /\ context_ids' = context_ids /\ pred' = pred /\ pred_list' = pred_list

LEMMA PlacesStay ==
    ASSUME CtxTypes, CoreTypes, Placed, SamePlaces
    PROVE  CoreTypes' /\ Placed' /\ P!Ids' = P!Ids
<1>1. P!Ids' = P!Ids
  BY DEF SamePlaces, Counted, P!Ids
<1>2. CoreTypes'
  BY <1>1, SameMachine DEF SamePlaces, CoreTypes
<1>3. ASSUME NEW k \in P!CoreSet PROVE Seated(k)'
  <2>1. Seated(k)
    BY DEF Placed
  <2>2. \A l \in 1 .. Len(context_ids[k]) : context_ids[k][l] \in P!Ids
    BY DEF CoreTypes
  <2> QED
    BY <2>1, <2>2, SameMachine DEF Seated, SamePlaces, Counted
<1>4. ASSUME NEW c \in P!Ids
      PROVE  (IF contexts[c].pid = P!None THEN contexts[c].core = P!None ELSE HasSeat(c))'
  BY DEF Placed, HasSeat, SamePlaces, Counted
<1> QED
  BY <1>1, <1>2, <1>3, <1>4, SameMachine DEF Placed, SamePlaces

(* ejectcontext, with the context that has lost its pid.                   *)
LEMMA EjectPlaces ==
    ASSUME CtxTypes, CoreTypes, Placed, machine' = machine, NEW cs, Counted(cs),
           NEW v \in P!Ids, contexts[v].pid # P!None, P!Ejected(v),
           contexts' = [cs EXCEPT ![v].pid = P!None, ![v].core = P!None]
    PROVE  /\ CoreTypes' /\ Placed' /\ P!Ids' = P!Ids
           /\ contexts' \in Seq(CtxType)
           /\ \A i \in P!Ids : contexts'[i].pid = IF i = v THEN P!None ELSE contexts[i].pid
<1> DEFINE cores == P!CoreSet
<1>1. /\ P!Cores \in Nat \ {0} /\ P!MaxContexts \in Nat \ {0} /\ P!MaxPids \in Nat
      /\ cores = 1 .. P!Cores /\ P!Places = 1 .. P!MaxContexts /\ P!None = 0
  BY MachineFacts DEF P!CoreSet, P!Places, P!None
<1>2. /\ \A i \in P!Ids : contexts[i] \in CtxType /\ cs[i] \in CtxType
      /\ P!Ids = 1 .. Len(cs) /\ DOMAIN cs = P!Ids /\ Len(contexts) = Len(cs)
      /\ cs \in Seq(CtxType) /\ Len(cs) \in Nat
  BY DEF CtxTypes, Counted, P!Ids
<1>3. /\ contexts' \in Seq(CtxType) /\ Len(contexts') = Len(cs)
      /\ contexts'[v].pid = P!None /\ contexts'[v].core = P!None
      /\ \A i \in P!Ids : i # v => /\ contexts'[i].pid = contexts[i].pid
                                    /\ contexts'[i].core = contexts[i].core
                                    /\ contexts'[i].pred = contexts[i].pred
  <2> DEFINE gone == [cs[v] EXCEPT !.pid = P!None, !.core = P!None]
  <2>0. P!None \in 0 .. P!MaxPids /\ P!None \in 0 .. P!Cores /\ cs[v] \in CtxType
    BY <1>1, <1>2
  <2>1. gone \in CtxType /\ gone.pid = P!None /\ gone.core = P!None
    BY <2>0 DEF CtxType
  <2>2. contexts' = [cs EXCEPT ![v] = gone]
    BY <1>2
  <2>3. /\ contexts' \in Seq(CtxType) /\ Len(contexts') = Len(cs)
        /\ \A i \in 1 .. Len(cs) : contexts'[i] = IF i = v THEN gone ELSE cs[i]
    <3>1. cs \in Seq(CtxType) /\ v \in 1 .. Len(cs) /\ gone \in CtxType
      BY <1>2, <2>1
    <3> HIDE DEF gone
    <3> QED
      BY <2>2, <3>1
  <2>4. contexts'[v].pid = P!None /\ contexts'[v].core = P!None
    BY <1>2, <2>1, <2>3
  <2>5. \A i \in P!Ids : i # v => contexts'[i] = cs[i]
    BY <1>2, <2>3
  <2> QED
    BY <2>3, <2>4, <2>5 DEF Counted
<1>4. P!Ids' = P!Ids
  BY <1>2, <1>3 DEF P!Ids
<1> HIDE DEF cores
<1>0. \A c \in P!Ids : contexts[c].pid # P!None => HasSeat(c) /\ contexts[c].core \in cores
  <2>1. SUFFICES ASSUME NEW c \in P!Ids, contexts[c].pid # P!None
                 PROVE  HasSeat(c) /\ contexts[c].core \in cores
    OBVIOUS
  <2>2. HasSeat(c)
    BY <2>1 DEF Placed
  <2>3. contexts[c].core \in 0 .. P!Cores
    BY <1>2, <2>1 DEF CtxType
  <2>4. contexts[c].core # P!None
    BY <2>2 DEF HasSeat
  <2> QED
    BY <1>1, <2>2, <2>3, <2>4
<1>5. PICK k \in cores : k = contexts[v].core /\ HasSeat(v)
  BY <1>0
<1> DEFINE n == Len(context_ids[k])
           index == CHOOSE i \in DOMAIN context_ids[k] : context_ids[k][i] = v
<1>6. /\ context_ids[k] \in Seq(P!Ids) /\ n \in Nat /\ n <= P!MaxContexts
      /\ pred[k] \in [1 .. P!MaxContexts -> cores \X P!Places]
      /\ pred_list[k] \in [1 .. P!MaxContexts -> Nat]
      /\ Seated(k)
  <2>1. Seated(k)
    BY <1>5 DEF Placed, cores
  <2>2. /\ context_ids[k] \in Seq(P!Ids) /\ pred[k] \in [P!Places -> cores \X P!Places]
        /\ pred_list[k] \in [P!Places -> Nat]
    BY <1>5 DEF CoreTypes, cores
  <2> QED
    BY <1>1, <2>1, <2>2 DEF Seated
<1>7. index \in 1 .. n /\ context_ids[k][index] = v
  BY <1>5, <1>6 DEF HasSeat
<1>8. /\ context_ids' = [context_ids EXCEPT ![k] = At(context_ids[k], index)]
      /\ pred' = [pred EXCEPT ![k] = Append(At(pred[k], index), pred[k][index])]
      /\ pred_list' = [pred_list EXCEPT ![k] = Append(At(pred_list[k], index), P!None)]
  BY <1>5 DEF P!Ejected, At, CoreTypes
<1> HIDE DEF index
<1> DEFINE ids == At(context_ids[k], index)
           preds == Append(At(pred[k], index), pred[k][index])
           list == Append(At(pred_list[k], index), P!None)
           from(l) == IF l < index THEN l ELSE l + 1
<1>9. /\ ids \in Seq(P!Ids) /\ Len(ids) = n - 1
      /\ \A l \in 1 .. n - 1 : ids[l] = context_ids[k][from(l)]
      /\ P!IsInjective(ids)
      /\ \A m \in 1 .. n : m # index => \E l \in 1 .. n - 1 : ids[l] = context_ids[k][m]
  <2>1. P!IsInjective(context_ids[k])
    BY <1>6 DEF Seated
  <2> DEFINE s == context_ids[k]
  <2>2. s \in Seq(P!Ids) /\ index \in 1 .. Len(s) /\ P!IsInjective(s) /\ n = Len(s) /\ ids = At(s, index)
    BY <1>6, <1>7, <2>1
  <2> HIDE DEF s, ids
  <2>3. /\ ids \in Seq(P!Ids) /\ Len(ids) = n - 1
        /\ \A l \in 1 .. n - 1 : ids[l] = s[from(l)]
    BY <2>2, Removed
  <2>4. P!IsInjective(ids)
    BY <2>2, RemovedElements
  <2>5. ASSUME NEW m \in 1 .. n, m # index PROVE \E l \in 1 .. n - 1 : ids[l] = s[m]
    BY <2>2, <2>5, RemovedKeeps
  <2> QED
    BY <2>3, <2>4, <2>5 DEF s
<1>10. /\ preds \in [1 .. P!MaxContexts -> cores \X P!Places]
       /\ \A l \in 1 .. P!MaxContexts :
            preds[l] = IF l = P!MaxContexts THEN pred[k][index] ELSE pred[k][from(l)]
       /\ P!IsInjective(preds)
  <2>1. index \in 1 .. P!MaxContexts /\ pred[k][index] \in cores \X P!Places
    BY <1>1, <1>6, <1>7
  <2>2. P!IsInjective(pred[k])
    BY <1>6 DEF Seated
  <2> DEFINE s == pred[k]
             x == pred[k][index]
             n2 == P!MaxContexts
             X == cores \X P!Places
  <2>3. /\ n2 \in Nat /\ IsTable(s, n2, X) /\ index \in 1 .. n2 /\ x \in X
        /\ P!IsInjective(s) /\ x = s[index] /\ preds = Rotate(s, index, x)
    BY <1>1, <1>6, <2>1, <2>2 DEF IsTable, Rotate
  <2> HIDE DEF s, x, n2, X, preds
  <2>4. /\ IsTable(Rotate(s, index, x), n2, X)
        /\ \A l \in 1 .. n2 :
             Rotate(s, index, x)[l] = IF l = n2 THEN x ELSE s[IF l < index THEN l ELSE l + 1]
        /\ P!IsInjective(s) /\ x = s[index] => P!IsInjective(Rotate(s, index, x))
    <3>1. n2 \in Nat /\ IsTable(s, n2, X) /\ index \in 1 .. n2 /\ x \in X
      BY <2>3
    <3> QED
      BY <3>1, Rotated, Zenon
  <2> QED
    BY <2>3, <2>4 DEF s, x, n2, X, IsTable
<1>11. /\ list \in [1 .. P!MaxContexts -> Nat]
       /\ \A l \in 1 .. P!MaxContexts :
            list[l] = IF l = P!MaxContexts THEN P!None ELSE pred_list[k][from(l)]
  <2>1. index \in 1 .. P!MaxContexts /\ P!None \in Nat
    BY <1>1, <1>6, <1>7
  <2> DEFINE s == pred_list[k]
             n2 == P!MaxContexts
             x == P!None
  <2>3. /\ n2 \in Nat /\ IsTable(s, n2, Nat) /\ index \in 1 .. n2 /\ x \in Nat
        /\ list = Rotate(s, index, x)
    BY <1>1, <1>6, <2>1 DEF IsTable, Rotate
  <2> HIDE DEF s, x, n2, list
  <2>4. /\ IsTable(Rotate(s, index, x), n2, Nat)
        /\ \A l \in 1 .. n2 :
             Rotate(s, index, x)[l] = IF l = n2 THEN x ELSE s[IF l < index THEN l ELSE l + 1]
        /\ P!IsInjective(s) /\ x = s[index] => P!IsInjective(Rotate(s, index, x))
    <3>1. n2 \in Nat /\ IsTable(s, n2, Nat) /\ index \in 1 .. n2 /\ x \in Nat
      BY <2>3
    <3> QED
      BY <3>1, Rotated, Zenon
  <2> QED
    BY <2>3, <2>4 DEF s, x, n2, IsTable
<1> HIDE DEF ids, preds, list, cores
<1>12. CoreTypes'
  <2>1. P!CoreSet' = cores /\ P!Places' = P!Places /\ P!CoreSet = cores
    BY SameMachine DEF cores
  <2>2. context_ids' \in [cores -> Seq(P!Ids)]
    BY <1>5, <1>8, <1>9, <2>1 DEF CoreTypes, ids
  <2>3. pred' \in [cores -> [P!Places -> cores \X P!Places]]
    BY <1>1, <1>5, <1>8, <1>10, <2>1 DEF CoreTypes, preds
  <2>4. pred_list' \in [cores -> [P!Places -> Nat]]
    BY <1>1, <1>5, <1>8, <1>11, <2>1 DEF CoreTypes, list
  <2> QED
    BY <1>4, <2>1, <2>2, <2>3, <2>4 DEF CoreTypes
<1>13. /\ context_ids'[k] = ids /\ pred'[k] = preds /\ pred_list'[k] = list
       /\ \A h \in cores : h # k => /\ context_ids'[h] = context_ids[h]
                                     /\ pred'[h] = pred[h] /\ pred_list'[h] = pred_list[h]
  BY <1>5, <1>8 DEF CoreTypes, ids, preds, list, cores
<1>14. ASSUME NEW h \in cores, h # k PROVE Seated(h)'
  <2>1. Seated(h) /\ context_ids[h] \in Seq(P!Ids)
    BY DEF Placed, CoreTypes, cores
  <2>2. /\ context_ids'[h] = context_ids[h] /\ pred'[h] = pred[h] /\ pred_list'[h] = pred_list[h]
        /\ P!Places' = P!Places /\ P!MaxContexts' = P!MaxContexts
    BY <1>13, <1>14, SameMachine
  <2>3. ASSUME NEW l \in 1 .. Len(context_ids[h])
        PROVE  LET c == context_ids[h][l]
               IN  /\ contexts'[c].pid # P!None /\ contexts'[c].core = h
                   /\ contexts'[c].pred = pred[h][l] /\ pred_list[h][l] = c
    <3> DEFINE c == context_ids[h][l]
    <3>1. /\ contexts[c].pid # P!None /\ contexts[c].core = h
          /\ contexts[c].pred = pred[h][l] /\ pred_list[h][l] = c
      BY <2>1 DEF Seated
    <3>2. c \in P!Ids
      BY <2>1
    <3>3. c # v
      BY <1>5, <1>14, <3>1
    <3> QED
      BY <1>3, <3>1, <3>2, <3>3
  <2> QED
    BY <2>1, <2>2, <2>3 DEF Seated
<1>15. Seated(k)'
  <2>1. ASSUME NEW l \in 1 .. n - 1
        PROVE  LET c == ids[l]
               IN  /\ contexts'[c].pid # P!None /\ contexts'[c].core = k
                   /\ contexts'[c].pred = preds[l] /\ list[l] = c
    <3>1. from(l) \in 1 .. n /\ from(l) # index /\ l # P!MaxContexts /\ l \in 1 .. P!MaxContexts
      BY <1>1, <1>6, <1>7
    <3>2. ids[l] \in P!Ids /\ ids[l] = context_ids[k][from(l)]
      BY <1>9
    <3>3. ids[l] # v
      BY <1>6, <1>7, <3>1, <3>2 DEF Seated, P!IsInjective
    <3>4. preds[l] = pred[k][from(l)] /\ list[l] = pred_list[k][from(l)]
      BY <1>10, <1>11, <3>1
    <3>5. /\ contexts[ids[l]].pid # P!None /\ contexts[ids[l]].core = k
          /\ contexts[ids[l]].pred = pred[k][from(l)] /\ pred_list[k][from(l)] = ids[l]
      BY <1>6, <3>1, <3>2 DEF Seated
    <3> QED
      BY <1>3, <3>2, <3>3, <3>4, <3>5
  <2>2. ASSUME NEW l \in P!Places, l > n - 1 PROVE list[l] = P!None
    <3>1. CASE l = P!MaxContexts
      BY <1>1, <1>11, <3>1
    <3>2. CASE l # P!MaxContexts
      <4>1. from(l) = l + 1 /\ l + 1 > n /\ l + 1 \in P!Places /\ l \in 1 .. P!MaxContexts
        BY <1>1, <1>6, <1>7, <2>2, <3>2
      <4>2. list[l] = pred_list[k][l + 1]
        BY <1>11, <3>2, <4>1
      <4> QED
        BY <1>6, <4>1, <4>2 DEF Seated
    <3> QED
      BY <3>1, <3>2
  <2>3. n - 1 <= P!MaxContexts /\ Len(ids) = n - 1
    BY <1>1, <1>6, <1>9
  <2>4. /\ context_ids'[k] = ids /\ pred'[k] = preds /\ pred_list'[k] = list
        /\ P!Places' = P!Places /\ P!MaxContexts' = P!MaxContexts
    BY <1>13, SameMachine
  <2>5. P!IsInjective(ids) /\ P!IsInjective(preds)
    BY <1>9, <1>10
  <2>6. Seated(k)' <=>
          /\ Len(ids) <= P!MaxContexts
          /\ P!IsInjective(ids) /\ P!IsInjective(preds)
          /\ \A l \in 1 .. Len(ids) :
              LET c == ids[l]
              IN  /\ contexts'[c].pid # P!None /\ contexts'[c].core = k
                  /\ contexts'[c].pred = preds[l] /\ list[l] = c
          /\ \A l \in P!Places : l > Len(ids) => list[l] = P!None
    BY <2>4 DEF Seated
  <2> QED
    BY <2>1, <2>2, <2>3, <2>5, <2>6
<1>16. ASSUME NEW c \in P!Ids, c # v, contexts[c].pid # P!None PROVE HasSeat(c)'
  <2>1. HasSeat(c) /\ contexts[c].core \in cores
    BY <1>0, <1>16
  <2>2. contexts'[c].core = contexts[c].core
    BY <1>3, <1>16
  <2>3. CASE contexts[c].core = k
    <3>1. PICK m \in 1 .. n : context_ids[k][m] = c
      BY <2>1, <2>3 DEF HasSeat
    <3>2. m # index
      BY <1>7, <1>16, <3>1
    <3>3. \E l \in 1 .. Len(ids) : ids[l] = c
      BY <1>9, <3>1, <3>2
    <3> QED
      BY <1>13, <2>1, <2>2, <2>3, <3>3 DEF HasSeat
  <2>4. CASE contexts[c].core # k
    BY <1>13, <2>1, <2>2, <2>4 DEF HasSeat
  <2> QED
    BY <2>3, <2>4
<1>17. Placed'
  <2>1. \A h \in cores : Seated(h)'
    BY <1>14, <1>15
  <2>2. ASSUME NEW c \in P!Ids
        PROVE  (IF contexts[c].pid = P!None THEN contexts[c].core = P!None ELSE HasSeat(c))'
    BY <1>3, <1>16, ZenonT(30) DEF Placed
  <2> QED
    BY <1>4, <2>1, <2>2, SameMachine DEF Placed, cores
<1> QED
  BY <1>3, <1>4, <1>12, <1>17

LEMMA SeqsGrow ==
    ASSUME NEW S, NEW T, S \subseteq T, NEW s \in Seq(S)
    PROVE  s \in Seq(T)
OBVIOUS

LEMMA Appended ==
    ASSUME NEW S, NEW s \in Seq(S), NEW x \in S
    PROVE  /\ Append(s, x) \in Seq(S) /\ Len(Append(s, x)) = Len(s) + 1
           /\ \A i \in 1 .. Len(s) : Append(s, x)[i] = s[i]
           /\ Append(s, x)[Len(s) + 1] = x
OBVIOUS

(* addcontext, with the forked context, which takes the first place free.  *)
Child(c, pid, k) ==
    [contexts[c] EXCEPT !.pid = pid, !.core = k, !.pred = pred[k][P!AddLocation(k)]]

LEMMA ForkPlaces ==
    ASSUME CtxTypes, CoreTypes, Placed, machine' = machine, NEW cs, Counted(cs),
           NEW k \in P!CoreSet, P!HasRoom(k), NEW c \in P!Ids, NEW pid \in 1 .. P!MaxPids,
           P!Attached(k, Len(contexts) + 1),
           contexts' = Append(cs, Child(c, pid, k))
    PROVE  /\ CoreTypes' /\ Placed' /\ P!Ids' = P!Ids \cup {Len(contexts) + 1}
           /\ contexts' \in Seq(CtxType) /\ Len(contexts') = Len(contexts) + 1
           /\ contexts'[Len(contexts) + 1].pid = pid
           /\ \A i \in P!Ids : contexts'[i].pid = contexts[i].pid
<1> DEFINE cores == P!CoreSet
<1>0. PICK id : id = Len(contexts) + 1
  OBVIOUS
<1>a. PICK place : place = Len(context_ids[k]) + 1
  OBVIOUS
<1> DEFINE child == [contexts[c] EXCEPT !.pid = pid, !.core = k, !.pred = pred[k][place]]
<1>1. /\ P!Cores \in Nat \ {0} /\ P!MaxContexts \in Nat \ {0} /\ P!MaxPids \in Nat
      /\ cores = 1 .. P!Cores /\ P!Places = 1 .. P!MaxContexts /\ P!None = 0
  BY MachineFacts DEF P!CoreSet, P!Places, P!None
<1>2. /\ contexts \in Seq(CtxType) /\ cs \in Seq(CtxType) /\ Len(cs) = Len(contexts)
      /\ Len(contexts) \in Nat /\ P!Ids = 1 .. Len(contexts) /\ contexts[c] \in CtxType
      /\ id \in Nat /\ id \notin P!Ids /\ P!Ids = 1 .. id - 1
  BY <1>0 DEF CtxTypes, Counted, P!Ids
<1>3. /\ context_ids[k] \in Seq(P!Ids) /\ Len(context_ids[k]) \in Nat
      /\ place \in P!Places /\ place <= P!MaxContexts /\ Seated(k)
      /\ place \in Nat \ {0} /\ place - 1 = Len(context_ids[k])
      /\ pred[k] \in [P!Places -> cores \X P!Places]
      /\ pred_list[k] \in [P!Places -> Nat] /\ pred[k][place] \in cores \X P!Places
  <2>1. context_ids[k] \in Seq(P!Ids) /\ Seated(k)
    BY DEF CoreTypes, Placed
  <2>2. pred[k] \in [P!Places -> cores \X P!Places] /\ pred_list[k] \in [P!Places -> Nat]
    BY DEF CoreTypes
  <2>3. Len(context_ids[k]) \in Nat /\ Len(context_ids[k]) < P!MaxContexts
    BY <2>1 DEF P!HasRoom
  <2>4. place \in P!Places /\ place <= P!MaxContexts
    BY <1>1, <1>a, <2>3
  <2>5. place \in Nat /\ place - 1 = Len(context_ids[k])
    BY <1>a, <2>3
  <2> QED
    BY <1>a, <2>1, <2>2, <2>3, <2>4, <2>5
<1>4. child \in CtxType /\ child.pid = pid /\ child.core = k /\ child.pred = pred[k][place]
  <2>1. k \in 0 .. P!Cores /\ pid \in 0 .. P!MaxPids /\ pred[k][place] \in P!CoreSet \X P!Places
    BY <1>1, <1>3
  <2> QED
    BY <1>2, <2>1 DEF CtxType
<1>5. /\ contexts' \in Seq(CtxType) /\ Len(contexts') = Len(contexts) + 1
      /\ contexts'[id] = child /\ \A i \in P!Ids : contexts'[i] = cs[i]
  <2>1. contexts' = Append(cs, child)
    BY <1>a DEF P!AddLocation, Child
  <2> HIDE DEF child
  <2> QED
    BY <1>0, <1>2, <1>4, <2>1, Appended
<1>6. P!Ids' = P!Ids \cup {id} /\ P!Ids' = 1 .. id
  BY <1>0, <1>2, <1>5 DEF P!Ids
<1>7. /\ context_ids' = [context_ids EXCEPT ![k] = Append(context_ids[k], id)]
      /\ pred_list' = [pred_list EXCEPT ![k] = [pred_list[k] EXCEPT ![place] = id]]
      /\ pred' = pred
  BY <1>0, <1>a DEF P!Attached, P!AddLocation
<1> HIDE DEF child, cores
<1> DEFINE ids == Append(context_ids[k], id)
           list == [pred_list[k] EXCEPT ![place] = id]
<1>8. /\ ids \in Seq(P!Ids') /\ Len(ids) = place /\ ids[place] = id
      /\ \A l \in 1 .. place - 1 : ids[l] = context_ids[k][l]
      /\ P!IsInjective(ids)
  <2>1. context_ids[k] \in Seq(P!Ids') /\ id \in P!Ids'
    BY <1>3, <1>6, SeqsGrow
  <2>2. /\ ids \in Seq(P!Ids') /\ Len(ids) = place /\ ids[place] = id
        /\ \A l \in 1 .. place - 1 : ids[l] = context_ids[k][l]
    BY <1>3, <2>1, Appended
  <2>3. \A l \in 1 .. place - 1 : ids[l] \in P!Ids /\ ids[l] # id
    <3>1. \A l \in 1 .. Len(context_ids[k]) : context_ids[k][l] \in P!Ids
      BY <1>3
    <3> HIDE DEF ids
    <3> QED
      BY <1>2, <1>3, <2>2, <3>1
  <2>4. \A l, m \in 1 .. place - 1 : ids[l] = ids[m] => l = m
    BY <1>3, <2>2 DEF Seated, P!IsInjective
  <2>5. \A l \in 1 .. place : l = place \/ l \in 1 .. place - 1
    BY <1>3
  <2>6. P!IsInjective(ids)
    <3> HIDE DEF ids
    <3> QED
      BY <2>2, <2>3, <2>4, <2>5 DEF P!IsInjective
  <2> QED
    BY <2>2, <2>6
<1>9. /\ list \in [P!Places -> Nat] /\ list[place] = id
      /\ \A l \in P!Places : l # place => list[l] = pred_list[k][l]
  BY <1>2, <1>3
<1> HIDE DEF ids, list
<1>10. /\ context_ids'[k] = ids /\ pred_list'[k] = list
       /\ \A h \in cores : h # k => context_ids'[h] = context_ids[h] /\ pred_list'[h] = pred_list[h]
  BY <1>7 DEF CoreTypes, ids, list, cores
<1>11. CoreTypes'
  <2>1. P!CoreSet' = cores /\ P!Places' = P!Places /\ P!CoreSet = cores
    BY SameMachine DEF cores
  <2>2. ASSUME NEW h \in cores PROVE context_ids'[h] \in Seq(P!Ids')
    <3>1. context_ids[h] \in Seq(P!Ids)
      BY DEF CoreTypes, cores
    <3>2. context_ids[h] \in Seq(P!Ids')
      BY <1>6, <3>1, SeqsGrow
    <3> QED
      BY <1>8, <1>10, <3>2
  <2>3. context_ids' \in [cores -> Seq(P!Ids')]
    BY <1>7, <2>1, <2>2 DEF CoreTypes
  <2>4. pred_list' \in [cores -> [P!Places -> Nat]]
    BY <1>7, <1>9, <2>1 DEF CoreTypes, list
  <2> QED
    BY <1>7, <2>1, <2>3, <2>4 DEF CoreTypes
<1>12. \A i \in P!Ids : /\ contexts'[i].pid = contexts[i].pid
                        /\ contexts'[i].core = contexts[i].core
                        /\ contexts'[i].pred = contexts[i].pred
  BY <1>5 DEF Counted
<1>13. ASSUME NEW h \in cores, h # k PROVE Seated(h)'
  <2>1. Seated(h) /\ context_ids[h] \in Seq(P!Ids)
    BY DEF Placed, CoreTypes, cores
  <2>2. /\ context_ids'[h] = context_ids[h] /\ pred'[h] = pred[h] /\ pred_list'[h] = pred_list[h]
        /\ P!Places' = P!Places /\ P!MaxContexts' = P!MaxContexts
    BY <1>7, <1>10, <1>13, SameMachine
  <2>3. ASSUME NEW l \in 1 .. Len(context_ids[h])
        PROVE  LET d == context_ids[h][l]
               IN  /\ contexts'[d].pid # P!None /\ contexts'[d].core = h
                   /\ contexts'[d].pred = pred[h][l] /\ pred_list[h][l] = d
    <3> DEFINE d == context_ids[h][l]
    <3>1. /\ contexts[d].pid # P!None /\ contexts[d].core = h
          /\ contexts[d].pred = pred[h][l] /\ pred_list[h][l] = d
      BY <2>1 DEF Seated
    <3>2. d \in P!Ids
      BY <2>1
    <3> QED
      BY <1>12, <3>1, <3>2
  <2> QED
    BY <2>1, <2>2, <2>3 DEF Seated
<1>14. Seated(k)'
  <2>1. ASSUME NEW l \in 1 .. place
        PROVE  LET d == ids[l]
               IN  /\ contexts'[d].pid # P!None /\ contexts'[d].core = k
                   /\ contexts'[d].pred = pred[k][l] /\ list[l] = d
    <3>1. CASE l = place
      <4>1. ids[l] = id /\ list[l] = id /\ contexts'[id] = child
        BY <1>5, <1>8, <1>9, <3>1
      <4>2. pid # P!None
        BY <1>1
      <4> QED
        BY <1>4, <3>1, <4>1, <4>2
    <3>2. CASE l # place
      <4>1. l \in 1 .. Len(context_ids[k]) /\ l \in P!Places
        BY <1>1, <1>3, <3>2, SMTT(30)
      <4> DEFINE d == context_ids[k][l]
      <4>2. /\ d \in P!Ids
            /\ contexts[d].pid # P!None /\ contexts[d].core = k
            /\ contexts[d].pred = pred[k][l] /\ pred_list[k][l] = d
        BY <1>3, <4>1 DEF Seated
      <4>3. ids[l] = context_ids[k][l] /\ list[l] = pred_list[k][l]
        BY <1>3, <1>8, <1>9, <3>2, <4>1
      <4> QED
        BY <1>12, <4>2, <4>3
    <3> QED
      BY <3>1, <3>2
  <2>2. ASSUME NEW l \in P!Places, l > place PROVE list[l] = P!None
    <3>1. l > Len(context_ids[k]) /\ l # place
      <4>1. place \in Nat /\ place - 1 = Len(context_ids[k]) /\ l \in Nat /\ l > place
        BY <1>1, <1>3, <2>2
      <4> QED
        BY <4>1
    <3> QED
      BY <1>3, <1>9, <3>1 DEF Seated
  <2>3. /\ context_ids'[k] = ids /\ pred'[k] = pred[k] /\ pred_list'[k] = list
        /\ P!Places' = P!Places /\ P!MaxContexts' = P!MaxContexts
        /\ Len(ids) = place /\ place <= P!MaxContexts
        /\ P!IsInjective(ids) /\ P!IsInjective(pred[k])
    BY <1>3, <1>7, <1>8, <1>10, SameMachine DEF Seated
  <2>4. Seated(k)' <=>
          /\ Len(ids) <= P!MaxContexts
          /\ P!IsInjective(ids) /\ P!IsInjective(pred[k])
          /\ \A l \in 1 .. Len(ids) :
              LET d == ids[l]
              IN  /\ contexts'[d].pid # P!None /\ contexts'[d].core = k
                  /\ contexts'[d].pred = pred[k][l] /\ list[l] = d
          /\ \A l \in P!Places : l > Len(ids) => list[l] = P!None
    BY <2>3 DEF Seated
  <2> QED
    BY <2>1, <2>2, <2>3, <2>4
<1>15. ASSUME NEW i \in P!Ids, contexts[i].pid # P!None PROVE HasSeat(i)'
  <2>1. HasSeat(i)
    BY <1>15 DEF Placed
  <2>2. contexts[i].core \in cores
    <3>1. contexts[i] \in CtxType /\ contexts[i].core # P!None
      BY <1>2, <2>1 DEF HasSeat
    <3>2. contexts[i].core \in 0 .. P!Cores
      BY <3>1 DEF CtxType
    <3> QED
      BY <1>1, <3>1, <3>2
  <2>3. contexts'[i].core = contexts[i].core
    BY <1>12
  <2>4. CASE contexts[i].core = k
    <3>1. PICK m \in 1 .. Len(context_ids[k]) : context_ids[k][m] = i
      BY <2>1, <2>4 DEF HasSeat
    <3>2. m \in 1 .. Len(ids) /\ ids[m] = i
      BY <1>3, <1>8, <3>1
    <3> QED
      BY <1>10, <2>1, <2>3, <2>4, <3>2 DEF HasSeat
  <2>5. CASE contexts[i].core # k
    BY <1>10, <2>1, <2>2, <2>3, <2>5 DEF HasSeat
  <2> QED
    BY <2>4, <2>5
<1>16. contexts'[id].pid # P!None /\ HasSeat(id)'
  <2>0. k \in 1 .. P!Cores
    BY <1>1 DEF cores
  <2>1. contexts'[id].pid = pid /\ contexts'[id].core = k /\ pid # P!None /\ k # P!None
    <3>1. contexts'[id].pid = pid /\ contexts'[id].core = k
      BY <1>4, <1>5
    <3>2. pid # P!None /\ k # P!None
      BY <1>1, <2>0
    <3> QED
      BY <3>1, <3>2
  <2>2. place \in 1 .. Len(ids) /\ ids[place] = id
    BY <1>3, <1>8
  <2> QED
    BY <1>10, <2>1, <2>2 DEF HasSeat
<1>17. Placed'
  <2>1. \A h \in cores : Seated(h)'
    BY <1>13, <1>14
  <2>2. ASSUME NEW i \in P!Ids'
        PROVE  (IF contexts[i].pid = P!None THEN contexts[i].core = P!None ELSE HasSeat(i))'
    <3>1. CASE i = id
      BY <1>16, <3>1
    <3>2. CASE i \in P!Ids
      BY <1>12, <1>15, <3>2 DEF Placed
    <3> QED
      BY <1>6, <3>1, <3>2
  <2>3. P!CoreSet' = cores
    BY SameMachine DEF cores
  <2> QED
    BY <2>1, <2>2, <2>3 DEF Placed
<1> QED
  BY <1>0, <1>4, <1>5, <1>6, <1>11, <1>12, <1>17
-----------------------------------------------------------------------------
(* What the pid handler knows *)

ProcType == [alive : BOOLEAN, parent : 0 .. P!MaxPids, children : Seq(Nat)]

LEMMA PlistFacts ==
    ASSUME CtxTypes
    PROVE  /\ plist \in Seq(ProcType) /\ Len(plist) \in Nat /\ Len(plist) <= P!MaxPids
           /\ P!Pids = 1 .. Len(plist) /\ P!Ids = 1 .. Len(contexts) /\ Len(contexts) \in Nat
           /\ \A p \in P!Pids : plist[p] \in ProcType
           /\ \A c \in P!Ids : contexts[c] \in CtxType
           /\ P!None = 0
<1>1. plist \in Seq(ProcType) /\ Len(plist) <= P!MaxPids /\ contexts \in Seq(CtxType)
  BY DEF CtxTypes, ProcType
<1>2. Len(plist) \in Nat /\ Len(contexts) \in Nat
  BY <1>1
<1>3. P!Pids = 1 .. Len(plist) /\ P!Ids = 1 .. Len(contexts) /\ P!None = 0
  BY DEF P!Pids, P!Ids, P!None
<1>4. \A p \in P!Pids : plist[p] \in ProcType
  BY <1>1, <1>3
<1>5. \A c \in P!Ids : contexts[c] \in CtxType
  BY <1>1, <1>3
<1> QED
  BY <1>1, <1>2, <1>3, <1>4, <1>5

LEMMA PlistStays ==
    ASSUME CtxTypes, Related, SamePlaces, plist' = plist
    PROVE  CtxTypes' /\ Related'
<1>1. P!Ids' = P!Ids /\ P!Pids' = P!Pids /\ P!KillKinds' = P!KillKinds /\ CtxType' = CtxType
      /\ P!MaxPids' = P!MaxPids
  BY SameMachine DEF SamePlaces, Counted, P!Ids, P!Pids
<1>2. CtxTypes'
  BY <1>1 DEF CtxTypes, SamePlaces, Counted
<1>3. \A c \in P!Ids : contexts'[c].pid = contexts[c].pid
  BY DEF SamePlaces, Counted
<1>4. P!AliveMatches => P!AliveMatches'
  BY <1>1, <1>3 DEF P!AliveMatches
<1>5. Related'
  BY <1>1, <1>3, <1>4 DEF Related
<1> QED
  BY <1>2, <1>5

(* An end that the pid handler is told of under the name it knows, if      *)
(* processes are killed by their number only.                              *)
LEMMA EndKept ==
    ASSUME CtxTypes, Related, machine' = machine, NEW v \in P!Ids, contexts[v].pid # P!None,
           NEW told, plist' = P!kill_pid(plist, told),
           P!KillKinds \subseteq {"kill"} => told = contexts[v].pid,
           P!Ids' = P!Ids, contexts' \in Seq(CtxType),
           \A i \in P!Ids : contexts'[i].pid = IF i = v THEN P!None ELSE contexts[i].pid
    PROVE  CtxTypes' /\ Related'
<1>1. /\ plist \in Seq(ProcType) /\ Len(plist) \in Nat /\ P!Pids = 1 .. Len(plist)
      /\ \A p \in P!Pids : plist[p] \in ProcType
  BY PlistFacts
<1>2. /\ plist' \in Seq(ProcType) /\ Len(plist') = Len(plist) /\ P!Pids' = P!Pids
      /\ \A p \in P!Pids : /\ plist'[p].children = plist[p].children
                           /\ plist'[p].parent = plist[p].parent
                           /\ plist'[p].alive = (plist[p].alive /\ p # told)
  <2>1. CASE told \in DOMAIN plist
    <3> DEFINE x == [plist[told] EXCEPT !.alive = FALSE]
    <3>1. told \in 1 .. Len(plist) /\ plist[told] \in ProcType
      BY <1>1, <2>1
    <3>2. /\ x \in ProcType /\ x.children = plist[told].children /\ x.parent = plist[told].parent
          /\ x.alive = FALSE
      BY <3>1 DEF ProcType
    <3>3. plist' = [plist EXCEPT ![told] = x]
      BY <2>1 DEF P!kill_pid
    <3> HIDE DEF x
    <3>4. /\ plist' \in Seq(ProcType) /\ Len(plist') = Len(plist)
          /\ \A p \in 1 .. Len(plist) : plist'[p] = IF p = told THEN x ELSE plist[p]
      BY <1>1, <3>1, <3>2, <3>3, Replaced
    <3>5. ASSUME NEW p \in P!Pids
          PROVE  /\ plist'[p].children = plist[p].children
                 /\ plist'[p].parent = plist[p].parent
                 /\ plist'[p].alive = (plist[p].alive /\ p # told)
      <4>1. CASE p = told
        BY <1>1, <3>2, <3>4, <4>1
      <4>2. CASE p # told
        <5>1. plist'[p] = plist[p] /\ plist[p].alive \in BOOLEAN
          BY <1>1, <3>4, <4>2 DEF ProcType
        <5> QED
          BY <4>2, <5>1
      <4> QED
        BY <4>1, <4>2
    <3> QED
      BY <1>1, <3>4, <3>5 DEF P!Pids
  <2>2. CASE told \notin DOMAIN plist
    <3>1. plist' = plist /\ \A p \in P!Pids : p # told /\ plist[p].alive \in BOOLEAN
      BY <1>1, <2>2 DEF P!kill_pid, ProcType
    <3> QED
      BY <1>1, <3>1 DEF P!Pids
  <2> QED
    BY <2>1, <2>2
<1>3. P!KillKinds' = P!KillKinds /\ CtxType' = CtxType /\ P!MaxPids' = P!MaxPids
  BY SameMachine
<1>4. CtxTypes'
  BY <1>2, <1>3 DEF CtxTypes, ProcType
<1>5. P!None = 0 /\ contexts[v].pid \in P!Pids
  <2>1. contexts[v].pid \in 0 .. Len(plist) /\ P!None = 0
    BY PlistFacts DEF Related
  <2> QED
    BY <1>1, <2>1
<1>6. ASSUME P!KillKinds \subseteq {"kill"} PROVE P!AliveMatches'
  <2>1. P!AliveMatches /\ told = contexts[v].pid
    BY <1>6 DEF Related
  <2>2. ASSUME NEW p \in P!Pids
        PROVE  plist'[p].alive <=> \E c \in P!Ids : contexts'[c].pid = p
    <3>1. p # P!None
      BY <1>1, <1>5
    <3>2. plist[p].alive <=> \E c \in P!Ids : contexts[c].pid = p
      BY <2>1 DEF P!AliveMatches
    <3>3. \A c \in P!Ids : contexts'[c].pid = p <=> (c # v /\ contexts[c].pid = p)
      BY <3>1
    <3>4. CASE p = told
      <4>1. \A c \in P!Ids : contexts[c].pid = p => c = v
        BY <2>1, <3>4, <1>5 DEF Related
      <4>2. ~plist'[p].alive
        BY <1>2, <3>4
      <4> QED
        BY <3>3, <4>1, <4>2
    <3>5. CASE p # told
      <4>1. plist'[p].alive <=> plist[p].alive
        BY <1>2, <3>5
      <4> QED
        BY <2>1, <3>2, <3>3, <3>5, <4>1
    <3> QED
      BY <3>4, <3>5
  <2> QED
    BY <1>2, <2>2 DEF P!AliveMatches
<1>7. Related'
  <2>1. \A c \in P!Ids : contexts'[c].pid \in 0 .. Len(plist')
    BY <1>1, <1>2, <1>5 DEF Related
  <2>2. \A c, d \in P!Ids :
          contexts'[c].pid = contexts'[d].pid /\ contexts'[c].pid # P!None => c = d
    BY DEF Related
  <2>3. ASSUME NEW p \in P!Pids
        PROVE  /\ P!IsInjective(plist'[p].children)
               /\ \A i \in 1 .. Len(plist'[p].children) :
                     plist'[p].children[i] \in P!Pids /\ plist'[plist'[p].children[i]].parent = p
    <3>1. plist'[p].children = plist[p].children
      BY <1>2
    <3>2. /\ P!IsInjective(plist[p].children)
          /\ \A i \in 1 .. Len(plist[p].children) :
                plist[p].children[i] \in P!Pids /\ plist[plist[p].children[i]].parent = p
      BY DEF Related
    <3>3. \A q \in P!Pids : plist'[q].parent = plist[q].parent
      BY <1>2
    <3> HIDE DEF Related
    <3> QED
      BY <3>1, <3>2, <3>3
  <2>4. ASSUME NEW p \in P!Pids, NEW q \in P!Pids, plist'[q].parent = p, plist'[q].alive
        PROVE  \E i \in 1 .. Len(plist'[p].children) : plist'[p].children[i] = q
    <3>1. plist[q].parent = p /\ plist[q].alive
      BY <1>2, <2>4
    <3>2. \E i \in 1 .. Len(plist[p].children) : plist[p].children[i] = q
      BY <3>1 DEF Related
    <3>3. plist'[p].children = plist[p].children
      BY <1>2
    <3> QED
      BY <3>2, <3>3
  <2>5. \A p \in P!Pids : plist'[p].parent \in 0 .. Len(plist')
    BY <1>2 DEF Related
  <2>6. P!None' = P!None
    BY DEF P!None
  <2> QED
    BY <1>2, <1>3, <1>6, <2>1, <2>2, <2>3, <2>4, <2>5, <2>6 DEF Related
<1> QED
  BY <1>4, <1>7
(* fork.                                                                   *)
LEMMA ForkKept ==
    ASSUME CtxTypes, Related, machine' = machine, NEW c \in P!Ids, contexts[c].pid # P!None,
           plist' = P!ForkedList(contexts[c].pid), Len(plist) < P!MaxPids,
           contexts' \in Seq(CtxType),
           P!Ids' = P!Ids \cup {Len(contexts) + 1},
           contexts'[Len(contexts) + 1].pid = Len(plist) + 1,
           \A i \in P!Ids : contexts'[i].pid = contexts[i].pid
    PROVE  CtxTypes' /\ Related'
<1>1. /\ plist \in Seq(ProcType) /\ Len(plist) \in Nat /\ P!Pids = 1 .. Len(plist)
      /\ \A p \in P!Pids : plist[p] \in ProcType
      /\ P!Ids = 1 .. Len(contexts) /\ Len(contexts) \in Nat /\ P!None = 0
  BY PlistFacts
<1>2. /\ P!MaxPids \in Nat /\ P!KillKinds' = P!KillKinds /\ CtxType' = CtxType
      /\ P!MaxPids' = P!MaxPids
  BY MachineFacts, SameMachine
<1>3. PICK pid \in P!Pids : pid = contexts[c].pid
  <2>1. contexts[c].pid \in 0 .. Len(plist)
    BY DEF Related
  <2> QED
    BY <1>1, <2>1
<1>4. PICK new \in Nat : new = Len(plist) + 1
  BY <1>1
<1>5. PICK id \in Nat : id = Len(contexts) + 1
  BY <1>1
<1>6. /\ plist[pid].children \in Seq(Nat) /\ plist[pid] \in ProcType
      /\ P!IsInjective(plist[pid].children)
      /\ \A i \in 1 .. Len(plist[pid].children) :
            plist[pid].children[i] \in P!Pids /\ plist[plist[pid].children[i]].parent = pid
  BY <1>1 DEF ProcType, Related
<1> DEFINE kids == Append(plist[pid].children, new)
           x == [plist[pid] EXCEPT !.children = kids]
           child == P!Process(pid)
<1>7. /\ kids \in Seq(Nat) /\ Len(kids) = Len(plist[pid].children) + 1
      /\ Len(plist[pid].children) \in Nat
      /\ \A i \in 1 .. Len(plist[pid].children) : kids[i] = plist[pid].children[i]
      /\ kids[Len(plist[pid].children) + 1] = new
  BY <1>6
<1>8. P!IsInjective(kids)
  <2> HIDE DEF kids
  <2> DEFINE n == Len(plist[pid].children)
             old == plist[pid].children
  <2>1. \A i \in 1 .. n : old[i] # new /\ kids[i] = old[i]
    <3>1. \A i \in 1 .. n : old[i] \in P!Pids /\ kids[i] = old[i]
      BY <1>6, <1>7
    <3>2. \A p \in P!Pids : p # new
      BY <1>1, <1>4
    <3> QED
      BY <3>1, <3>2
  <2>2. \A i, j \in 1 .. n : old[i] = old[j] => i = j
    BY <1>6, SMTT(30) DEF P!IsInjective
  <2>3. n \in Nat /\ Len(kids) = n + 1 /\ kids[n + 1] = new
    BY <1>7
  <2> HIDE DEF n, old
  <2>4. \A i \in 1 .. n + 1 : i = n + 1 \/ i \in 1 .. n
    BY <2>3
  <2>5. \A i, j \in 1 .. n + 1 : kids[i] = kids[j] => i = j
    BY <2>1, <2>2, <2>3, <2>4
  <2> QED
    BY <2>3, <2>5, <1>7 DEF P!IsInjective
<1>9. /\ x \in ProcType /\ x.alive = plist[pid].alive /\ x.parent = plist[pid].parent
      /\ x.children = kids
  <2> HIDE DEF kids
  <2> QED
    BY <1>6, <1>7 DEF ProcType
<1>10. /\ child \in ProcType /\ child.alive = TRUE /\ child.parent = pid /\ child.children = <<>>
  <2>1. pid \in 0 .. P!MaxPids
    BY <1>1, <1>2, PlistFacts
  <2> QED
    BY <2>1 DEF ProcType, P!Process
<1>11. plist' = Append([plist EXCEPT ![pid] = x], child)
  BY <1>1, <1>3, <1>4 DEF P!ForkedList
<1> HIDE DEF kids, x, child
<1>12. /\ [plist EXCEPT ![pid] = x] \in Seq(ProcType)
       /\ Len([plist EXCEPT ![pid] = x]) = Len(plist)
       /\ \A p \in 1 .. Len(plist) : [plist EXCEPT ![pid] = x][p] = IF p = pid THEN x ELSE plist[p]
  BY <1>1, <1>9, Replaced
<1>13. /\ plist' \in Seq(ProcType) /\ Len(plist') = new /\ plist'[new] = child
       /\ \A p \in P!Pids : plist'[p] = IF p = pid THEN x ELSE plist[p]
  <2> DEFINE s == [plist EXCEPT ![pid] = x]
  <2>1. s \in Seq(ProcType) /\ child \in ProcType /\ plist' = Append(s, child) /\ Len(s) = Len(plist)
    BY <1>10, <1>11, <1>12
  <2>2. \A p \in P!Pids : s[p] = IF p = pid THEN x ELSE plist[p]
    BY <1>1, <1>12
  <2> HIDE DEF s
  <2>3. /\ plist' \in Seq(ProcType) /\ Len(plist') = Len(s) + 1 /\ plist'[Len(s) + 1] = child
        /\ \A p \in 1 .. Len(s) : plist'[p] = s[p]
    BY <2>1, Appended
  <2> QED
    BY <1>1, <1>4, <2>1, <2>2, <2>3
<1>14. P!Pids' = P!Pids \cup {new} /\ P!Ids' = P!Ids \cup {id} /\ new \notin P!Pids /\ id \notin P!Ids
  BY <1>1, <1>4, <1>5, <1>13 DEF P!Pids
<1>15. CtxTypes'
  BY <1>2, <1>4, <1>13 DEF CtxTypes, ProcType
<1>16. /\ contexts'[id].pid = new /\ \A i \in P!Ids : contexts'[i].pid = contexts[i].pid
       /\ \A i \in P!Ids : contexts[i].pid \in 0 .. Len(plist) /\ contexts[i].pid # new
  BY <1>1, <1>4, <1>5 DEF Related
<1>17. /\ plist'[new].alive /\ plist'[new].parent = pid /\ plist'[new].children = <<>>
       /\ plist'[pid].children = kids
       /\ \A p \in P!Pids : /\ plist'[p].alive = plist[p].alive /\ plist'[p].parent = plist[p].parent
                            /\ p # pid => plist'[p].children = plist[p].children
  BY <1>9, <1>10, <1>13
<1>18. ASSUME P!KillKinds \subseteq {"kill"} PROVE P!AliveMatches'
  <2>1. \A p \in P!Pids : plist[p].alive <=> \E d \in P!Ids : contexts[d].pid = p
    BY <1>18 DEF Related, P!AliveMatches
  <2>2. ASSUME NEW p \in P!Pids \cup {new}
        PROVE  plist'[p].alive <=> \E d \in P!Ids \cup {id} : contexts'[d].pid = p
    <3>1. CASE p = new
      BY <1>16, <1>17, <3>1
    <3>2. CASE p # new
      <4>1. p \in P!Pids /\ contexts'[id].pid # p
        BY <1>16, <3>2
      <4>2. plist'[p].alive <=> plist[p].alive
        BY <1>17, <4>1
      <4>3. (\E d \in P!Ids \cup {id} : contexts'[d].pid = p) <=> \E d \in P!Ids : contexts[d].pid = p
        BY <1>16, <4>1
      <4>4. plist[p].alive <=> \E d \in P!Ids : contexts[d].pid = p
        BY <2>1, <4>1
      <4> QED
        BY <4>2, <4>3, <4>4
    <3> QED
      BY <3>1, <3>2
  <2> QED
    BY <1>14, <2>2 DEF P!AliveMatches
<1>19. \A d \in P!Ids \cup {id} : contexts'[d].pid \in 0 .. new
  <2>1. new \in 0 .. new /\ \A m \in 0 .. Len(plist) : m \in 0 .. new
    BY <1>1, <1>4
  <2>2. \A d \in P!Ids : contexts'[d].pid \in 0 .. Len(plist)
    BY <1>16
  <2> QED
    BY <1>16, <2>1, <2>2
<1>20. \A d, e \in P!Ids \cup {id} :
          contexts'[d].pid = contexts'[e].pid /\ contexts'[d].pid # P!None => d = e
  <2>1. \A d, e \in P!Ids : contexts[d].pid = contexts[e].pid /\ contexts[d].pid # P!None => d = e
    BY DEF Related
  <2> QED
    BY <1>16, <2>1
<1>21. ASSUME NEW p \in P!Pids \cup {new}
       PROVE  /\ P!IsInjective(plist'[p].children)
              /\ \A i \in 1 .. Len(plist'[p].children) :
                    /\ plist'[p].children[i] \in P!Pids \cup {new}
                    /\ plist'[plist'[p].children[i]].parent = p
  <2>1. CASE p = new
    BY <1>17, <2>1 DEF P!IsInjective
  <2>2. CASE p = pid
    <3>1. plist'[p].children = kids
      BY <1>17, <2>2
    <3>2. ASSUME NEW i \in 1 .. Len(kids)
          PROVE  kids[i] \in P!Pids \cup {new} /\ plist'[kids[i]].parent = pid
      <4>1. CASE i = Len(plist[pid].children) + 1
        BY <1>7, <1>17, <4>1
      <4>2. CASE i # Len(plist[pid].children) + 1
        <5>1. i \in 1 .. Len(plist[pid].children)
          <6> DEFINE n == Len(plist[pid].children)
          <6>1. n \in Nat /\ i \in 1 .. n + 1 /\ i # n + 1
            BY <1>7, <4>2
          <6> HIDE DEF n
          <6>2. i \in 1 .. n
            BY <6>1
          <6> QED
            BY <6>2 DEF n
        <5>2. kids[i] \in P!Pids /\ plist[kids[i]].parent = pid
          BY <1>6, <1>7, <5>1
        <5> QED
          BY <1>17, <5>2
      <4> QED
        BY <4>1, <4>2
    <3> QED
      BY <1>8, <2>2, <3>1, <3>2
  <2>3. CASE p # new /\ p # pid
    <3>1. p \in P!Pids /\ plist'[p].children = plist[p].children
      BY <1>17, <2>3
    <3>2. /\ P!IsInjective(plist[p].children)
          /\ \A i \in 1 .. Len(plist[p].children) :
                plist[p].children[i] \in P!Pids /\ plist[plist[p].children[i]].parent = p
      BY <3>1 DEF Related
    <3> DEFINE k == plist[p].children
    <3>3. /\ P!IsInjective(k) /\ plist'[p].children = k
          /\ \A i \in 1 .. Len(k) : k[i] \in P!Pids /\ plist[k[i]].parent = p
      BY <3>1, <3>2
    <3> HIDE DEF k
    <3>4. \A i \in 1 .. Len(k) : k[i] \in P!Pids \cup {new} /\ plist'[k[i]].parent = p
      BY <1>17, <3>3
    <3> QED
      BY <3>3, <3>4
  <2> QED
    BY <2>1, <2>2, <2>3
<1>22. ASSUME NEW p \in P!Pids \cup {new}, NEW q \in P!Pids \cup {new},
              plist'[q].parent = p, plist'[q].alive
       PROVE  \E i \in 1 .. Len(plist'[p].children) : plist'[p].children[i] = q
  <2>1. CASE q = new
    <3>1. p = pid /\ plist'[p].children = kids
      BY <1>17, <1>22, <2>1
    <3>2. Len(plist[pid].children) + 1 \in 1 .. Len(kids)
      BY <1>7
    <3> QED
      BY <1>7, <2>1, <3>1, <3>2
  <2>2. CASE q # new
    <3>1. q \in P!Pids /\ plist[q].parent = p /\ plist[q].alive
      BY <1>17, <1>22, <2>2
    <3>2. p \in P!Pids
      <4>1. CASE p = new
        <5>1. plist[q].parent \in 0 .. Len(plist)
          BY <3>1 DEF Related
        <5> QED
          BY <1>1, <1>4, <3>1, <4>1, <5>1
      <4> QED
        BY <4>1
    <3>3. PICK i \in 1 .. Len(plist[p].children) : plist[p].children[i] = q
      BY <3>1, <3>2 DEF Related
    <3>4. CASE p = pid
      <4>1. plist'[p].children = kids /\ i \in 1 .. Len(plist[pid].children)
        BY <1>17, <3>3, <3>4
      <4>2. i \in 1 .. Len(kids)
        <5> DEFINE n == Len(plist[pid].children)
        <5>1. n \in Nat /\ i \in 1 .. n /\ Len(kids) = n + 1
          BY <1>7, <4>1
        <5> HIDE DEF n
        <5> QED
          BY <5>1
      <4> QED
        BY <1>7, <3>3, <3>4, <4>1, <4>2
    <3>5. CASE p # pid
      BY <1>17, <3>2, <3>3, <3>5
    <3> QED
      BY <3>4, <3>5
  <2> QED
    BY <2>1, <2>2
<1>23. P!None' = P!None
  BY DEF P!None
<1>24. \A p \in P!Pids \cup {new} : plist'[p].parent \in 0 .. Len(plist')
  <2>1. \A p \in P!Pids : plist[p].parent \in 0 .. Len(plist)
    BY DEF Related
  <2> QED
    <3>1. Len(plist') \in Nat /\ Len(plist') = Len(plist) + 1 /\ Len(plist) \in Nat
      BY <1>1, <1>4, <1>13
    <3>2. \A m \in 0 .. Len(plist) : m \in 0 .. Len(plist')
      BY <3>1
    <3>3. \A p \in P!Pids : plist'[p].parent \in 0 .. Len(plist)
      BY <1>17, <2>1
    <3>4. plist'[new].parent \in 0 .. Len(plist')
      <4>1. plist'[new].parent \in 1 .. Len(plist)
        BY <1>1, <1>17
      <4> QED
        BY <3>1, <4>1
    <3> QED
      BY <3>2, <3>3, <3>4
<1>25. /\ (\A d \in P!Ids : contexts[d].pid \in 0 .. Len(plist))'
       /\ (\A d, e \in P!Ids :
              contexts[d].pid = contexts[e].pid /\ contexts[d].pid # P!None => d = e)'
  BY <1>13, <1>14, <1>19, <1>20, <1>23
<1>26. /\ (\A p \in P!Pids : plist[p].parent \in 0 .. Len(plist))'
       /\ (\A p \in P!Pids :
              /\ P!IsInjective(plist[p].children)
              /\ \A i \in 1 .. Len(plist[p].children) :
                    plist[p].children[i] \in P!Pids /\ plist[plist[p].children[i]].parent = p)'
  <2>1. (\A p \in P!Pids : plist[p].parent \in 0 .. Len(plist))'
    BY <1>14, <1>24
  <2>2. \A p \in P!Pids' :
          /\ P!IsInjective(plist'[p].children)
          /\ \A i \in 1 .. Len(plist'[p].children) :
                /\ plist'[p].children[i] \in P!Pids'
                /\ plist'[plist'[p].children[i]].parent = p
    BY <1>14, <1>21
  <2> QED
    BY <2>1, <2>2 DEF P!IsInjective
<1>27. (\A p, q \in P!Pids : plist[q].parent = p /\ plist[q].alive =>
          \E i \in 1 .. Len(plist[p].children) : plist[p].children[i] = q)'
  BY <1>14, <1>22
<1>28. (P!KillKinds \subseteq {"kill"} => P!AliveMatches)'
  BY <1>2, <1>18
<1> QED
  BY <1>15, <1>25, <1>26, <1>27, <1>28 DEF Related

(* The first of a set of positions.                                       *)
LEMMA Least ==
    ASSUME NEW n \in Nat, NEW T \in SUBSET (1 .. n), T # {}
    PROVE  /\ (CHOOSE i \in T : \A o \in T : i <= o) \in T
           /\ \A o \in T : (CHOOSE i \in T : \A j \in T : i <= j) <= o
<1>1. T \in SUBSET Nat
  OBVIOUS
<1>2. \E i \in T : \A o \in T : i <= o
  BY <1>1, LeastNat
<1> QED
  BY <1>2

(* get_retval takes the child that has ended off the list.                 *)
LEMMA CollectedKept ==
    ASSUME CtxTypes, Related, SamePlaces, NEW p \in P!Pids, NEW who, P!Reapable(p, who) # {},
           plist' = [plist EXCEPT ![p].children = P!RemoveAt(@, P!FirstReapable(p, who))]
    PROVE  CtxTypes' /\ Related'
<1>1. /\ plist \in Seq(ProcType) /\ Len(plist) \in Nat /\ P!Pids = 1 .. Len(plist)
      /\ \A q \in P!Pids : plist[q] \in ProcType
      /\ P!Ids = 1 .. Len(contexts) /\ P!None = 0
  BY PlistFacts
<1>2. /\ P!Ids' = P!Ids /\ P!KillKinds' = P!KillKinds /\ CtxType' = CtxType
      /\ P!MaxPids' = P!MaxPids /\ P!None' = P!None
      /\ \A d \in P!Ids : contexts'[d].pid = contexts[d].pid
  BY SameMachine DEF SamePlaces, Counted, P!Ids, P!None
<1> DEFINE old == plist[p].children
           i == P!FirstReapable(p, who)
           kids == At(old, i)
           x == [plist[p] EXCEPT !.children = kids]
<1>3. /\ old \in Seq(Nat) /\ Len(old) \in Nat /\ P!IsInjective(old)
      /\ \A m \in 1 .. Len(old) : old[m] \in P!Pids /\ plist[old[m]].parent = p
  BY <1>1 DEF ProcType, Related
<1>4. i \in 1 .. Len(old) /\ ~plist[old[i]].alive
  <2>1. P!Reapable(p, who) \in SUBSET (1 .. Len(old))
    BY <1>3 DEF P!Reapable
  <2>2. i \in P!Reapable(p, who)
    <3> DEFINE T == P!Reapable(p, who)
    <3>1. Len(old) \in Nat /\ T \in SUBSET (1 .. Len(old)) /\ T # {}
      BY <1>3, <2>1
    <3> HIDE DEF T
    <3>2. (CHOOSE m \in T : \A o \in T : m <= o) \in T
      BY <3>1, Least
    <3> QED
      BY <3>2 DEF T, P!FirstReapable
  <2> QED
    BY <2>1, <2>2 DEF P!Reapable
<1>5. plist' = [plist EXCEPT ![p] = x]
  BY <1>1 DEF At
<1> HIDE DEF old, i
<1>6. /\ kids \in Seq(Nat) /\ P!IsInjective(kids) /\ Len(kids) = Len(old) - 1
      /\ \A l \in 1 .. Len(old) - 1 : \E m \in 1 .. Len(old) : kids[l] = old[m] /\ m # i
      /\ \A m \in 1 .. Len(old) : m # i => \E l \in 1 .. Len(old) - 1 : kids[l] = old[m]
  BY <1>3, <1>4, Removed, RemovedElements, ZenonT(30)
<1>7. /\ x \in ProcType /\ x.children = kids /\ x.alive = plist[p].alive
      /\ x.parent = plist[p].parent
  <2> HIDE DEF kids
  <2> QED
    BY <1>1, <1>6 DEF ProcType
<1> HIDE DEF x, kids
<1>8. /\ plist' \in Seq(ProcType) /\ Len(plist') = Len(plist)
      /\ \A q \in 1 .. Len(plist) : plist'[q] = IF q = p THEN x ELSE plist[q]
  BY <1>1, <1>5, <1>7, Replaced
<1>9. /\ P!Pids' = P!Pids /\ plist'[p].children = kids
      /\ \A q \in P!Pids : /\ plist'[q].parent = plist[q].parent
                           /\ plist'[q].alive = plist[q].alive
                           /\ q # p => plist'[q].children = plist[q].children
  BY <1>1, <1>7, <1>8 DEF P!Pids
<1>10. CtxTypes'
  BY <1>2, <1>8 DEF CtxTypes, ProcType, SamePlaces, Counted
<1>11. P!AliveMatches => P!AliveMatches'
  BY <1>2, <1>9 DEF P!AliveMatches
<1>12. ASSUME NEW q \in P!Pids
       PROVE  /\ P!IsInjective(plist'[q].children)
              /\ \A m \in 1 .. Len(plist'[q].children) :
                    plist'[q].children[m] \in P!Pids /\ plist'[plist'[q].children[m]].parent = q
  <2>1. CASE q = p
    <3>1. ASSUME NEW l \in 1 .. Len(kids)
          PROVE  kids[l] \in P!Pids /\ plist'[kids[l]].parent = p
      <4>1. PICK m \in 1 .. Len(old) : kids[l] = old[m]
        BY <1>6
      <4>2. old[m] \in P!Pids /\ plist[old[m]].parent = p
        BY <1>3
      <4> QED
        BY <1>9, <4>1, <4>2
    <3>2. plist'[q].children = kids
      BY <1>9, <2>1
    <3> QED
      BY <1>6, <2>1, <3>1, <3>2
  <2>2. CASE q # p
    <3>1. /\ P!IsInjective(plist[q].children)
          /\ \A m \in 1 .. Len(plist[q].children) :
                plist[q].children[m] \in P!Pids /\ plist[plist[q].children[m]].parent = q
      BY DEF Related
    <3> QED
      BY <1>9, <2>2, <3>1
  <2> QED
    BY <2>1, <2>2
<1>13. ASSUME NEW h \in P!Pids, NEW q \in P!Pids, plist'[q].parent = h, plist'[q].alive
       PROVE  \E m \in 1 .. Len(plist'[h].children) : plist'[h].children[m] = q
  <2>1. plist[q].parent = h /\ plist[q].alive
    BY <1>9, <1>13
  <2>2. \E m \in 1 .. Len(plist[h].children) : plist[h].children[m] = q
    BY <2>1 DEF Related
  <2>3. CASE h = p
    <3>1. PICK m \in 1 .. Len(old) : old[m] = q
      BY <2>2, <2>3 DEF old
    <3>2. m # i
      BY <1>4, <2>1, <3>1
    <3>3. \E l \in 1 .. Len(old) - 1 : kids[l] = q
      BY <1>6, <3>1, <3>2
    <3> QED
      BY <1>6, <1>9, <2>3, <3>3
  <2>4. CASE h # p
    BY <1>9, <2>2, <2>4
  <2> QED
    BY <2>3, <2>4
<1>14. \A q \in P!Pids : plist'[q].parent \in 0 .. Len(plist')
  BY <1>8, <1>9 DEF Related
<1>15. /\ \A d \in P!Ids : contexts'[d].pid \in 0 .. Len(plist')
       /\ \A d, e \in P!Ids :
            contexts'[d].pid = contexts'[e].pid /\ contexts'[d].pid # P!None => d = e
  BY <1>2, <1>8 DEF Related
<1>16. P!KillKinds' \subseteq {"kill"} => P!AliveMatches'
  BY <1>2, <1>11 DEF Related
<1> QED
  BY <1>2, <1>9, <1>10, <1>12, <1>13, <1>14, <1>15, <1>16 DEF Related

-----------------------------------------------------------------------------
(* The system calls *)

(* What a call writes of a context that has neither to do with its place   *)
(* nor with its pid.                                                       *)
LEMMA Written ==
    ASSUME CtxTypes, NEW cs, Counted(cs), NEW c \in P!Ids, NEW x \in CtxType,
           x.pid = cs[c].pid, x.core = cs[c].core, x.pred = cs[c].pred
    PROVE  Counted([cs EXCEPT ![c] = x])
<1>1. cs \in Seq(CtxType) /\ c \in 1 .. Len(cs) /\ Len(cs) = Len(contexts) /\ P!Ids = 1 .. Len(cs)
  BY PlistFacts DEF Counted
<1>2. /\ [cs EXCEPT ![c] = x] \in Seq(CtxType) /\ Len([cs EXCEPT ![c] = x]) = Len(cs)
      /\ \A j \in 1 .. Len(cs) : [cs EXCEPT ![c] = x][j] = IF j = c THEN x ELSE cs[j]
  BY <1>1, Replaced
<1> QED
  BY <1>1, <1>2 DEF Counted

LEMMA CountedNow ==
    ASSUME CtxTypes
    PROVE  /\ Counted(contexts)
           /\ \A cs, c : Counted(cs) /\ c \in P!Ids => cs[c] \in CtxType
<1>1. Counted(contexts)
  BY DEF CtxTypes, Counted
<1>2. ASSUME NEW cs, NEW c \in P!Ids, Counted(cs) PROVE cs[c] \in CtxType
  BY <1>2, PlistFacts DEF Counted
<1> QED
  BY <1>1, <1>2

(* The call leaves places, pids and processes as they are.                 *)
LEMMA CallStays ==
    ASSUME CallInv, machine' = machine, Counted(contexts'),
           context_ids' = context_ids, pred' = pred, pred_list' = pred_list, plist' = plist
    PROVE  CallInv' /\ P!Ids \subseteq P!Ids'
<1>1. SamePlaces
  BY DEF SamePlaces
<1> QED
  BY <1>1, PlacesStay, PlistStays DEF CallInv

LEMMA ForkCall ==
    ASSUME CallInv, machine' = machine, NEW cs, Counted(cs), NEW c \in P!Ids,
           contexts[c].pid # P!None, P!fork(cs, c)
    PROVE  CallInv' /\ P!Ids \subseteq P!Ids'
<1>1. CASE P!CoreForFork = P!None
  <2>1. contexts' = cs /\ plist' = plist /\ context_ids' = context_ids /\ pred' = pred
        /\ pred_list' = pred_list
    BY <1>1 DEF P!fork, P!held
  <2> QED
    BY <2>1, CallStays
<1>2. CASE P!CoreForFork # P!None
  <2> DEFINE free == {h \in P!CoreSet : P!HasRoom(h)}
  <2>1. P!CoreForFork \in P!CoreSet /\ P!HasRoom(P!CoreForFork)
    <3>1. \E h \in P!CoreSet : P!HasRoom(h)
      BY <1>2 DEF P!CoreForFork
    <3>2. P!CoreSet = 1 .. P!Cores /\ P!Cores \in Nat
      BY MachineFacts DEF P!CoreSet, CallInv
    <3>3. PICK h \in free : \A o \in free : h <= o
      <4>1. free \in SUBSET Nat /\ free # {}
        BY <3>1, <3>2
      <4> HIDE DEF free
      <4> QED
        BY <4>1, LeastNat
    <3>4. P!HasRoom(h) /\ \A l \in 1 .. h - 1 : ~P!HasRoom(l)
      BY <3>2, <3>3
    <3> QED
      BY <3>1, <3>4 DEF P!CoreForFork
  <2>2. PICK k \in P!CoreSet : k = P!CoreForFork /\ P!HasRoom(k)
    BY <2>1
  <2>3. PICK pid \in 1 .. P!MaxPids : pid = Len(plist) + 1 /\ Len(plist) < P!MaxPids
    <3>1. Len(plist) < P!MaxPids
      BY DEF P!fork
    <3>2. Len(plist) \in Nat /\ P!MaxPids \in Nat
      BY PlistFacts, MachineFacts DEF CallInv
    <3> QED
      BY <3>1, <3>2
  <2>4. /\ P!Attached(k, Len(contexts) + 1)
        /\ contexts' = Append(cs, Child(c, pid, k))
        /\ plist' = P!ForkedList(contexts[c].pid)
    BY <1>2, <2>2, <2>3 DEF P!fork, Child, P!AddLocation
  <2>5. /\ CoreTypes' /\ Placed' /\ P!Ids' = P!Ids \cup {Len(contexts) + 1}
        /\ contexts' \in Seq(CtxType)
        /\ contexts'[Len(contexts) + 1].pid = pid
        /\ \A i \in P!Ids : contexts'[i].pid = contexts[i].pid
    <3>1. /\ CtxTypes /\ CoreTypes /\ Placed /\ machine' = machine /\ Counted(cs)
          /\ P!HasRoom(k) /\ P!Attached(k, Len(contexts) + 1)
          /\ contexts' = Append(cs, Child(c, pid, k))
      BY <2>2, <2>4 DEF CallInv
    <3> QED
      BY <3>1, ForkPlaces
  <2>6. CtxTypes' /\ Related'
    BY <2>3, <2>4, <2>5, ForkKept DEF CallInv
  <2> QED
    BY <2>5, <2>6 DEF CallInv
<1> QED
  BY <1>1, <1>2

(* exit, and kill of a context that has a place.                           *)
LEMMA EndCall ==
    ASSUME CallInv, machine' = machine, NEW cs, Counted(cs), NEW v \in P!Ids,
           contexts[v].pid # P!None, P!Ejected(v),
           contexts' = [cs EXCEPT ![v].pid = P!None, ![v].core = P!None],
           NEW told, plist' = P!kill_pid(plist, told),
           P!KillKinds \subseteq {"kill"} => told = contexts[v].pid
    PROVE  CallInv' /\ P!Ids \subseteq P!Ids'
<1>1. /\ CoreTypes' /\ Placed' /\ P!Ids' = P!Ids /\ contexts' \in Seq(CtxType)
      /\ \A i \in P!Ids : contexts'[i].pid = IF i = v THEN P!None ELSE contexts[i].pid
  BY EjectPlaces DEF CallInv
<1>2. CtxTypes' /\ Related'
  BY <1>1, EndKept DEF CallInv
<1> QED
  BY <1>1, <1>2 DEF CallInv

LEMMA KillCall ==
    ASSUME CallInv, machine' = machine, NEW cs, Counted(cs), NEW killwho, NEW told,
           P!kill(cs, killwho, told),
           P!KillKinds \subseteq {"kill"} => told = killwho /\ killwho # 0
    PROVE  CallInv' /\ P!Ids \subseteq P!Ids'
<1> DEFINE victims == {i \in P!Ids : killwho = 0 \/ contexts[i].pid = killwho}
           first == CHOOSE i \in victims : \A o \in victims : i <= o
<1>1. CASE victims = {} \/ contexts[first].core = P!None
  <2>1. contexts' = cs /\ plist' = plist /\ context_ids' = context_ids /\ pred' = pred
        /\ pred_list' = pred_list
    BY <1>1 DEF P!kill, P!held
  <2> QED
    BY <2>1, CallStays
<1>2. CASE victims # {} /\ contexts[first].core # P!None
  <2>1. first \in victims
    <3>1. victims \in SUBSET (1 .. Len(contexts)) /\ Len(contexts) \in Nat
      BY PlistFacts DEF CallInv
    <3> HIDE DEF victims
    <3> QED
      BY <1>2, <3>1, Least
  <2>2. PICK v \in victims : v = first
    BY <2>1
  <2>3. /\ P!Ejected(v) /\ plist' = P!kill_pid(plist, told)
        /\ contexts' = [cs EXCEPT ![v].pid = P!None, ![v].core = P!None]
    BY <1>2, <2>2 DEF P!kill
  <2>4. v \in P!Ids /\ contexts[v].core # P!None
    BY <1>2, <2>2
  <2> HIDE DEF first
  <2>5. contexts[v].pid # P!None
    BY <2>4 DEF CallInv, Placed
  <2>6. P!KillKinds \subseteq {"kill"} => told = contexts[v].pid
    BY <2>2
  <2> QED
    BY <2>3, <2>4, <2>5, <2>6, EndCall
<1> QED
  BY <1>1, <1>2

LEMMA WaitCall ==
    ASSUME CallInv, machine' = machine, NEW cs, Counted(cs), NEW c \in P!Ids,
           contexts[c].pid # P!None, NEW who \in -1 .. P!MaxPids, P!wait4(cs, c, who)
    PROVE  CallInv' /\ P!Ids \subseteq P!Ids'
<1>1. /\ cs[c] \in CtxType /\ P!None \in -1 .. P!MaxPids
      /\ Counted(contexts) /\ cs \in Seq(CtxType) /\ c \in DOMAIN cs
  <2>1. cs[c] \in CtxType /\ cs \in Seq(CtxType) /\ Counted(contexts)
    BY CountedNow DEF CallInv, Counted
  <2>2. c \in DOMAIN cs
    BY <2>1, PlistFacts DEF CallInv, Counted
  <2>3. P!None \in -1 .. P!MaxPids
    BY MachineFacts DEF CallInv, P!None
  <2> QED
    BY <2>1, <2>2, <2>3
<1>2. context_ids' = context_ids /\ pred' = pred /\ pred_list' = pred_list
  BY DEF P!wait4, P!held
<1> DEFINE p == contexts[c].pid
<1>3. p \in P!Pids
  <2>1. p \in 0 .. Len(plist)
    BY DEF CallInv, Related
  <2>2. P!Pids = 1 .. Len(plist) /\ Len(plist) \in Nat /\ P!None = 0
    BY PlistFacts DEF CallInv
  <2> QED
    BY <2>1, <2>2
<1>4. CASE ~P!get_retval(p, who)
  <2> DEFINE x == [cs[c] EXCEPT !.waiting = who, !.retry = who]
  <2>1. x \in CtxType /\ x.pid = cs[c].pid /\ x.core = cs[c].core /\ x.pred = cs[c].pred
    BY <1>1 DEF CtxType
  <2>2. contexts' = [cs EXCEPT ![c] = x] /\ plist' = plist
    BY <1>1, <1>4 DEF P!wait4
  <2> HIDE DEF x
  <2>3. Counted(contexts')
    BY <2>1, <2>2, Written DEF CallInv
  <2> QED
    BY <1>2, <2>2, <2>3, CallStays
<1>5. CASE P!get_retval(p, who)
  <2> DEFINE x == [cs[c] EXCEPT !.retry = P!None]
  <2>1. x \in CtxType /\ x.pid = cs[c].pid /\ x.core = cs[c].core /\ x.pred = cs[c].pred
    BY <1>1 DEF CtxType
  <2>2. contexts' = [cs EXCEPT ![c] = x]
    BY <1>1, <1>5 DEF P!wait4
  <2> HIDE DEF x
  <2>3. Counted(contexts')
    BY <2>1, <2>2, Written DEF CallInv
  <2>4. CASE P!Reapable(p, who) = {}
    <3>1. plist' = plist
      BY <1>5, <2>4 DEF P!wait4
    <3> QED
      BY <1>2, <2>3, <3>1, CallStays
  <2>5. CASE P!Reapable(p, who) # {}
    <3>1. plist' = [plist EXCEPT ![p].children = P!RemoveAt(@, P!FirstReapable(p, who))]
      BY <1>5, <2>5 DEF P!wait4
    <3>2. SamePlaces
      BY <1>2, <2>3 DEF SamePlaces
    <3> HIDE DEF p
    <3>3. CtxTypes' /\ Related'
      BY <1>3, <2>5, <3>1, <3>2, CollectedKept DEF CallInv
    <3>4. CoreTypes' /\ Placed' /\ P!Ids' = P!Ids
      BY <3>2, PlacesStay DEF CallInv
    <3> QED
      BY <3>3, <3>4 DEF CallInv
  <2> QED
    BY <2>4, <2>5
<1> QED
  BY <1>4, <1>5
LEMMA CallKept ==
    ASSUME CallInv, machine' = machine, NEW cs, Counted(cs), NEW c \in P!Ids,
           contexts[c].pid # P!None, P!Syscall(cs, c)
    PROVE  CallInv' /\ P!Ids \subseteq P!Ids'
<1>1. /\ P!MaxPids \in Nat /\ P!Check \in Nat /\ Len(plist) \in Nat /\ Len(plist) <= P!MaxPids
      /\ P!Pids = 1 .. Len(plist) /\ cs[c] \in CtxType /\ cs \in Seq(CtxType) /\ c \in DOMAIN cs
      /\ P!None = 0 /\ P!KillKinds \subseteq {"kill", "group", "zero", "thread"}
  BY MachineFacts, PlistFacts, CountedNow DEF CallInv, Counted
<1>2. ASSUME P!wait4(cs, c, contexts[c].retry)
      PROVE  CallInv' /\ P!Ids \subseteq P!Ids'
  <2>1. contexts[c].retry \in -1 .. P!MaxPids
    BY PlistFacts DEF CallInv, CtxType
  <2> QED
    BY <1>2, <2>1, WaitCall
<1>3. CASE P!fork(cs, c)
  BY <1>3, ForkCall
<1>4. CASE P!exit(cs, c)
  <2>1. /\ P!Ejected(c) /\ plist' = P!kill_pid(plist, contexts[c].pid)
        /\ contexts' = [cs EXCEPT ![c].pid = P!None, ![c].core = P!None]
    BY <1>4 DEF P!exit
  <2>2. PICK told : told = contexts[c].pid
    OBVIOUS
  <2> QED
    BY <2>1, <2>2, EndCall
<1>5. ASSUME NEW kind \in P!KillKinds, P!Kill(cs, kind)
      PROVE  CallInv' /\ P!Ids \subseteq P!Ids'
  <2>1. CASE kind = "kill"
    <3>1. PICK p \in P!Pids : P!kill(cs, p, p)
      BY <1>5, <2>1 DEF P!Kill
    <3>2. p # 0
      BY <1>1
    <3> QED
      BY <3>1, <3>2, KillCall
  <2>2. CASE kind # "kill"
    <3>1. ~(P!KillKinds \subseteq {"kill"})
      BY <2>2
    <3>2. PICK killwho, told : P!kill(cs, killwho, told)
      BY <1>1, <1>5, <2>2 DEF P!Kill
    <3> QED
      BY <3>1, <3>2, KillCall
  <2> QED
    BY <2>1, <2>2
<1>6. ASSUME NEW who \in P!Pids \cup {P!AnyChild}, P!wait4(cs, c, who)
      PROVE  CallInv' /\ P!Ids \subseteq P!Ids'
  <2>1. who \in -1 .. P!MaxPids
    BY <1>1 DEF P!AnyChild
  <2> QED
    BY <1>6, <2>1, WaitCall
<1>7. CASE P!select(cs, c)
  <2> DEFINE x == [cs[c] EXCEPT !.check = P!Check]
  <2>0. P!Check \in 0 .. P!Check
    BY <1>1
  <2>1. x \in CtxType /\ x.pid = cs[c].pid /\ x.core = cs[c].core /\ x.pred = cs[c].pred
    BY <1>1, <2>0 DEF CtxType
  <2>2. /\ contexts' = [cs EXCEPT ![c] = x] /\ plist' = plist
        /\ context_ids' = context_ids /\ pred' = pred /\ pred_list' = pred_list
    BY <1>1, <1>7 DEF P!select, P!held
  <2> HIDE DEF x
  <2>3. Counted(contexts')
    BY <2>1, <2>2, Written DEF CallInv
  <2> QED
    BY <2>2, <2>3, CallStays
<1>8. CASE P!Other(cs)
  <2>1. /\ contexts' = cs /\ plist' = plist
        /\ context_ids' = context_ids /\ pred' = pred /\ pred_list' = pred_list
    BY <1>8 DEF P!Other, P!held
  <2> QED
    BY <2>1, CallStays
<1> QED
  BY <1>2, <1>3, <1>4, <1>5, <1>6, <1>7, <1>8 DEF P!Syscall

-----------------------------------------------------------------------------
(* The two loops *)

(* continue_fastfwd drops what is in front of the first that goes on.      *)
LEMMA Continued ==
    ASSUME NEW S, NEW cs, NEW list \in Seq(S)
    PROVE  P!continue_fastfwd(cs, list) \in Seq(S)
<1> DEFINE firsts == {i \in DOMAIN list : P!Fast(cs, list[i])}
           i == CHOOSE j \in firsts : \A o \in firsts : j <= o
<1>1. CASE firsts = {}
  BY <1>1 DEF P!continue_fastfwd
<1>2. CASE firsts # {}
  <2>1. i \in firsts
    <3>1. firsts \in SUBSET (1 .. Len(list)) /\ Len(list) \in Nat
      OBVIOUS
    <3> HIDE DEF firsts
    <3> QED
      BY <1>2, <3>1, Least
  <2>2. i \in 1 .. Len(list)
    BY <2>1
  <2>3. P!continue_fastfwd(cs, list) = SubSeq(list, i, Len(list))
    BY <1>2 DEF P!continue_fastfwd
  <2> HIDE DEF i, firsts
  <2> QED
    BY <2>2, <2>3
<1> QED
  BY <1>1, <1>2

(* Contexts that were forked meanwhile join the pass.                      *)
LEMMA JoinedIds ==
    ASSUME CtxTypes, left \in Seq(P!Ids), left # <<>>
    PROVE  P!Joined \in Seq(P!Ids)
<1>1. PICK n \in Nat : n = Len(contexts)
  BY PlistFacts
<1>2. P!Ids = 1 .. n
  BY <1>1 DEF P!Ids
<1>3. PICK last \in P!Ids : last = P!Last(left)
  <2>1. left[Len(left)] \in P!Ids
    BY <1>2
  <2> QED
    BY <2>1 DEF P!Last
<1>4. PICK m \in Nat : m = n - last
  BY <1>2
<1> DEFINE more == [i \in 1 .. m |-> last + i]
<1>5. more \in Seq(P!Ids)
  <2>1. \A i \in 1 .. m : last + i \in P!Ids
    BY <1>2, <1>4
  <2>2. IsTable(more, m, P!Ids)
    BY <2>1 DEF IsTable
  <2> HIDE DEF more
  <2> QED
    BY <2>2, TablesAreSeqs
<1>6. P!Joined = left \o more
  BY <1>1, <1>3, <1>4 DEF P!Joined
<1> HIDE DEF more
<1> QED
  BY <1>5, <1>6, ConcatProperties
(* What the loop writes of the context whose turn it is.                   *)
Turned(c, w, k, n) == [contexts[c] EXCEPT !.waiting = w, !.check = k, !.fast = n]

LEMMA TurnCounted ==
    ASSUME CtxTypes, NEW c \in P!Ids
    PROVE  /\ Counted(P!Counted(contexts, c))
           /\ contexts[c].check > 1 => Counted(P!Counted([contexts EXCEPT ![c].check = @ - 1], c))
           /\ Counted(P!Counted([contexts EXCEPT ![c].waiting = P!None, ![c].check = 0], c))
           /\ Counted([contexts EXCEPT ![c].waiting = P!None, ![c].check = 0])
           /\ contexts[c].check > 1 => Counted([contexts EXCEPT ![c].check = @ - 1])
<1>1. /\ contexts \in Seq(CtxType) /\ c \in DOMAIN contexts /\ contexts[c] \in CtxType
      /\ Counted(contexts) /\ P!None \in -1 .. P!MaxPids /\ 0 \in 0 .. P!Check
      /\ P!Check \in Nat
  <2>1. P!MaxPids \in Nat /\ P!Check \in Nat /\ P!None = 0
    BY MachineFacts, PlistFacts
  <2>2. contexts \in Seq(CtxType) /\ contexts[c] \in CtxType /\ Counted(contexts)
    BY PlistFacts, CountedNow DEF CtxTypes
  <2>3. c \in DOMAIN contexts
    BY <2>2, PlistFacts
  <2> QED
    BY <2>1, <2>2, <2>3
<1>2. \A n \in Int : P!Spent(n) \in Int
  BY DEF P!Spent
<1>3. ASSUME NEW w \in -1 .. P!MaxPids, NEW k \in 0 .. P!Check, NEW n \in Int
      PROVE  Counted([contexts EXCEPT ![c] = Turned(c, w, k, n)])
  <2> DEFINE x == Turned(c, w, k, n)
  <2>1. x \in CtxType /\ x.pid = contexts[c].pid /\ x.core = contexts[c].core /\ x.pred = contexts[c].pred
    BY <1>1 DEF CtxType, Turned
  <2> QED
    BY <1>1, <2>1, Written
<1> DEFINE w == contexts[c].waiting
           k == contexts[c].check
           n == contexts[c].fast
<1>4. w \in -1 .. P!MaxPids /\ k \in 0 .. P!Check /\ n \in Int /\ P!Spent(n) \in Int
  BY <1>1, <1>2 DEF CtxType
<1>5. k > 1 => k - 1 \in 0 .. P!Check
  BY <1>1, <1>4
<1>6. P!Counted(contexts, c) =
        [contexts EXCEPT ![c] = Turned(c, w, k, P!Spent(n))]
  BY <1>1 DEF P!Counted, CtxType, Turned
<1>7. P!Counted([contexts EXCEPT ![c].check = @ - 1], c) =
        [contexts EXCEPT ![c] = Turned(c, w, k - 1, P!Spent(n))]
  BY <1>1 DEF P!Counted, CtxType, Turned
<1>8. P!Counted([contexts EXCEPT ![c].waiting = P!None, ![c].check = 0], c) =
        [contexts EXCEPT ![c] = Turned(c, P!None, 0, P!Spent(n))]
  BY <1>1 DEF P!Counted, CtxType, Turned
<1>9. [contexts EXCEPT ![c].waiting = P!None, ![c].check = 0] =
        [contexts EXCEPT ![c] = Turned(c, P!None, 0, n)]
  BY <1>1 DEF CtxType, Turned
<1>10. [contexts EXCEPT ![c].check = @ - 1] =
        [contexts EXCEPT ![c] = Turned(c, w, k - 1, n)]
  BY <1>1 DEF CtxType, Turned
<1> HIDE DEF w, k, n
<1>11. Counted(P!Counted(contexts, c))
  BY <1>3, <1>4, <1>6
<1>12. k > 1 => Counted(P!Counted([contexts EXCEPT ![c].check = @ - 1], c))
  BY <1>3, <1>4, <1>5, <1>7
<1>13. Counted(P!Counted([contexts EXCEPT ![c].waiting = P!None, ![c].check = 0], c))
  BY <1>1, <1>3, <1>4, <1>8
<1>14. Counted([contexts EXCEPT ![c].waiting = P!None, ![c].check = 0])
  BY <1>1, <1>3, <1>4, <1>9
<1>15. k > 1 => Counted([contexts EXCEPT ![c].check = @ - 1])
  BY <1>3, <1>4, <1>5, <1>10
<1> QED
  BY <1>11, <1>12, <1>13, <1>14, <1>15 DEF k

LEMMA LoopKept ==
    ASSUME machine' = machine, P!Ids \subseteq P!Ids', mode' \in {"fast", "timing"},
           mode' = "fast" => left' # <<>>, left' \in Seq(P!Ids), at' \in Nat \ {0},
           core' \in 0 .. P!Cores, cycle' \in Nat
    PROVE  LoopTypes'
<1>1. left' \in Seq(P!Ids')
  BY SeqsGrow
<1> QED
  BY <1>1, SameMachine DEF LoopTypes

LEMMA AdvancedKept ==
    ASSUME LoopTypes, machine' = machine, P!Ids \subseteq P!Ids', P!Advanced
    PROVE  LoopTypes'
<1>1. /\ mode' = mode /\ left' = left /\ core' = core /\ cycle' = cycle /\ at' = at + 1
  BY DEF P!Advanced
<1>2. at' \in Nat \ {0}
  BY <1>1 DEF LoopTypes
<1> QED
  BY <1>1, <1>2, LoopKept DEF LoopTypes

LEMMA HereIs ==
    ASSUME LoopTypes, left # <<>>
    PROVE  P!Here \in 1 .. Len(left) /\ Len(left) \in Nat \ {0}
<1>1. Len(left) \in Nat \ {0} /\ at \in Nat \ {0}
  BY DEF LoopTypes
<1>2. (at - 1) % Len(left) \in 0 .. Len(left) - 1
  BY <1>1
<1> QED
  BY <1>1, <1>2 DEF P!Here

LEMMA DroppedKept ==
    ASSUME LoopTypes, machine' = machine, P!Ids \subseteq P!Ids', P!Dropped, left # <<>>,
           mode = "timing"
    PROVE  LoopTypes'
<1>1. P!Here \in 1 .. Len(left) /\ Len(left) \in Nat \ {0} /\ left \in Seq(P!Ids)
  BY HereIs DEF LoopTypes
<1>2. /\ mode' = mode /\ core' = core /\ cycle' = cycle /\ at' = P!Here /\ left' = At(left, P!Here)
  BY DEF P!Dropped, At
<1>3. left' \in Seq(P!Ids)
  BY <1>1, <1>2, Removed
<1>4. at' \in Nat \ {0}
  BY <1>1, <1>2
<1> QED
  BY <1>2, <1>3, <1>4, LoopKept DEF LoopTypes

LEMMA FastStep ==
    ASSUME ProcInv, machine' = machine, NEW c \in P!Ids,
           P!FastWait(c) \/ P!FastWake(c) \/ P!FastRun(c) \/ P!FastRunDetached(c)
    PROVE  ProcInv'
<1>1. CallInv /\ CtxTypes /\ LoopTypes
  BY DEF ProcInv, CallInv
<1>2. CASE P!FastWait(c) \/ P!FastWake(c)
  <2>1. Counted(contexts')
    BY <1>1, <1>2, TurnCounted DEF P!FastWait, P!FastWake
  <2>2. /\ context_ids' = context_ids /\ pred' = pred /\ pred_list' = pred_list /\ plist' = plist
        /\ P!Advanced
    BY <1>2 DEF P!FastWait, P!FastWake, P!held
  <2>3. CallInv' /\ P!Ids \subseteq P!Ids'
    BY <1>1, <2>1, <2>2, CallStays
  <2> QED
    BY <1>1, <2>2, <2>3, AdvancedKept DEF ProcInv
<1>3. CASE P!FastRun(c)
  <2> DEFINE cs == [contexts EXCEPT ![c].fast = P!Spent(@)]
  <2>1. cs = P!Counted(contexts, c)
    BY DEF P!Counted
  <2>2. contexts[c].pid # P!None /\ P!Syscall(cs, c) /\ P!Advanced
    BY <1>3 DEF P!FastRun
  <2> HIDE DEF cs
  <2>3. Counted(cs)
    BY <1>1, <2>1, TurnCounted
  <2>4. CallInv' /\ P!Ids \subseteq P!Ids'
    BY <1>1, <2>2, <2>3, CallKept
  <2> QED
    BY <1>1, <2>2, <2>4, AdvancedKept DEF ProcInv
<1>4. CASE P!FastRunDetached(c)
  <2>1. /\ contexts' = contexts /\ context_ids' = context_ids /\ pred' = pred
        /\ pred_list' = pred_list /\ plist' = plist
        /\ mode' = mode /\ left' = left /\ at' = at /\ core' = core /\ cycle' = cycle
    BY <1>4 DEF P!FastRunDetached, P!held, P!loop
  <2>2. CallInv' /\ P!Ids \subseteq P!Ids'
    BY <1>1, <2>1, CountedNow, CallStays
  <2> QED
    BY <1>1, <2>1, <2>2, LoopKept DEF ProcInv, LoopTypes
<1> QED
  BY <1>2, <1>3, <1>4

(* What leaves contexts, places and processes alone.                       *)
LEMMA PassStep ==
    ASSUME ProcInv, machine' = machine,
           P!FastPass \/ P!RenameStart \/ P!CycleEnd \/ P!RenameStop
    PROVE  ProcInv'
<1>1. CallInv /\ CtxTypes /\ LoopTypes /\ CoreTypes
  BY DEF ProcInv, CallInv
<1>2. CallInv' /\ P!Ids \subseteq P!Ids'
  <2>1. /\ contexts' = contexts /\ context_ids' = context_ids /\ pred' = pred
        /\ pred_list' = pred_list /\ plist' = plist
    BY DEF P!FastPass, P!RenameStart, P!CycleEnd, P!RenameStop, P!held
  <2> QED
    BY <1>1, <2>1, CountedNow, CallStays
<1>3. CASE P!FastPass
  <2>1. left \in Seq(P!Ids) /\ left # <<>>
    BY <1>1, <1>3 DEF LoopTypes, P!FastPass
  <2>2. left' \in Seq(P!Ids)
    <3>1. P!Joined \in Seq(P!Ids)
      BY <1>1, <2>1, JoinedIds
    <3>2. left' = P!continue_fastfwd(contexts, P!Joined)
      BY <1>3 DEF P!FastPass
    <3> QED
      BY <3>1, <3>2, Continued
  <2>3. /\ mode' \in {"fast", "timing"} /\ (mode' = "fast" => left' # <<>>)
        /\ at' = 1 /\ core' = core /\ cycle' = cycle
    BY <1>3 DEF P!FastPass
  <2> QED
    BY <1>1, <1>2, <2>2, <2>3, LoopKept DEF ProcInv, LoopTypes
<1>4. CASE P!RenameStart
  <2>1. /\ core' = core + 1 /\ left' = context_ids[core + 1] /\ mode = "timing" /\ mode' = mode
        /\ cycle' = cycle /\ core < P!Cores
        /\ at' = IF left' = <<>> THEN 1 ELSE (cycle % Len(left')) + 1
    BY <1>4 DEF P!RenameStart, P!Timing
  <2>2. core' \in 0 .. P!Cores /\ core + 1 \in P!CoreSet
    BY <1>1, <2>1, MachineFacts DEF LoopTypes, P!CoreSet
  <2>3. left' \in Seq(P!Ids)
    BY <1>1, <2>1, <2>2 DEF CoreTypes
  <2>4. at' \in Nat \ {0}
    <3>1. CASE left' = <<>>
      BY <2>1, <3>1
    <3>2. CASE left' # <<>>
      <4>1. Len(left') \in Nat \ {0} /\ cycle \in Nat
        BY <1>1, <2>3, <3>2 DEF LoopTypes
      <4> DEFINE m == Len(left')
      <4>2. m \in Nat \ {0} /\ cycle \in Nat /\ at' = (cycle % m) + 1
        BY <2>1, <3>2, <4>1
      <4> HIDE DEF m
      <4> QED
        BY <4>2
    <3> QED
      BY <3>1, <3>2
  <2> QED
    BY <1>1, <1>2, <2>1, <2>2, <2>3, <2>4, LoopKept DEF ProcInv, LoopTypes
<1>5. CASE P!CycleEnd
  <2>1. /\ core' = 0 /\ cycle' = (cycle + 1) % P!CycleBound
        /\ mode' = mode /\ left' = left /\ at' = at
    BY <1>5 DEF P!CycleEnd
  <2>2. core' \in 0 .. P!Cores /\ cycle' \in Nat
    BY <1>1, <2>1, MachineFacts DEF LoopTypes
  <2> QED
    BY <1>1, <1>2, <2>1, <2>2, LoopKept DEF ProcInv, LoopTypes
<1>6. CASE P!RenameStop
  <2>1. left' = <<>> /\ mode = "timing" /\ mode' = mode /\ at' = at /\ core' = core /\ cycle' = cycle
    BY <1>6 DEF P!RenameStop, P!Timing
  <2> QED
    BY <1>1, <1>2, <2>1, LoopKept DEF ProcInv, LoopTypes
<1> QED
  BY <1>3, <1>4, <1>5, <1>6

LEMMA RenameStep ==
    ASSUME ProcInv, machine' = machine, P!RenameWait \/ P!RenameWake \/ P!RenameRun
    PROVE  ProcInv'
<1>1. CallInv /\ CtxTypes /\ LoopTypes /\ left # <<>> /\ mode = "timing" /\ P!Here \in 1 .. Len(left)
      /\ Counted(contexts)
  <2>1. CallInv /\ CtxTypes /\ LoopTypes /\ left # <<>> /\ mode = "timing"
    BY DEF ProcInv, CallInv, P!RenameWait, P!RenameWake, P!RenameRun, P!Timing
  <2> QED
    BY <2>1, HereIs, CountedNow
<1>2. P!Looked \notin P!Ids =>
        /\ [contexts EXCEPT ![P!Looked].check = @ - 1] = contexts
        /\ [contexts EXCEPT ![P!Looked].waiting = P!None, ![P!Looked].check = 0] = contexts
  <2>1. contexts \in Seq(CtxType) /\ DOMAIN contexts = P!Ids
    BY <1>1, PlistFacts DEF CtxTypes
  <2> QED
    BY <2>1
<1>3. CASE P!RenameWait
  <2>1. Counted(contexts')
    BY <1>1, <1>2, <1>3, TurnCounted DEF P!RenameWait, P!StillSelects
  <2>2. /\ context_ids' = context_ids /\ pred' = pred /\ pred_list' = pred_list /\ plist' = plist
        /\ P!Dropped
    BY <1>3 DEF P!RenameWait, P!held
  <2>3. CallInv' /\ P!Ids \subseteq P!Ids'
    BY <1>1, <2>1, <2>2, CallStays
  <2> QED
    BY <1>1, <2>2, <2>3, DroppedKept DEF ProcInv
<1>4. CASE P!RenameWake
  <2>1. Counted(contexts')
    BY <1>1, <1>2, <1>4, TurnCounted DEF P!RenameWake
  <2>2. /\ context_ids' = context_ids /\ pred' = pred /\ pred_list' = pred_list /\ plist' = plist
        /\ mode' = mode /\ left' = left /\ at' = at /\ core' = core /\ cycle' = cycle
    BY <1>4 DEF P!RenameWake, P!held, P!loop
  <2>3. CallInv' /\ P!Ids \subseteq P!Ids'
    BY <1>1, <2>1, <2>2, CallStays
  <2> QED
    BY <1>1, <2>2, <2>3, LoopKept DEF ProcInv, LoopTypes
<1>5. CASE P!RenameRun
  <2>1. PICK c \in P!Ids : c = left[P!Here]
    BY <1>1 DEF LoopTypes
  <2>2. CASE contexts[c].pid # P!None /\ ~P!Interrupted(c)
    <3>1. P!Syscall(contexts, c) /\ P!Dropped
      BY <1>5, <2>1, <2>2 DEF P!RenameRun
    <3>2. CallInv' /\ P!Ids \subseteq P!Ids'
      BY <1>1, <2>2, <3>1, CallKept
    <3> QED
      BY <1>1, <3>1, <3>2, DroppedKept DEF ProcInv
  <2>3. CASE ~(contexts[c].pid # P!None /\ ~P!Interrupted(c))
    <3>1. /\ contexts' = contexts /\ context_ids' = context_ids /\ pred' = pred
          /\ pred_list' = pred_list /\ plist' = plist /\ P!Dropped
      BY <1>5, <2>1, <2>3 DEF P!RenameRun, P!Other, P!held
    <3>2. CallInv' /\ P!Ids \subseteq P!Ids'
      BY <1>1, <3>1, CallStays
    <3> QED
      BY <1>1, <3>1, <3>2, DroppedKept DEF ProcInv
  <2> QED
    BY <2>2, <2>3
<1> QED
  BY <1>3, <1>4, <1>5
-----------------------------------------------------------------------------
(* The programs of the command line on their cores *)

LEMMA Split ==
    ASSUME NEW m \in Nat \ {0}, NEW a \in Nat
    PROVE  a \div m \in Nat /\ a % m \in 0 .. m - 1 /\ a = (a \div m) * m + (a % m)
<1>1. a \div m \in Int /\ a % m \in 0 .. m - 1 /\ a = m * (a \div m) + (a % m)
  BY SMT
<1>2. a \div m >= 0
  BY SMT
<1> QED
  BY <1>1, <1>2, SMT

LEMMA Below ==
    ASSUME NEW m \in Nat \ {0}, NEW p \in Int, NEW q \in Int, NEW r \in 0 .. m - 1
    PROVE  /\ (p + 1) * m = p * m + m /\ p * m \in Int /\ q * m \in Int
           /\ p * m + r < q * m => p + 1 <= q
           /\ p >= 0 => p * m >= 0
BY SMT

LEMMA SplitOnce ==
    ASSUME NEW m \in Nat \ {0}, NEW q \in Nat, NEW r \in 0 .. m - 1
    PROVE  (q * m + r) \div m = q /\ (q * m + r) % m = r
<1>1. PICK a \in Nat : a = q * m + r
  BY SMT
<1>2. a \div m \in Nat /\ a % m \in 0 .. m - 1 /\ a = (a \div m) * m + (a % m)
  BY <1>1, Split
<1> DEFINE d == a \div m
           e == a % m
<1>3. d \in Nat /\ e \in 0 .. m - 1 /\ d * m + e = q * m + r
  BY <1>1, <1>2
<1> HIDE DEF d, e
<1>4. d = q
  <2>1. ~(d < q) /\ ~(q < d)
    BY <1>3, SMT
  <2> QED
    BY <1>3, <2>1
<1>5. e = r
  BY <1>3, <1>4, SMT
<1> QED
  BY <1>1, <1>4, <1>5 DEF d, e

LEMMA Ordered ==
    ASSUME NEW m \in Nat \ {0}, NEW p \in Int, NEW q \in Int, p <= q
    PROVE  p * m \in Int /\ q * m \in Int /\ p * m <= q * m
BY SMT

(* A program has the core and the place that its number divides into.      *)
LEMMA SeatOf ==
    ASSUME machine \in Machines, NEW c \in 1 .. P!Programs
    PROVE  \E k \in P!CoreSet, l \in P!Places :
              /\ P!Loaded(k, l) = c
              /\ ((c - 1) % P!Cores) + 1 = k /\ ((c - 1) \div P!Cores) + 1 = l
<1>1. PICK m \in Nat \ {0} : m = P!MaxContexts
  BY MachineGiven
<1>2. PICK n \in Nat \ {0} : n = P!Cores
  BY MachineGiven
<1>3. c \in Nat \ {0} /\ c <= m * n /\ P!CoreSet = 1 .. n /\ P!Places = 1 .. m
  <2>1. PICK z \in Int : z = n * m
    OBVIOUS
  <2>2. c \in 1 .. P!Programs /\ P!Programs \in 1 .. z
    BY <1>1, <1>2, <2>1, MachineGiven
  <2>3. n * m = m * n
    OBVIOUS
  <2> QED
    BY <1>1, <1>2, <2>1, <2>2, <2>3 DEF P!CoreSet, P!Places
<1>a. PICK a \in Nat : a = c - 1
  BY <1>3
<1> DEFINE q == a \div n
           r == a % n
<1>4. q \in Nat /\ r \in 0 .. n - 1 /\ c - 1 = q * n + r
  BY <1>a, Split
<1> HIDE DEF q, r
<1>5. q + 1 <= m
  <2>1. q * n \in Int /\ m * n \in Int
    BY <1>4, Below
  <2>2. q * n + r < m * n
    BY <1>3, <1>4, <2>1
  <2> QED
    BY <1>4, <2>2, Below
<1>6. r + 1 \in P!CoreSet /\ q + 1 \in P!Places
  BY <1>3, <1>4, <1>5
<1>7. P!Loaded(r + 1, q + 1) = c
  <2>1. P!Loaded(r + 1, q + 1) = ((q + 1) - 1) * n + (r + 1)
    BY <1>2 DEF P!Loaded
  <2>2. (q + 1) - 1 = q /\ q * n \in Int
    BY <1>4, Below
  <2> QED
    BY <1>3, <1>4, <2>1, <2>2
<1> QED
  BY <1>a, <1>2, <1>6, <1>7 DEF q, r

(* The program at a place is the one whose number divides into it.         *)
LEMMA SeatTaken ==
    ASSUME machine \in Machines, NEW k \in P!CoreSet, NEW l \in P!Places
    PROVE  /\ P!Loaded(k, l) \in Nat \ {0}
           /\ ((P!Loaded(k, l) - 1) % P!Cores) + 1 = k
           /\ ((P!Loaded(k, l) - 1) \div P!Cores) + 1 = l
<1>1. PICK n \in Nat \ {0} : n = P!Cores
  BY MachineGiven
<1>2. l \in Nat \ {0} /\ k \in 1 .. n
  BY <1>1, MachineGiven DEF P!CoreSet, P!Places
<1>3. PICK q \in Nat : q = l - 1
  BY <1>2
<1>4. PICK r \in 0 .. n - 1 : r = k - 1
  BY <1>2
<1>5. q * n \in Int /\ q * n >= 0
  BY <1>3, Below
<1>6. P!Loaded(k, l) = q * n + k
  BY <1>1, <1>3 DEF P!Loaded
<1>7. P!Loaded(k, l) \in Nat \ {0} /\ P!Loaded(k, l) - 1 = q * n + r
  BY <1>2, <1>4, <1>5, <1>6
<1>8. (q * n + r) \div n = q /\ (q * n + r) % n = r
  BY SplitOnce
<1> QED
  BY <1>1, <1>2, <1>3, <1>4, <1>7, <1>8

(* The places that are taken come first.                                   *)
LEMMA TakenFirst ==
    ASSUME machine \in Machines, NEW k \in P!CoreSet
    PROVE  \E n \in 0 .. P!MaxContexts :
              {i \in P!Places : P!Loaded(k, i) <= P!Programs} = 1 .. n
<1>1. PICK m \in Nat \ {0} : m = P!MaxContexts
  BY MachineGiven
<1>2. PICK h \in Nat \ {0} : h = P!Cores
  BY MachineGiven
<1>3. k \in Nat /\ P!Places = 1 .. m
  BY <1>1, <1>2, MachineGiven DEF P!CoreSet, P!Places
<1>4. PICK programs \in Int : programs = P!Programs
  <2>1. PICK z \in Int : z = P!Cores * P!MaxContexts
    BY MachineGiven
  <2>2. P!Programs \in 1 .. z
    BY <2>1, MachineGiven
  <2> QED
    BY <2>2
<1>5. \A i, j \in 1 .. m : i <= j /\ P!Loaded(k, j) <= programs => P!Loaded(k, i) <= programs
  <2>1. SUFFICES ASSUME NEW i \in 1 .. m, NEW j \in 1 .. m, i <= j, P!Loaded(k, j) <= programs
                 PROVE  P!Loaded(k, i) <= programs
    OBVIOUS
  <2>2. PICK p \in Int : p = i - 1
    OBVIOUS
  <2>3. PICK q \in Int : q = j - 1
    OBVIOUS
  <2>4. P!Loaded(k, i) = p * h + k /\ P!Loaded(k, j) = q * h + k
    BY <1>2, <2>2, <2>3 DEF P!Loaded
  <2>5. p * h \in Int /\ q * h \in Int /\ p * h <= q * h
    BY <2>1, <2>2, <2>3, Ordered
  <2> QED
    BY <1>3, <2>1, <2>4, <2>5
<1> DEFINE T == {i \in 1 .. m + 1 : i = m + 1 \/ ~(P!Loaded(k, i) <= programs)}
<1>6. PICK x \in T : \A y \in T : x <= y
  <2>1. T \in SUBSET Nat /\ T # {}
    OBVIOUS
  <2> HIDE DEF T
  <2> QED
    BY <2>1, LeastNat
<1>7. PICK n \in 0 .. m : x = n + 1
  <2>1. x \in 1 .. m + 1
    BY <1>6
  <2>2. x - 1 \in 0 .. m /\ x = (x - 1) + 1
    BY <2>1
  <2> QED
    BY <2>2
<1>8. \A i \in 1 .. m : P!Loaded(k, i) <= programs <=> i <= n
  <2>1. SUFFICES ASSUME NEW i \in 1 .. m PROVE P!Loaded(k, i) <= programs <=> i <= n
    OBVIOUS
  <2>2. CASE i <= n
    <3>1. i \notin T
      <4>1. ~(x <= i)
        BY <1>7, <2>2
      <4> QED
        BY <1>6, <4>1
    <3>2. i \in 1 .. m + 1
      OBVIOUS
    <3> QED
      BY <2>2, <3>1, <3>2
  <2>3. CASE ~(i <= n)
    <3>1. x <= i /\ x \in 1 .. m
      BY <1>7, <2>3
    <3>2. ~(P!Loaded(k, x) <= programs)
      BY <1>6, <3>1
    <3> QED
      BY <1>5, <2>3, <3>1, <3>2
  <2> QED
    BY <2>2, <2>3
<1>9. {i \in 1 .. m : P!Loaded(k, i) <= programs} = 1 .. n
  <2>1. \A i : i \in 1 .. n <=> i \in 1 .. m /\ i <= n
    BY <1>7
  <2> QED
    BY <1>8, <2>1
<1> QED
  BY <1>1, <1>3, <1>4, <1>7, <1>9

LEMMA InitTypes ==
    ASSUME P!Init
    PROVE  /\ CtxTypes /\ P!Ids = 1 .. P!Programs /\ P!Pids = 1 .. P!Programs
           /\ P!Programs \in Nat \ {0} /\ Len(plist) = P!Programs
           /\ \A c \in P!Ids : contexts[c].pid = c /\ contexts[c].core # P!None
           /\ \A p \in P!Pids : plist[p] = P!Process(P!None)
           /\ \A k \in P!CoreSet, l \in P!Places : P!Loaded(k, l) <= P!Programs =>
                /\ P!Loaded(k, l) \in P!Ids /\ contexts[P!Loaded(k, l)].core = k
                /\ contexts[P!Loaded(k, l)].pred = <<k, l>>
<1>1. PICK n \in Nat \ {0} : n = P!Programs
  <2>1. PICK z \in Int : z = P!Cores * P!MaxContexts
    BY MachineGiven DEF P!Init
  <2>2. P!Programs \in 1 .. z
    BY <2>1, MachineGiven DEF P!Init
  <2> QED
    BY <2>2
<1>2. /\ P!MaxPids \in Nat /\ P!Check \in Nat /\ n <= P!MaxPids /\ P!FastForward \in [1 .. n -> Int]
      /\ P!CoreSet = 1 .. P!Cores /\ P!Cores \in Nat /\ P!None = 0 /\ machine \in Machines
  BY <1>1, MachineGiven DEF P!Init, P!CoreSet, P!None
<1>3. ASSUME NEW c \in 1 .. n
      PROVE  /\ P!Start(c) \in CtxType /\ P!Start(c).pid = c /\ P!Start(c).core # P!None
             /\ P!Start(c).core = ((c - 1) % P!Cores) + 1
             /\ P!Start(c).pred = <<((c - 1) % P!Cores) + 1, ((c - 1) \div P!Cores) + 1>>
  <2>1. PICK k \in P!CoreSet, l \in P!Places :
              ((c - 1) % P!Cores) + 1 = k /\ ((c - 1) \div P!Cores) + 1 = l
    BY <1>1, <1>2, SeatOf
  <2>2. P!Start(c) = [pid |-> c, core |-> k, pred |-> <<k, l>>, waiting |-> P!None,
                      check |-> 0, retry |-> P!None, fast |-> P!FastForward[c]]
    BY <2>1 DEF P!Start
  <2>3. /\ c \in 0 .. P!MaxPids /\ k \in 0 .. P!Cores /\ k # P!None /\ P!None \in -1 .. P!MaxPids
        /\ 0 \in 0 .. P!Check /\ P!FastForward[c] \in Int
    BY <1>2
  <2>4. P!Start(c) \in CtxType
    BY <2>2, <2>3 DEF CtxType
  <2> QED
    BY <2>1, <2>2, <2>3, <2>4
<1>4. /\ contexts = [c \in 1 .. n |-> P!Start(c)] /\ plist = [c \in 1 .. n |-> P!Process(P!None)]
  BY <1>1 DEF P!Init
<1>5. contexts \in Seq(CtxType) /\ Len(contexts) = n
  <2>1. IsTable(contexts, n, CtxType)
    BY <1>3, <1>4 DEF IsTable
  <2> QED
    BY <2>1, TablesAreSeqs
<1>6. /\ plist \in Seq([alive : BOOLEAN, parent : 0 .. P!MaxPids, children : Seq(Nat)])
      /\ Len(plist) = n
  <2>1. P!Process(P!None) \in [alive : BOOLEAN, parent : 0 .. P!MaxPids, children : Seq(Nat)]
    BY <1>2 DEF P!Process
  <2>2. IsTable(plist, n, [alive : BOOLEAN, parent : 0 .. P!MaxPids, children : Seq(Nat)])
    BY <1>4, <2>1 DEF IsTable
  <2> QED
    BY <2>2, TablesAreSeqs
<1>7. CtxTypes
  BY <1>2, <1>5, <1>6 DEF CtxTypes
<1>8. P!Ids = 1 .. n /\ P!Pids = 1 .. n
  BY <1>5, <1>6 DEF P!Ids, P!Pids
<1>9. ASSUME NEW k \in P!CoreSet, NEW l \in P!Places, P!Loaded(k, l) <= n
      PROVE  /\ P!Loaded(k, l) \in P!Ids /\ contexts[P!Loaded(k, l)].core = k
             /\ contexts[P!Loaded(k, l)].pred = <<k, l>>
  <2>1. /\ P!Loaded(k, l) \in Nat \ {0}
        /\ ((P!Loaded(k, l) - 1) % P!Cores) + 1 = k
        /\ ((P!Loaded(k, l) - 1) \div P!Cores) + 1 = l
    BY <1>2, SeatTaken
  <2>2. PICK c \in 1 .. n : c = P!Loaded(k, l)
    BY <1>9, <2>1
  <2>3. ((c - 1) % P!Cores) + 1 = k /\ ((c - 1) \div P!Cores) + 1 = l
    BY <2>1, <2>2
  <2>4. contexts[c] = P!Start(c)
    BY <1>4
  <2> QED
    BY <1>3, <1>8, <2>2, <2>3, <2>4
<1>10. \A c \in 1 .. n : contexts[c].pid = c /\ contexts[c].core # P!None
  BY <1>3, <1>4
<1> QED
  BY <1>1, <1>4, <1>6, <1>7, <1>8, <1>9, <1>10

LEMMA InitPlaces ==
    ASSUME P!Init
    PROVE  CoreTypes /\ Placed
<1>1. /\ CtxTypes /\ P!Ids = 1 .. P!Programs /\ P!Programs \in Nat \ {0} /\ machine \in Machines
      /\ \A c \in P!Ids : contexts[c].pid = c /\ contexts[c].core # P!None
      /\ \A k \in P!CoreSet, l \in P!Places : P!Loaded(k, l) <= P!Programs =>
                /\ P!Loaded(k, l) \in P!Ids /\ contexts[P!Loaded(k, l)].core = k
                /\ contexts[P!Loaded(k, l)].pred = <<k, l>>
  BY InitTypes DEF CtxTypes
<1>2. /\ P!Places = 1 .. P!MaxContexts /\ P!MaxContexts \in Nat \ {0} /\ P!None = 0
  BY <1>1, MachineGiven DEF P!Places, P!None
<1>3. /\ context_ids \in [P!CoreSet -> Seq(P!Ids)]
      /\ \A k \in P!CoreSet : /\ Len(context_ids[k]) <= P!MaxContexts
                              /\ \A l \in 1 .. Len(context_ids[k]) :
                                    /\ l \in P!Places /\ context_ids[k][l] = P!Loaded(k, l)
                                    /\ P!Loaded(k, l) <= P!Programs
                              /\ \A l \in P!Places : P!Loaded(k, l) <= P!Programs =>
                                    l \in 1 .. Len(context_ids[k])
                              /\ DOMAIN context_ids[k] = 1 .. Len(context_ids[k])
  <2>1. ASSUME NEW k \in P!CoreSet
        PROVE  /\ context_ids[k] \in Seq(P!Ids) /\ Len(context_ids[k]) <= P!MaxContexts
               /\ \A l \in 1 .. Len(context_ids[k]) :
                     /\ l \in P!Places /\ context_ids[k][l] = P!Loaded(k, l)
                     /\ P!Loaded(k, l) <= P!Programs
               /\ \A l \in P!Places : P!Loaded(k, l) <= P!Programs => l \in 1 .. Len(context_ids[k])
               /\ DOMAIN context_ids[k] = 1 .. Len(context_ids[k])
    <3> DEFINE taken == {i \in P!Places : P!Loaded(k, i) <= P!Programs}
    <3>1. PICK n \in 0 .. P!MaxContexts : taken = 1 .. n
      BY <1>1, TakenFirst
    <3>2. context_ids[k] = [l \in taken |-> P!Loaded(k, l)]
      BY DEF P!Init
    <3>3. \A l \in 1 .. n : l \in P!Places /\ P!Loaded(k, l) <= P!Programs /\ P!Loaded(k, l) \in P!Ids
      BY <1>1, <3>1
    <3>4. \A l \in P!Places : P!Loaded(k, l) <= P!Programs => l \in 1 .. n
      BY <3>1
    <3> HIDE DEF taken
    <3>5. IsTable(context_ids[k], n, P!Ids) /\ n \in Nat
      BY <1>2, <3>1, <3>2, <3>3 DEF IsTable
    <3>6. context_ids[k] \in Seq(P!Ids) /\ Len(context_ids[k]) = n
      BY <3>5, TablesAreSeqs
    <3>7. \A l \in 1 .. n : context_ids[k][l] = P!Loaded(k, l)
      BY <3>1, <3>2
    <3>8. n <= P!MaxContexts /\ DOMAIN context_ids[k] = 1 .. n
      BY <1>2, <3>1, <3>2
    <3> QED
      BY <3>3, <3>4, <3>6, <3>7, <3>8
  <2>2. context_ids = [k \in P!CoreSet |-> context_ids[k]]
    BY DEF P!Init
  <2>3. context_ids \in [P!CoreSet -> Seq(P!Ids)]
    BY <2>1, <2>2
  <2> QED
    BY <2>1, <2>3
<1>4. /\ pred = [k \in P!CoreSet |-> [l \in P!Places |-> <<k, l>>]]
      /\ pred_list = [k \in P!CoreSet |-> [l \in P!Places |->
            IF l \in DOMAIN context_ids[k] THEN context_ids[k][l] ELSE P!None]]
  BY DEF P!Init
<1>5. CoreTypes
  <2>1. pred \in [P!CoreSet -> [P!Places -> P!CoreSet \X P!Places]]
    BY <1>4
  <2>2. ASSUME NEW k \in P!CoreSet, NEW l \in P!Places
        PROVE  (IF l \in DOMAIN context_ids[k] THEN context_ids[k][l] ELSE P!None) \in Nat
    BY <1>1, <1>2, <1>3
  <2>3. pred_list \in [P!CoreSet -> [P!Places -> Nat]]
    BY <1>4, <2>2
  <2> QED
    BY <1>3, <2>1, <2>3 DEF CoreTypes
<1>6. ASSUME NEW k \in P!CoreSet PROVE Seated(k)
  <2>1. ASSUME NEW l \in 1 .. Len(context_ids[k])
        PROVE  LET c == context_ids[k][l]
               IN  /\ contexts[c].pid # P!None /\ contexts[c].core = k
                   /\ contexts[c].pred = pred[k][l] /\ pred_list[k][l] = c
    <3>1. l \in P!Places /\ context_ids[k][l] = P!Loaded(k, l) /\ P!Loaded(k, l) <= P!Programs
          /\ l \in DOMAIN context_ids[k]
      BY <1>3
    <3>2. PICK c \in P!Ids : c = P!Loaded(k, l) /\ contexts[c].core = k /\ contexts[c].pred = <<k, l>>
      BY <1>1, <3>1
    <3>3. contexts[c].pid # P!None
      BY <1>1, <1>2
    <3>4. pred[k][l] = <<k, l>> /\ pred_list[k][l] = c
      BY <1>4, <3>1, <3>2
    <3> QED
      BY <3>1, <3>2, <3>3, <3>4
  <2>2. ASSUME NEW l \in P!Places, l > Len(context_ids[k]) PROVE pred_list[k][l] = P!None
    <3>1. Len(context_ids[k]) \in Nat
      BY <1>3
    <3>2. l \notin DOMAIN context_ids[k]
      BY <1>3, <2>2, <3>1
    <3> QED
      BY <1>4, <3>2
  <2>3. P!IsInjective(pred[k])
    BY <1>4 DEF P!IsInjective
  <2>4. P!IsInjective(context_ids[k])
    <3>1. SUFFICES ASSUME NEW l \in 1 .. Len(context_ids[k]), NEW h \in 1 .. Len(context_ids[k]),
                          context_ids[k][l] = context_ids[k][h]
                   PROVE  l = h
      BY <1>3 DEF P!IsInjective
    <3>2. contexts[context_ids[k][l]].pred = pred[k][l] /\ contexts[context_ids[k][h]].pred = pred[k][h]
      BY <2>1
    <3>3. pred[k][l] = <<k, l>> /\ pred[k][h] = <<k, h>>
      BY <1>3, <1>4
    <3> QED
      BY <3>1, <3>2, <3>3
  <2> QED
    BY <1>3, <2>1, <2>2, <2>3, <2>4 DEF Seated
<1>7. ASSUME NEW c \in P!Ids PROVE contexts[c].pid # P!None /\ HasSeat(c)
  <2>1. PICK k \in P!CoreSet, l \in P!Places : P!Loaded(k, l) = c
    BY <1>1, SeatOf
  <2>2. P!Loaded(k, l) <= P!Programs
    BY <1>1, <2>1
  <2>3. contexts[c].core = k
    BY <1>1, <2>1, <2>2
  <2>4. l \in 1 .. Len(context_ids[k]) /\ context_ids[k][l] = c
    BY <1>3, <2>1, <2>2
  <2>5. contexts[c].pid # P!None /\ contexts[c].core # P!None
    BY <1>1, <1>2
  <2> QED
    BY <2>3, <2>4, <2>5 DEF HasSeat
<1> QED
  BY <1>5, <1>6, <1>7 DEF Placed

LEMMA ProcInit ==
    ASSUME P!Init
    PROVE  ProcInv
<1>1. CtxTypes /\ CoreTypes /\ Placed
  BY InitTypes, InitPlaces
<1>2. PICK n \in Nat \ {0} : n = P!Programs
  BY InitTypes
<1>3. /\ P!Ids = 1 .. n /\ P!Pids = 1 .. n /\ Len(plist) = n /\ P!None = 0
      /\ \A c \in P!Ids : contexts[c].pid = c
      /\ \A p \in P!Pids : plist[p] = P!Process(P!None)
  BY <1>2, InitTypes DEF P!None
<1>4. LoopTypes
  <2>1. /\ mode = "fast" /\ left = [c \in 1 .. n |-> c] /\ at = n + 1 /\ core = 0 /\ cycle = 0
    BY <1>2 DEF P!Init
  <2>2. IsTable(left, n, P!Ids)
    BY <1>3, <2>1 DEF IsTable
  <2>3. left \in Seq(P!Ids) /\ Len(left) = n
    BY <2>2, TablesAreSeqs
  <2>4. left # <<>> /\ P!Cores \in Nat
    BY <1>1, <2>3, MachineFacts
  <2> QED
    BY <2>1, <2>3, <2>4 DEF LoopTypes
<1>5. Related
  <2>1. \A p \in P!Pids : plist[p].alive /\ plist[p].parent = 0 /\ plist[p].children = <<>>
    BY <1>3 DEF P!Process
  <2>2. P!AliveMatches
    BY <1>3, <2>1 DEF P!AliveMatches
  <2>3. P!IsInjective(<<>>)
    BY DEF P!IsInjective
  <2>4. \A c \in P!Ids : contexts[c].pid \in 0 .. Len(plist)
    BY <1>3
  <2>5. \A p \in P!Pids : p # 0
    BY <1>3
  <2>6. \A p \in P!Pids : plist[p].parent \in 0 .. Len(plist)
    BY <1>3, <2>1
  <2>7. \A c, d \in P!Ids : contexts[c].pid = contexts[d].pid => c = d
    BY <1>3
  <2>8. \A p \in P!Pids : Len(plist[p].children) = 0
    BY <2>1
  <2> QED
    BY <2>1, <2>2, <2>3, <2>4, <2>5, <2>6, <2>7, <2>8 DEF Related
<1> QED
  BY <1>1, <1>4, <1>5 DEF ProcInv, CallInv

-----------------------------------------------------------------------------
(* The invariant of the specification, and what it says *)

LEMMA ProcNext ==
    ASSUME ProcInv, P!Next
    PROVE  ProcInv'
<1>1. machine' = machine
  BY DEF P!Next
<1>2. CASE \E c \in P!Ids : \/ P!FastWait(c) \/ P!FastWake(c)
                            \/ P!FastRun(c) \/ P!FastRunDetached(c)
  BY <1>1, <1>2, FastStep
<1>3. CASE P!FastPass \/ P!RenameStart \/ P!CycleEnd \/ P!RenameStop
  BY <1>1, <1>3, PassStep
<1>4. CASE P!RenameWait \/ P!RenameWake \/ P!RenameRun
  BY <1>1, <1>4, RenameStep
<1> QED
  BY <1>2, <1>3, <1>4 DEF P!Next

LEMMA ProcSame ==
    ASSUME ProcInv, UNCHANGED processes
    PROVE  ProcInv'
<1>1. /\ machine' = machine /\ contexts' = contexts /\ context_ids' = context_ids /\ pred' = pred
      /\ pred_list' = pred_list /\ plist' = plist /\ mode' = mode /\ left' = left /\ at' = at
      /\ core' = core /\ cycle' = cycle
  BY DEF processes
<1>2. CallInv' /\ P!Ids \subseteq P!Ids'
  BY <1>1, CountedNow, CallStays DEF ProcInv, CallInv
<1> QED
  BY <1>1, <1>2, LoopKept DEF ProcInv, LoopTypes

(* The invariant the two theorems rest on: the contexts of a core stand in *)
(* front of its places, each with the resource of its place, and every     *)
(* process has one context and one parent.                                 *)
THEOREM ProcessInvariant == Spec => []ProcInv
<1>1. Init => ProcInv
  BY ProcInit DEF Init
<1>2. ProcInv /\ [ProcessesStep \/ FilesStep]_vars => ProcInv'
  <2> SUFFICES ASSUME ProcInv, [ProcessesStep \/ FilesStep]_vars
               PROVE  ProcInv'
    OBVIOUS
  <2>1. CASE ProcessesStep
    BY <2>1, ProcNext DEF ProcessesStep
  <2>2. CASE FilesStep
    BY <2>2, ProcSame DEF FilesStep
  <2>3. CASE UNCHANGED vars
    <3>1. UNCHANGED processes
      BY <2>3 DEF vars
    <3> QED
      BY <3>1, ProcSame
  <2> QED
    BY <2>1, <2>2, <2>3
<1> QED
  BY <1>1, <1>2, PTL DEF Spec

(* A context that has not ended stands in one place of one core, the core  *)
(* it names, with the resource of that place; a core lists a context once, *)
(* gives no resource twice, and has nobody behind its last context,        *)
(* however contexts were forked and ejected (addcontext, ejectcontext).    *)
THEOREM PlacesCorrect == Spec => []PlacesAgree
<1>1. ProcInv => PlacesAgree
  <2> SUFFICES ASSUME ProcInv PROVE P!PlacesAgree
    BY DEF PlacesAgree
  <2>1. CtxTypes /\ CoreTypes /\ Placed
    BY DEF ProcInv, CallInv
  <2>2. /\ P!Places = 1 .. P!MaxContexts /\ P!MaxContexts \in Nat /\ P!CoreSet = 1 .. P!Cores
        /\ P!Cores \in Nat /\ P!None = 0
    BY <2>1, MachineFacts DEF P!Places, P!CoreSet, P!None
  <2>3. ASSUME NEW k \in P!CoreSet
        PROVE  /\ P!IsInjective(context_ids[k]) /\ P!IsInjective(pred[k])
               /\ \A l \in P!Places : l > Len(context_ids[k]) => pred_list[k][l] = P!None
    BY <2>1 DEF Placed, Seated
  <2>4. ASSUME NEW c \in P!Ids, contexts[c].pid = P!None, NEW k \in P!CoreSet,
               c \in P!ToSet(context_ids[k])
        PROVE  FALSE
    <3>1. context_ids[k] \in Seq(P!Ids)
      BY <2>1 DEF CoreTypes
    <3>2. PICK l \in 1 .. Len(context_ids[k]) : context_ids[k][l] = c
      BY <2>4, <3>1 DEF P!ToSet
    <3> QED
      BY <2>1, <2>4, <3>2 DEF Placed, Seated
  <2>5. ASSUME NEW c \in P!Ids, contexts[c].pid # P!None
        PROVE  \E l \in P!Places :
                  LET k == contexts[c].core
                  IN /\ l <= Len(context_ids[k]) /\ context_ids[k][l] = c
                     /\ contexts[c].pred = pred[k][l] /\ pred_list[k][l] = c
    <3>1. HasSeat(c)
      BY <2>1, <2>5 DEF Placed
    <3>2. contexts[c].core \in P!CoreSet
      <4>1. contexts[c].core \in 0 .. P!Cores /\ contexts[c].core # P!None
        BY <2>1, <3>1, PlistFacts DEF HasSeat, CtxType
      <4> QED
        BY <2>2, <4>1
    <3>3. PICK k \in P!CoreSet : k = contexts[c].core
      BY <3>2
    <3>4. PICK l \in 1 .. Len(context_ids[k]) : context_ids[k][l] = c
      BY <3>1, <3>3 DEF HasSeat
    <3>5. Seated(k) /\ context_ids[k] \in Seq(P!Ids)
      BY <2>1 DEF Placed, CoreTypes
    <3>6. l \in P!Places /\ l <= Len(context_ids[k])
      BY <2>2, <3>5 DEF Seated
    <3>7. contexts[c].pred = pred[k][l] /\ pred_list[k][l] = c
      BY <3>4, <3>5 DEF Seated
    <3> QED
      BY <3>3, <3>4, <3>6, <3>7
  <2> QED
    BY <2>3, <2>4, <2>5 DEF P!PlacesAgree
<1> QED
  BY <1>1, ProcessInvariant, PTL

(* A child is on the list of its parent alone, once, until its status was  *)
(* handed over, which is after its end; where kill is given the number of  *)
(* a process, the pid handler takes a process to be alive exactly while a  *)
(* context runs it.  The kills of a group, of a thread and of 0, of which  *)
(* the handler is told a number it does not know, are for OddKills only.   *)
THEOREM FamiliesCorrect ==
    ASSUME \A m \in Machines : m # OddKills => m.KillKinds \subseteq {"kill"}
    PROVE  Spec => []Families
<1>1. ProcInv => Families
  <2> SUFFICES ASSUME ProcInv PROVE Families
    OBVIOUS
  <2>1. CtxTypes /\ Related
    BY DEF ProcInv, CallInv
  <2>2. machine # OddKills => P!AliveMatches
    BY <2>1 DEF Related, CtxTypes, P!KillKinds
  <2>3. \A p \in P!Pids : plist[p].children \in Seq(Nat)
    BY <2>1, PlistFacts DEF ProcType
  <2>4. ASSUME NEW p \in P!Pids, NEW q \in P!Pids
        PROVE  /\ P!IsInjective(plist[p].children)
               /\ q \in P!ToSet(plist[p].children) => plist[q].parent = p
               /\ plist[q].parent = p /\ plist[q].alive => q \in P!ToSet(plist[p].children)
    <3>1. /\ P!IsInjective(plist[p].children)
          /\ \A i \in 1 .. Len(plist[p].children) : plist[plist[p].children[i]].parent = p
      BY <2>1 DEF Related
    <3>2. plist[q].parent = p /\ plist[q].alive =>
             \E i \in 1 .. Len(plist[p].children) : plist[p].children[i] = q
      BY <2>1 DEF Related
    <3>3. P!ToSet(plist[p].children) =
             {plist[p].children[i] : i \in 1 .. Len(plist[p].children)}
      <4>1. DOMAIN plist[p].children = 1 .. Len(plist[p].children)
        BY <2>3
      <4> QED
        BY <4>1, Zenon DEF P!ToSet
    <3> QED
      BY <3>1, <3>2, <3>3
  <2> QED
    BY <2>2, <2>4 DEF Families, P!Families
<1> QED
  BY <1>1, ProcessInvariant, PTL

-----------------------------------------------------------------------------
(* Descriptors: what the operators of FileTable return *)

LEMMA OverFacts ==
    ASSUME NEW f, NEW x, NEW y
    PROVE  /\ DOMAIN F!Over(f, F!One(x, y)) = DOMAIN f \cup {x}
           /\ \A z \in DOMAIN f : F!Over(f, F!One(x, y))[z] = f[z]
           /\ x \notin DOMAIN f => F!Over(f, F!One(x, y))[x] = y
BY DEF F!Over, F!One

LEMMA WithFacts ==
    ASSUME NEW t, NEW fd, NEW e
    PROVE  /\ DOMAIN F!With(t, fd, e) = DOMAIN t \cup {fd}
           /\ F!With(t, fd, e)[fd] = e
           /\ \A g \in DOMAIN t : g # fd => F!With(t, fd, e)[g] = t[g]
BY DEF F!With, F!Over, F!One

LEMMA LowestOf ==
    ASSUME NEW S \in SUBSET Nat, S # {}
    PROVE  F!Lowest(S) \in S /\ \A x \in S : F!Lowest(S) <= x
<1>1. \E x \in S : \A y \in S : x <= y
  BY LeastNat
<1> QED
  BY <1>1 DEF F!Lowest, F!Min

LEMMA GreatestOf ==
    ASSUME NEW n \in Nat, NEW S \in SUBSET (0 .. n), S # {}
    PROVE  F!Max(S) \in S /\ \A x \in S : x <= F!Max(S)
<1> DEFINE T == {n - x : x \in S}
<1>1. T \in SUBSET Nat /\ T # {}
  <2>1. ASSUME NEW y \in T PROVE y \in Nat
    <3>1. PICK x \in S : y = n - x
      OBVIOUS
    <3>2. x \in 0 .. n
      OBVIOUS
    <3> QED
      BY <3>1, <3>2
  <2>2. PICK x : x \in S
    OBVIOUS
  <2>3. n - x \in T
    BY <2>2
  <2> QED
    BY <2>1, <2>3
<1>2. PICK y \in T : \A z \in T : y <= z
  BY <1>1, LeastNat
<1>3. PICK x \in S : y = n - x
  BY <1>2
<1>4. ASSUME NEW z \in S PROVE z <= x
  <2>1. n - z \in T
    OBVIOUS
  <2>2. n - x <= n - z
    BY <1>2, <1>3, <2>1
  <2>3. x \in Int /\ z \in Int
    OBVIOUS
  <2> QED
    BY <2>2, <2>3
<1>5. \A z \in S : x >= z
  BY <1>4
<1> QED
  BY <1>3, <1>5 DEF F!Max

LEMMA SameCount == \A S : F!Cardinality(S) = Cardinality(S)
BY DEF F!Cardinality, Cardinality

(* As many of the lowest members of a set of descriptors as are wanted.    *)
LEMMA LowestMany ==
    ASSUME NEW m \in Nat, NEW S \in SUBSET (0 .. m), NEW n \in Nat, n <= Cardinality(S)
    PROVE  \E T \in SUBSET S : Cardinality(T) = n /\ \A f \in S \ T, t \in T : t < f
<1> DEFINE BelowTop(k) == {f \in S : f < k}
           K == {k \in Nat : n <= Cardinality(BelowTop(k))}
<1>1. /\ IsFiniteSet(S)
      /\ \A k : IsFiniteSet(BelowTop(k)) /\ Cardinality(BelowTop(k)) \in Nat
  <2>1. IsFiniteSet(0 .. m)
    BY FS_Interval
  <2>2. IsFiniteSet(S)
    BY <2>1, FS_Subset
  <2>3. ASSUME NEW k PROVE IsFiniteSet(BelowTop(k)) /\ Cardinality(BelowTop(k)) \in Nat
    <3>1. BelowTop(k) \in SUBSET S
      OBVIOUS
    <3> QED
      BY <2>2, <3>1, FS_Subset, FS_CardinalityType
  <2> QED
    BY <2>2, <2>3
<1>2. K \in SUBSET Nat /\ m + 1 \in K
  <2>1. BelowTop(m + 1) = S
    <3>1. ASSUME NEW f \in S PROVE f < m + 1
      <4>1. f \in 0 .. m
        OBVIOUS
      <4> QED
        BY <4>1
    <3> QED
      BY <3>1, Zenon
  <2>2. m + 1 \in Nat /\ n <= Cardinality(BelowTop(m + 1))
    BY <2>1
  <2> HIDE DEF BelowTop
  <2> QED
    BY <2>2
<1>3. PICK k \in K : \A i \in K : k <= i
  <2> HIDE DEF K
  <2> QED
    BY <1>2, LeastNat
<1>4. k \in Nat /\ n <= Cardinality(BelowTop(k))
  OBVIOUS
<1>5. Cardinality(BelowTop(k)) <= n
  <2>1. CASE k = 0
    <3>1. BelowTop(0) = {}
      <4>1. ASSUME NEW f \in S, f < 0 PROVE FALSE
        <5>1. f \in 0 .. m
          OBVIOUS
        <5> QED
          BY <4>1, <5>1
      <4> QED
        BY <4>1, Zenon
    <3> QED
      BY <2>1, <3>1, FS_EmptySet
  <2>2. CASE k # 0
    <3>1. k - 1 \in Nat /\ ~(k <= k - 1)
      BY <1>4, <2>2
    <3>2. k - 1 \notin K
      BY <1>3, <3>1
    <3>3. ~(n <= Cardinality(BelowTop(k - 1)))
      BY <3>1, <3>2
    <3>4. BelowTop(k) \subseteq BelowTop(k - 1) \cup {k - 1}
      <4>1. ASSUME NEW f \in BelowTop(k) PROVE f \in S /\ (f < k - 1 \/ f = k - 1)
        <5>1. f \in S /\ f < k
          OBVIOUS
        <5>2. f \in 0 .. m
          BY <5>1
        <5> QED
          BY <1>4, <5>1, <5>2
      <4> QED
        BY <4>1, Zenon
    <3>5. /\ IsFiniteSet(BelowTop(k - 1) \cup {k - 1})
          /\ Cardinality(BelowTop(k - 1) \cup {k - 1}) <= Cardinality(BelowTop(k - 1)) + 1
      <4>1. \/ Cardinality(BelowTop(k - 1) \cup {k - 1}) = Cardinality(BelowTop(k - 1))
            \/ Cardinality(BelowTop(k - 1) \cup {k - 1}) = Cardinality(BelowTop(k - 1)) + 1
        <5> HIDE DEF BelowTop
        <5> QED
          BY <1>1, FS_AddElement
      <4>2. IsFiniteSet(BelowTop(k - 1) \cup {k - 1})
        <5> HIDE DEF BelowTop
        <5> QED
          BY <1>1, FS_AddElement
      <4>3. Cardinality(BelowTop(k - 1)) \in Nat
        BY <1>1
      <4> HIDE DEF BelowTop
      <4> QED
        BY <4>1, <4>2, <4>3
    <3>6. Cardinality(BelowTop(k)) <= Cardinality(BelowTop(k - 1) \cup {k - 1})
      <4> HIDE DEF BelowTop
      <4> QED
        BY <3>4, <3>5, FS_Subset
    <3>7. Cardinality(BelowTop(k)) \in Nat /\ Cardinality(BelowTop(k - 1)) \in Nat
          /\ Cardinality(BelowTop(k - 1) \cup {k - 1}) \in Nat
      <4>1. Cardinality(BelowTop(k - 1) \cup {k - 1}) \in Nat
        <5> HIDE DEF BelowTop
        <5> QED
          BY <3>5, FS_CardinalityType
      <4> QED
        BY <1>1, <4>1
    <3> HIDE DEF BelowTop
    <3> QED
      BY <3>3, <3>5, <3>6, <3>7
  <2> QED
    BY <2>1, <2>2
<1>6. Cardinality(BelowTop(k)) = n
  <2>1. Cardinality(BelowTop(k)) \in Nat
    BY <1>1
  <2> QED
    BY <1>4, <1>5, <2>1
<1>7. BelowTop(k) \in SUBSET S /\ \A f \in S \ BelowTop(k), t \in BelowTop(k) : t < f
  <2>1. ASSUME NEW f \in S \ BelowTop(k), NEW t \in BelowTop(k) PROVE t < f
    <3>1. f \in 0 .. m /\ t \in 0 .. m /\ ~(f < k) /\ t < k
      OBVIOUS
    <3> QED
      BY <1>4, <3>1
  <2> QED
    BY <2>1
<1> HIDE DEF BelowTop
<1> QED
  BY <1>6, <1>7

-----------------------------------------------------------------------------
(* The invariant of the descriptors *)

EntryType == [real : F!HostFds \cup {F!Closed}, kind : F!Kinds, cloexec : BOOLEAN]
IsFdTable(t) == DOMAIN t \subseteq F!Fds /\ \A fd \in DOMAIN t : t[fd] \in EntryType
IsHost(o) == DOMAIN o \subseteq F!HostFds /\ \A h \in DOMAIN o : o[h] \in F!Kinds \cup {"sim"}

FileTypes ==
    /\ setting \in Settings
    /\ table = [c \in F!Contexts |-> table[c]] /\ \A c \in F!Contexts : IsFdTable(table[c])
    /\ poisoned \subseteq F!Contexts /\ live \subseteq F!Contexts
    /\ IsHost(host)
    /\ touched # <<>> =>
          touched \in F!Contexts \X F!Fds \X (F!Closed - 1 .. F!Max({F!MaxHost, F!MaxFd}))

LEMMA SettingFacts ==
    ASSUME setting \in Settings
    PROVE  /\ F!MaxContexts \in Nat \ {0} /\ F!MaxHost \in Nat /\ F!MaxFd \in Nat
           /\ 3 <= F!MaxHost /\ F!MaxHost <= F!MaxFd
           /\ F!Max({F!MaxHost, F!MaxFd}) = F!MaxFd
<1>1. /\ F!MaxContexts \in Nat \ {0} /\ F!MaxHost \in Nat /\ F!MaxFd \in Nat
      /\ 3 <= F!MaxHost /\ F!MaxHost <= F!MaxFd
  BY SettingsAssumption DEF F!MaxContexts, F!MaxHost, F!MaxFd
<1>2. {F!MaxHost, F!MaxFd} \in SUBSET (0 .. F!MaxFd)
  BY <1>1
<1>3. /\ F!Max({F!MaxHost, F!MaxFd}) \in {F!MaxHost, F!MaxFd}
      /\ \A x \in {F!MaxHost, F!MaxFd} : x <= F!Max({F!MaxHost, F!MaxFd})
  BY <1>1, <1>2, GreatestOf
<1> QED
  BY <1>1, <1>3

(* There is a free descriptor, or two.                                     *)
LEMMA RoomFacts ==
    ASSUME FileTypes
    PROVE  /\ IsFiniteSet(F!Free) /\ F!Free \subseteq 0 .. F!MaxHost
           /\ F!HostRoom(1) => F!Lowest(F!Free) \in F!Free
           /\ F!HostRoom(2) => F!Lowest(F!Free \ {F!Lowest(F!Free)}) \in F!Free \ {F!Lowest(F!Free)}
<1>1. F!Free \subseteq 0 .. F!MaxHost /\ F!MaxHost \in Nat
  BY SettingFacts DEF FileTypes, F!Free, F!HostFds
<1>2. IsFiniteSet(F!Free) /\ Cardinality(F!Free) \in Nat
  <2>1. IsFiniteSet(0 .. F!MaxHost)
    BY <1>1, FS_Interval
  <2>2. IsFiniteSet(F!Free)
    BY <1>1, <2>1, FS_Subset
  <2> QED
    BY <2>2, FS_CardinalityType
<1>3. ASSUME Cardinality(F!Free) >= 1 PROVE F!Lowest(F!Free) \in F!Free
  <2>1. F!Free # {}
    BY <1>3, FS_EmptySet
  <2> QED
    BY <1>1, <2>1, LowestOf
<1>4. ASSUME Cardinality(F!Free) >= 2
      PROVE  F!Lowest(F!Free \ {F!Lowest(F!Free)}) \in F!Free \ {F!Lowest(F!Free)}
  <2> DEFINE r == F!Lowest(F!Free)
  <2>1. r \in F!Free
    BY <1>2, <1>3, <1>4
  <2>2. F!Free \ {r} # {}
    <3>1. F!Free # {r}
      BY <1>4, FS_Singleton
    <3> QED
      BY <2>1, <3>1
  <2>3. F!Free \ {r} \in SUBSET Nat
    <3>1. \A x \in F!Free : x \in Nat
      BY <1>1
    <3> QED
      BY <3>1
  <2> HIDE DEF r
  <2> QED
    BY <2>2, <2>3, LowestOf DEF r
<1> QED
  BY <1>1, <1>2, <1>3, <1>4, SameCount DEF F!HostRoom

(* Nothing that goes wrong by design: a host without descriptors, a        *)
(* redirected output, marked 0 to 2.                                       *)
Tame == ~F!HostFull /\ ~F!Redirected /\ "mark 0-2" \notin F!Calls

(* What an entry needs to be of the program's own: it leads to an open     *)
(* descriptor of the kind that the entry says; to 0, 1 or 2 of the host    *)
(* only as standard io that nothing closes.                                *)
Held(e, o) ==
    /\ e.real \in DOMAIN o
    /\ IF e.real \in 0 .. 2 THEN o[e.real] = "sim" /\ e.kind = "std" /\ ~e.cloexec
                            ELSE o[e.real] = e.kind

(* Of the tables t of the contexts l, and the host's descriptors o.        *)
Owns(t, o, l) ==
    /\ 0 .. 2 \subseteq DOMAIN o
    /\ \A c \in l : \A fd \in DOMAIN t[c] : Held(t[c][fd], o)
    /\ \A c, d \in l : \A f \in DOMAIN t[c], g \in DOMAIN t[d] :
         t[c][f].real = t[d][g].real /\ t[c][f].real \notin 0 .. 2 => c = d /\ f = g

EndsHeld(t, o, l) ==
    \A h \in DOMAIN o : o[h] = "pipe" => \E c \in l : \E fd \in DOMAIN t[c] : t[c][fd].real = h

HostKept(t, o, l) ==
    Tame => Owns(t, o, l) /\ ("kill" \notin F!Calls => EndsHeld(t, o, l))

FilesInv == FileTypes /\ HostKept(table, host, live)

(* An entry with a free descriptor of the host.                            *)
LEMMA EntryAdded ==
    ASSUME NEW C, NEW t, NEW o, NEW l \in SUBSET C, t = [c \in C |-> t[c]], HostKept(t, o, l),
           NEW c \in l, NEW fd, fd \notin DOMAIN t[c], NEW e, e.real \notin DOMAIN o
    PROVE  HostKept([t EXCEPT ![c] = F!With(t[c], fd, e)], F!Over(o, F!One(e.real, e.kind)), l)
<1> DEFINE u == [t EXCEPT ![c] = F!With(t[c], fd, e)]
           p == F!Over(o, F!One(e.real, e.kind))
<1>1. SUFFICES ASSUME Tame, Owns(t, o, l)
               PROVE  Owns(u, p, l) /\ (EndsHeld(t, o, l) => EndsHeld(u, p, l))
  BY Zenon DEF HostKept
<1>2. /\ \A d \in l : d # c => u[d] = t[d]
      /\ DOMAIN u[c] = DOMAIN t[c] \cup {fd} /\ u[c][fd] = e
      /\ \A g \in DOMAIN t[c] : g # fd /\ u[c][g] = t[c][g]
  <2>1. u[c] = F!With(t[c], fd, e) /\ \A d \in l : d # c => u[d] = t[d]
    OBVIOUS
  <2>2. ASSUME NEW g \in DOMAIN t[c] PROVE g # fd
    OBVIOUS
  <2>3. /\ DOMAIN F!With(t[c], fd, e) = DOMAIN t[c] \cup {fd} /\ F!With(t[c], fd, e)[fd] = e
        /\ \A g \in DOMAIN t[c] : g # fd => F!With(t[c], fd, e)[g] = t[c][g]
    BY DEF F!With, F!Over, F!One
  <2> HIDE DEF u
  <2> QED
    BY <2>1, <2>2, <2>3
<1>3. /\ DOMAIN p = DOMAIN o \cup {e.real} /\ p[e.real] = e.kind
      /\ \A h \in DOMAIN o : p[h] = o[h]
  BY DEF F!Over, F!One
<1>4. e.real \notin 0 .. 2
  BY <1>1 DEF Owns
<1> HIDE DEF u, p
<1>5. ASSUME NEW d \in l, NEW f \in DOMAIN u[d]
      PROVE  \/ f \in DOMAIN t[d] /\ u[d][f] = t[d][f] /\ t[d][f].real \in DOMAIN o
                /\ t[d][f].real # e.real
             \/ d = c /\ f = fd /\ u[d][f] = e
  BY <1>1, <1>2 DEF Owns, Held
<1>6. Owns(u, p, l)
  <2>1. 0 .. 2 \subseteq DOMAIN p
    BY <1>1, <1>3 DEF Owns
  <2>2. ASSUME NEW d \in l, NEW f \in DOMAIN u[d] PROVE Held(u[d][f], p)
    <3>1. CASE f \in DOMAIN t[d] /\ u[d][f] = t[d][f] /\ t[d][f].real \in DOMAIN o
      <4>1. Held(t[d][f], o)
        BY <1>1, <3>1 DEF Owns
      <4> QED
        BY <1>3, <3>1, <4>1 DEF Held
    <3>2. CASE u[d][f] = e
      BY <1>3, <1>4, <3>2 DEF Held
    <3> QED
      BY <1>5, <3>1, <3>2
  <2>3. ASSUME NEW d \in l, NEW b \in l, NEW f \in DOMAIN u[d], NEW g \in DOMAIN u[b],
               u[d][f].real = u[b][g].real, u[d][f].real \notin 0 .. 2
        PROVE  d = b /\ f = g
    BY <1>1, <1>5, <2>3 DEF Owns
  <2> QED
    BY <2>1, <2>2, <2>3 DEF Owns
<1>7. ASSUME EndsHeld(t, o, l) PROVE EndsHeld(u, p, l)
  <2> SUFFICES ASSUME NEW h \in DOMAIN p, p[h] = "pipe"
               PROVE  \E d \in l : \E f \in DOMAIN u[d] : u[d][f].real = h
    BY DEF EndsHeld
  <2>1. CASE h = e.real
    BY <1>2, <2>1
  <2>2. CASE h # e.real
    <3>1. h \in DOMAIN o /\ o[h] = "pipe"
      BY <1>3, <2>2
    <3>2. PICK d \in l : \E f \in DOMAIN t[d] : t[d][f].real = h
      BY <1>7, <3>1 DEF EndsHeld
    <3>3. PICK f \in DOMAIN t[d] : t[d][f].real = h
      BY <3>2
    <3>4. f \in DOMAIN u[d] /\ u[d][f] = t[d][f]
      BY <1>2, <3>3
    <3> QED
      BY <3>3, <3>4
  <2> QED
    BY <2>1, <2>2
<1> QED
  BY <1>6, <1>7

(* Entries are dropped; the host's descriptors of those that closer closes *)
(* with them.                                                              *)
Dropped(s, D) == F!Restrict(s, DOMAIN s \ D)
ClosedOf(s, D) == {s[fd].real : fd \in {f \in D : F!ClosesOnHost(s[f])}}
Less(o, R) == [h \in DOMAIN o \ R |-> o[h]]

LEMMA EntriesDropped ==
    ASSUME NEW C, NEW t, NEW o, NEW l \in SUBSET C, t = [c \in C |-> t[c]], HostKept(t, o, l),
           NEW c \in l, NEW D \in SUBSET DOMAIN t[c]
    PROVE  HostKept([t EXCEPT ![c] = Dropped(t[c], D)], Less(o, ClosedOf(t[c], D)), l)
<1> DEFINE u == [t EXCEPT ![c] = Dropped(t[c], D)]
           R == ClosedOf(t[c], D)
           p == Less(o, R)
<1>1. SUFFICES ASSUME Tame, Owns(t, o, l)
               PROVE  Owns(u, p, l) /\ (EndsHeld(t, o, l) => EndsHeld(u, p, l))
  BY Zenon DEF HostKept
<1>2. /\ \A d \in l : d # c => u[d] = t[d]
      /\ DOMAIN u[c] = DOMAIN t[c] \ D
      /\ \A g \in DOMAIN t[c] \ D : u[c][g] = t[c][g]
  <2>1. u[c] = Dropped(t[c], D) /\ \A d \in l : d # c => u[d] = t[d]
    OBVIOUS
  <2> HIDE DEF u
  <2> QED
    BY <2>1 DEF Dropped, F!Restrict
<1>3. DOMAIN p = DOMAIN o \ R /\ \A h \in DOMAIN p : p[h] = o[h]
  BY DEF Less
<1>4. ASSUME NEW h \in R
      PROVE  \E g \in D : t[c][g].real = h /\ F!ClosesOnHost(t[c][g])
  BY DEF ClosedOf
<1>5. ASSUME NEW g \in D, F!ClosesOnHost(t[c][g]) PROVE t[c][g].real \in R
  BY <1>5 DEF ClosedOf
<1>6. \A h \in R : h \notin 0 .. 2
  <2> SUFFICES ASSUME NEW h \in R PROVE h \notin 0 .. 2
    OBVIOUS
  <2>1. PICK g \in D : t[c][g].real = h /\ F!ClosesOnHost(t[c][g])
    BY <1>4
  <2>2. Held(t[c][g], o)
    BY <1>1 DEF Owns
  <2> QED
    BY <2>1, <2>2 DEF Held, F!ClosesOnHost
<1> HIDE DEF u, p, R
<1>7. ASSUME NEW d \in l, NEW f \in DOMAIN u[d]
      PROVE  /\ f \in DOMAIN t[d] /\ u[d][f] = t[d][f] /\ (d = c => f \notin D)
             /\ t[d][f].real \in DOMAIN p
  <2>1. f \in DOMAIN t[d] /\ u[d][f] = t[d][f] /\ (d = c => f \notin D)
    BY <1>2
  <2>2. t[d][f].real \in DOMAIN o
    BY <1>1, <2>1 DEF Owns, Held
  <2>3. t[d][f].real \notin R
    <3> SUFFICES ASSUME t[d][f].real \in R PROVE FALSE
      OBVIOUS
    <3>1. PICK g \in D : t[c][g].real = t[d][f].real
      BY <1>4
    <3>2. t[d][f].real \notin 0 .. 2
      BY <1>6
    <3>3. g \in DOMAIN t[c]
      OBVIOUS
    <3>4. d = c /\ f = g
      BY <1>1, <2>1, <3>1, <3>2, <3>3 DEF Owns
    <3> QED
      BY <2>1, <3>4
  <2> QED
    BY <1>3, <2>1, <2>2, <2>3
<1>8. Owns(u, p, l)
  <2>1. 0 .. 2 \subseteq DOMAIN p
    BY <1>1, <1>3, <1>6 DEF Owns
  <2>2. ASSUME NEW d \in l, NEW f \in DOMAIN u[d] PROVE Held(u[d][f], p)
    <3>1. Held(t[d][f], o)
      BY <1>1, <1>7 DEF Owns
    <3> QED
      BY <1>3, <1>7, <3>1 DEF Held
  <2>3. ASSUME NEW d \in l, NEW b \in l, NEW f \in DOMAIN u[d], NEW g \in DOMAIN u[b],
               u[d][f].real = u[b][g].real, u[d][f].real \notin 0 .. 2
        PROVE  d = b /\ f = g
    <3>1. /\ f \in DOMAIN t[d] /\ u[d][f] = t[d][f] /\ g \in DOMAIN t[b] /\ u[b][g] = t[b][g]
      BY <1>7
    <3> QED
      BY <1>1, <2>3, <3>1 DEF Owns
  <2> QED
    BY <2>1, <2>2, <2>3 DEF Owns
<1>9. ASSUME EndsHeld(t, o, l) PROVE EndsHeld(u, p, l)
  <2> SUFFICES ASSUME NEW h \in DOMAIN p, p[h] = "pipe"
               PROVE  \E d \in l : \E f \in DOMAIN u[d] : u[d][f].real = h
    BY DEF EndsHeld
  <2>1. h \in DOMAIN o /\ o[h] = "pipe" /\ h \notin R
    BY <1>3
  <2>2. PICK d \in l : \E f \in DOMAIN t[d] : t[d][f].real = h
    BY <1>9, <2>1 DEF EndsHeld
  <2>3. PICK f \in DOMAIN t[d] : t[d][f].real = h
    BY <2>2
  <2>4. Held(t[d][f], o)
    BY <1>1 DEF Owns
  <2>5. t[d][f].kind = "pipe"
    BY <2>1, <2>3, <2>4 DEF Held
  <2>6. ~(d = c /\ f \in D)
    BY <1>5, <2>1, <2>3, <2>5 DEF F!ClosesOnHost
  <2>7. f \in DOMAIN u[d] /\ u[d][f] = t[d][f]
    BY <1>2, <2>6
  <2> QED
    BY <2>3, <2>7
<1> QED
  BY <1>8, <1>9 DEF p, R

(* exit: everything of the context but 0, 1 and 2 of the host is closed.   *)
LEMMA ContextExits ==
    ASSUME NEW t, NEW o, NEW l, HostKept(t, o, l), NEW c \in l,
           NEW R, R = {t[c][fd].real : fd \in DOMAIN t[c]} \ {0, 1, 2}
    PROVE  HostKept(t, Less(o, R), l \ {c})
<1> DEFINE p == Less(o, R)
<1>1. SUFFICES ASSUME Tame, Owns(t, o, l)
               PROVE  Owns(t, p, l \ {c}) /\ (EndsHeld(t, o, l) => EndsHeld(t, p, l \ {c}))
  BY Zenon DEF HostKept
<1>2. DOMAIN p = DOMAIN o \ R /\ \A h \in DOMAIN p : p[h] = o[h]
  BY DEF Less
<1>3. 0 .. 2 = {0, 1, 2}
  OBVIOUS
<1>4. ASSUME NEW h \in R PROVE h \notin 0 .. 2 /\ \E g \in DOMAIN t[c] : t[c][g].real = h
  BY <1>3
<1>5. ASSUME NEW g \in DOMAIN t[c], t[c][g].real \notin 0 .. 2 PROVE t[c][g].real \in R
  BY <1>3, <1>5
<1> HIDE DEF p
<1>6. ASSUME NEW d \in l \ {c}, NEW f \in DOMAIN t[d] PROVE t[d][f].real \notin R
  <2> SUFFICES ASSUME t[d][f].real \in R PROVE FALSE
    OBVIOUS
  <2>1. PICK g \in DOMAIN t[c] : t[c][g].real = t[d][f].real
    BY <1>4
  <2>2. t[d][f].real \notin 0 .. 2
    BY <1>4
  <2> QED
    BY <1>1, <2>1, <2>2 DEF Owns
<1>7. Owns(t, p, l \ {c})
  <2>1. 0 .. 2 \subseteq DOMAIN p
    BY <1>1, <1>2, <1>4 DEF Owns
  <2>2. ASSUME NEW d \in l \ {c}, NEW f \in DOMAIN t[d] PROVE Held(t[d][f], p)
    <3>1. Held(t[d][f], o)
      BY <1>1 DEF Owns
    <3> QED
      BY <1>2, <1>6, <3>1 DEF Held
  <2>3. ASSUME NEW d \in l \ {c}, NEW b \in l \ {c}, NEW f \in DOMAIN t[d], NEW g \in DOMAIN t[b],
               t[d][f].real = t[b][g].real, t[d][f].real \notin 0 .. 2
        PROVE  d = b /\ f = g
    BY <1>1, <2>3 DEF Owns
  <2> QED
    BY <2>1, <2>2, <2>3 DEF Owns
<1>8. ASSUME EndsHeld(t, o, l) PROVE EndsHeld(t, p, l \ {c})
  <2> SUFFICES ASSUME NEW h \in DOMAIN p, p[h] = "pipe"
               PROVE  \E d \in l \ {c} : \E f \in DOMAIN t[d] : t[d][f].real = h
    BY DEF EndsHeld
  <2>1. h \in DOMAIN o /\ o[h] = "pipe" /\ h \notin R
    BY <1>2
  <2>2. PICK d \in l : \E f \in DOMAIN t[d] : t[d][f].real = h
    BY <1>8, <2>1 DEF EndsHeld
  <2>3. PICK f \in DOMAIN t[d] : t[d][f].real = h
    BY <2>2
  <2>4. h \notin 0 .. 2
    <3>1. Held(t[d][f], o)
      BY <1>1 DEF Owns
    <3> QED
      BY <2>1, <2>3, <3>1 DEF Held
  <2>5. d # c
    BY <1>5, <2>1, <2>3, <2>4
  <2> QED
    BY <2>3, <2>5
<1> QED
  BY <1>7, <1>8 DEF p

(* fork: a new context has copies, each with a free descriptor of its own. *)
LEMMA ContextForked ==
    ASSUME NEW t, NEW o, NEW l, HostKept(t, o, l), NEW c, c \notin l,
           NEW u, NEW copied, NEW given, u[c] = copied, \A d \in l : u[d] = t[d],
           \A fd \in DOMAIN copied : copied[fd].real = given[fd] /\ given[fd] \notin DOMAIN o,
           \A f, g \in DOMAIN copied : given[f] = given[g] => f = g,
           NEW p, \A h \in DOMAIN o : h \in DOMAIN p /\ p[h] = o[h],
           \A fd \in DOMAIN copied : given[fd] \in DOMAIN p /\ p[given[fd]] = copied[fd].kind,
           \A h \in DOMAIN p : h \in DOMAIN o \/ \E fd \in DOMAIN copied : given[fd] = h
    PROVE  HostKept(u, p, l \cup {c})
<1> DEFINE m == l \cup {c}
<1>1. SUFFICES ASSUME Tame, Owns(t, o, l)
               PROVE  Owns(u, p, m) /\ (EndsHeld(t, o, l) => EndsHeld(u, p, m))
  BY Zenon DEF HostKept
<1>2. u[c] = copied /\ \A d \in l : d # c /\ u[d] = t[d]
  OBVIOUS
<1>3. ASSUME NEW fd \in DOMAIN copied
      PROVE  copied[fd].real \in DOMAIN p /\ copied[fd].real \notin DOMAIN o
             /\ copied[fd].real \notin 0 .. 2 /\ p[copied[fd].real] = copied[fd].kind
  BY <1>1 DEF Owns
<1>4. ASSUME NEW d \in m, NEW f \in DOMAIN u[d]
      PROVE  \/ d \in l /\ f \in DOMAIN t[d] /\ u[d][f] = t[d][f] /\ Held(t[d][f], o)
             \/ d = c /\ f \in DOMAIN copied /\ u[d][f] = copied[f]
  BY <1>1, <1>2 DEF Owns
<1>5. Owns(u, p, m)
  <2>1. 0 .. 2 \subseteq DOMAIN p
    BY <1>1 DEF Owns
  <2>2. ASSUME NEW d \in m, NEW f \in DOMAIN u[d] PROVE Held(u[d][f], p)
    <3>1. CASE u[d][f] = t[d][f] /\ Held(t[d][f], o)
      BY <3>1 DEF Held
    <3>2. CASE f \in DOMAIN copied /\ u[d][f] = copied[f]
      BY <1>3, <3>2 DEF Held
    <3> QED
      BY <1>4, <3>1, <3>2
  <2>3. ASSUME NEW d \in m, NEW b \in m, NEW f \in DOMAIN u[d], NEW g \in DOMAIN u[b],
               u[d][f].real = u[b][g].real, u[d][f].real \notin 0 .. 2
        PROVE  d = b /\ f = g
    <3>1. CASE d \in l /\ b \in l
      BY <1>1, <1>2, <2>3, <3>1 DEF Owns
    <3>2. CASE d = c /\ b = c
      BY <1>2, <2>3, <3>2
    <3>3. CASE d \in l /\ b = c
      <4>1. u[d][f].real \in DOMAIN o
        BY <1>1, <1>2, <3>3 DEF Owns, Held
      <4> QED
        BY <1>2, <1>3, <2>3, <3>3, <4>1
    <3>4. CASE d = c /\ b \in l
      <4>1. u[b][g].real \in DOMAIN o
        BY <1>1, <1>2, <3>4 DEF Owns, Held
      <4> QED
        BY <1>2, <1>3, <2>3, <3>4, <4>1
    <3> QED
      BY <3>1, <3>2, <3>3, <3>4
  <2> QED
    BY <2>1, <2>2, <2>3 DEF Owns
<1>6. ASSUME EndsHeld(t, o, l) PROVE EndsHeld(u, p, m)
  <2> SUFFICES ASSUME NEW h \in DOMAIN p, p[h] = "pipe"
               PROVE  \E d \in m : \E f \in DOMAIN u[d] : u[d][f].real = h
    BY DEF EndsHeld
  <2>1. CASE h \in DOMAIN o
    <3>1. o[h] = "pipe"
      BY <2>1
    <3>2. PICK d \in l : \E f \in DOMAIN t[d] : t[d][f].real = h
      BY <1>6, <2>1, <3>1 DEF EndsHeld
    <3> QED
      BY <1>2, <3>2
  <2>2. CASE h \notin DOMAIN o
    <3>1. PICK fd \in DOMAIN copied : given[fd] = h
      BY <2>2
    <3>2. c \in m /\ fd \in DOMAIN u[c] /\ u[c][fd].real = h
      BY <1>2, <3>1
    <3> QED
      BY <3>2
  <2> QED
    BY <2>1, <2>2
<1> QED
  BY <1>5, <1>6

(* The descriptors of the host that fork uses.                             *)
LEMMA GivenFree ==
    ASSUME FileTypes, NEW S, IsFiniteSet(S), F!HostRoom(F!Cardinality(S))
    PROVE  /\ F!Given(S) \in [S -> F!Free]
           /\ \A f, g \in S : F!Given(S)[f] = F!Given(S)[g] => f = g
<1> DEFINE n == Cardinality(S)
           Taking(T) == Cardinality(T) = n /\ \A f \in F!Free \ T, t \in T : t < f
           taken == CHOOSE T \in F!kSubset(F!Cardinality(S), F!Free) :
                      \A f \in F!Free \ T, t \in T : t < f
<1>1. n \in Nat /\ n <= Cardinality(F!Free)
  <2>1. n \in Nat /\ Cardinality(F!Free) \in Nat
    BY FS_CardinalityType, RoomFacts
  <2>2. Cardinality(F!Free) >= n
    BY SameCount DEF F!HostRoom
  <2> QED
    BY <2>1, <2>2
<1>2. F!Free \in SUBSET (0 .. F!MaxHost) /\ F!MaxHost \in Nat /\ IsFiniteSet(F!Free)
  BY RoomFacts, SettingFacts DEF FileTypes
<1>3. \E T \in SUBSET F!Free : Taking(T)
  <2> HIDE DEF n
  <2> QED
    BY <1>1, <1>2, LowestMany
<1>4. F!kSubset(F!Cardinality(S), F!Free) = {T \in SUBSET F!Free : Cardinality(T) = n}
  BY SameCount, Zenon DEF F!kSubset
<1>5. taken \in SUBSET F!Free /\ Cardinality(taken) = n
  <2>1. \E T \in F!kSubset(F!Cardinality(S), F!Free) : \A f \in F!Free \ T, t \in T : t < f
    BY <1>3, <1>4
  <2>2. taken \in F!kSubset(F!Cardinality(S), F!Free)
    BY <2>1
  <2> HIDE DEF taken
  <2> QED
    BY <1>4, <2>2
<1> HIDE DEF taken
<1>6. IsFiniteSet(taken)
  BY <1>2, <1>5, FS_Subset
<1>7. \E f \in F!Bijection(S, taken) : TRUE
  <2>1. ExistsBijection(S, taken)
    BY <1>5, <1>6, FS_SameCardinalityBij
  <2>2. PICK f : f \in Bijection(S, taken)
    BY <2>1 DEF ExistsBijection
  <2>3. f \in F!Bijection(S, taken)
    BY <2>2 DEF Bijection, Injection, Surjection, IsInjective,
                F!Bijection, F!Injection, F!Surjection, F!IsInjective
  <2> QED
    BY <2>3
<1>8. F!Given(S) \in F!Bijection(S, taken)
  BY <1>7 DEF F!Given, taken
<1> QED
  BY <1>5, <1>8 DEF F!Bijection, F!Injection, F!IsInjective

-----------------------------------------------------------------------------
(* What a call does to the descriptors of the host *)

Reached(t, l, h) == \E c \in l : \E fd \in DOMAIN t[c] : t[c][fd].real = h

(* No pipe of a program is a descriptor that the simulator opened.         *)
Apart(t, o, l) ==
    \A c \in l : \A fd \in DOMAIN t[c] :
       t[c][fd].kind = "pipe" /\ t[c][fd].real \in DOMAIN o => o[t[c][fd].real] # "sim"

(* From tables t, host o and contexts l to u, p and m: a descriptor of the *)
(* host is closed for an entry that closer closes, or by an exit; it is    *)
(* opened for an entry; and one that no entry has any more was forgotten   *)
(* or its context is gone.                                                 *)
OpensNoSim(o, p) == \A h \in DOMAIN p : p[h] = "sim" => h \in DOMAIN o /\ o[h] = "sim"
PipesMade(t, l, u, p, m) ==
    \A c \in m : \A fd \in DOMAIN u[c] :
      \/ u[c][fd].kind = "pipe" /\ u[c][fd].real \in DOMAIN p => p[u[c][fd].real] # "sim"
      \/ \E d \in l : \E g \in DOMAIN t[d] : t[d][g].kind = "pipe" /\ t[d][g].real = u[c][fd].real
ClosesOwn(t, o, l, p, m) ==
    \A h \in DOMAIN o \ DOMAIN p :
      \/ \E c \in l : \E fd \in DOMAIN t[c] : t[c][fd].real = h /\ F!ClosesOnHost(t[c][fd])
      \/ h \notin 0 .. 2 /\ m # l
OpensReached(o, u, p, m) ==
    \A h \in DOMAIN p : h \notin DOMAIN o \/ p[h] # o[h] => Reached(u, m, h)
LeavesForgotten(t, o, l, u, p, m) ==
    \A c \in l : \A fd \in DOMAIN t[c] : t[c][fd].real \in DOMAIN p =>
      \/ Reached(u, m, t[c][fd].real)
      \/ ~F!ClosesOnHost(t[c][fd]) /\ (fd \notin DOMAIN u[c] \/ u[c][fd] # t[c][fd])
      \/ m # l /\ (p = o \/ t[c][fd].real \in 0 .. 2)

Moves(t, o, l, u, p, m) ==
    /\ OpensNoSim(o, p) /\ PipesMade(t, l, u, p, m) /\ ClosesOwn(t, o, l, p, m)
    /\ OpensReached(o, u, p, m) /\ LeavesForgotten(t, o, l, u, p, m)

(* Entries are added, with descriptors opened for them or none.            *)
Extends(t, o, l, u, p, m) ==
    /\ l \subseteq m
    /\ \A c \in l : \A fd \in DOMAIN t[c] : fd \in DOMAIN u[c] /\ u[c][fd].real = t[c][fd].real
    /\ \A c \in m : \A fd \in DOMAIN u[c] :
         \/ c \in l /\ fd \in DOMAIN t[c] /\ u[c][fd].real = t[c][fd].real
              /\ u[c][fd].kind = t[c][fd].kind
         \/ u[c][fd].real \notin DOMAIN o
    /\ \A h \in DOMAIN o : h \in DOMAIN p /\ p[h] = o[h]
    /\ \A h \in DOMAIN p : h \in DOMAIN o \/ (p[h] # "sim" /\ Reached(u, m, h))

LEMMA ExtendsMoves ==
    ASSUME NEW t, NEW o, NEW l, NEW u, NEW p, NEW m, Extends(t, o, l, u, p, m)
    PROVE  Moves(t, o, l, u, p, m)
<1>1. OpensNoSim(o, p)
  BY DEF Extends, OpensNoSim
<1>2. PipesMade(t, l, u, p, m)
  BY DEF Extends, PipesMade
<1>3. ClosesOwn(t, o, l, p, m)
  BY DEF Extends, ClosesOwn
<1>4. OpensReached(o, u, p, m)
  BY DEF Extends, OpensReached
<1>5. LeavesForgotten(t, o, l, u, p, m)
  BY DEF Extends, LeavesForgotten, Reached
<1> QED
  BY <1>1, <1>2, <1>3, <1>4, <1>5 DEF Moves

LEMMA MovesApart ==
    ASSUME NEW t, NEW o, NEW l, NEW u, NEW p, NEW m, Moves(t, o, l, u, p, m), Apart(t, o, l)
    PROVE  Apart(u, p, m)
BY DEF Moves, OpensNoSim, PipesMade, Apart

LEMMA DropMoves ==
    ASSUME NEW C, NEW t, NEW o, NEW l \in SUBSET C, t = [c \in C |-> t[c]], NEW c \in l,
           NEW D \in SUBSET DOMAIN t[c]
    PROVE  Moves(t, o, l, [t EXCEPT ![c] = Dropped(t[c], D)], Less(o, ClosedOf(t[c], D)), l)
<1> DEFINE u == [t EXCEPT ![c] = Dropped(t[c], D)]
           R == ClosedOf(t[c], D)
           p == Less(o, R)
<1>1. /\ \A d \in l : d # c => u[d] = t[d]
      /\ DOMAIN u[c] = DOMAIN t[c] \ D
      /\ \A g \in DOMAIN t[c] \ D : u[c][g] = t[c][g]
  <2>1. u[c] = Dropped(t[c], D) /\ \A d \in l : d # c => u[d] = t[d]
    OBVIOUS
  <2> HIDE DEF u
  <2> QED
    BY <2>1 DEF Dropped, F!Restrict
<1>2. DOMAIN p = DOMAIN o \ R /\ \A h \in DOMAIN p : p[h] = o[h]
  BY DEF Less
<1>3. ASSUME NEW h \in R
      PROVE  \E g \in D : t[c][g].real = h /\ F!ClosesOnHost(t[c][g])
  BY DEF ClosedOf
<1>4. ASSUME NEW g \in D, F!ClosesOnHost(t[c][g]) PROVE t[c][g].real \in R
  BY <1>4 DEF ClosedOf
<1> HIDE DEF u, p, R
<1>5. OpensNoSim(o, p)
  BY <1>2 DEF OpensNoSim
<1>6. PipesMade(t, l, u, p, l)
  BY <1>1 DEF PipesMade
<1>7. ClosesOwn(t, o, l, p, l)
  <2> SUFFICES ASSUME NEW h \in DOMAIN o \ DOMAIN p
               PROVE  \E d \in l : \E fd \in DOMAIN t[d] :
                         t[d][fd].real = h /\ F!ClosesOnHost(t[d][fd])
    BY DEF ClosesOwn
  <2>1. h \in R
    BY <1>2
  <2>2. PICK g \in D : t[c][g].real = h /\ F!ClosesOnHost(t[c][g])
    BY <1>3, <2>1
  <2> QED
    BY <2>2
<1>8. OpensReached(o, u, p, l)
  BY <1>2 DEF OpensReached
<1>9. LeavesForgotten(t, o, l, u, p, l)
  <2> SUFFICES ASSUME NEW d \in l, NEW fd \in DOMAIN t[d], t[d][fd].real \in DOMAIN p
               PROVE  \/ Reached(u, l, t[d][fd].real)
                      \/ ~F!ClosesOnHost(t[d][fd]) /\ fd \notin DOMAIN u[d]
    BY DEF LeavesForgotten
  <2>1. CASE d = c /\ fd \in D
    <3>1. t[d][fd].real \notin R
      BY <1>2
    <3> QED
      BY <1>1, <1>4, <2>1, <3>1
  <2>2. CASE ~(d = c /\ fd \in D)
    BY <1>1, <2>2 DEF Reached
  <2> QED
    BY <2>1, <2>2
<1>10. Moves(t, o, l, u, p, l)
  BY <1>5, <1>6, <1>7, <1>8, <1>9 DEF Moves
<1> QED
  BY <1>10 DEF u, p, R

LEMMA AddExtends ==
    ASSUME NEW C, NEW t, NEW o, NEW l \in SUBSET C, t = [c \in C |-> t[c]], NEW c \in l,
           NEW fd, fd \notin DOMAIN t[c], NEW e, e.real \notin DOMAIN o, e.kind # "sim",
           NEW p, p = o \/ p = F!Over(o, F!One(e.real, e.kind))
    PROVE  Extends(t, o, l, [t EXCEPT ![c] = F!With(t[c], fd, e)], p, l)
<1> DEFINE u == [t EXCEPT ![c] = F!With(t[c], fd, e)]
<1>1. /\ \A d \in l : d # c => u[d] = t[d]
      /\ DOMAIN u[c] = DOMAIN t[c] \cup {fd} /\ u[c][fd] = e
      /\ \A g \in DOMAIN t[c] : g # fd /\ u[c][g] = t[c][g]
  <2>1. u[c] = F!With(t[c], fd, e) /\ \A d \in l : d # c => u[d] = t[d]
    OBVIOUS
  <2>2. ASSUME NEW g \in DOMAIN t[c] PROVE g # fd
    OBVIOUS
  <2>3. /\ DOMAIN F!With(t[c], fd, e) = DOMAIN t[c] \cup {fd} /\ F!With(t[c], fd, e)[fd] = e
        /\ \A g \in DOMAIN t[c] : g # fd => F!With(t[c], fd, e)[g] = t[c][g]
    BY DEF F!With, F!Over, F!One
  <2> HIDE DEF u
  <2> QED
    BY <2>1, <2>2, <2>3
<1>2. /\ \A h \in DOMAIN o : h \in DOMAIN p /\ p[h] = o[h]
      /\ \A h \in DOMAIN p : h \in DOMAIN o \/ (h = e.real /\ p[h] # "sim")
  BY DEF F!Over, F!One
<1> HIDE DEF u
<1>3. Reached(u, l, e.real)
  BY <1>1 DEF Reached
<1>4. Extends(t, o, l, u, p, l)
  BY <1>1, <1>2, <1>3 DEF Extends
<1> QED
  BY <1>4 DEF u

LEMMA MovesExtended ==
    ASSUME NEW t, NEW o, NEW l, NEW v, NEW q, NEW u, NEW p,
           Moves(t, o, l, v, q, l), Extends(v, q, l, u, p, l)
    PROVE  Moves(t, o, l, u, p, l)
<1>1. ASSUME NEW h, Reached(v, l, h) PROVE Reached(u, l, h)
  BY <1>1 DEF Extends, Reached
<1>2. OpensNoSim(o, p)
  BY DEF Moves, OpensNoSim, Extends
<1>3. PipesMade(t, l, u, p, l)
  BY DEF Moves, PipesMade, Extends
<1>4. ClosesOwn(t, o, l, p, l)
  BY DEF Moves, ClosesOwn, Extends
<1>5. OpensReached(o, u, p, l)
  BY <1>1 DEF Moves, OpensReached, Extends
<1>6. LeavesForgotten(t, o, l, u, p, l)
  <2> SUFFICES ASSUME NEW c \in l, NEW fd \in DOMAIN t[c], t[c][fd].real \in DOMAIN p,
                      ~Reached(u, l, t[c][fd].real)
               PROVE  ~F!ClosesOnHost(t[c][fd]) /\ (fd \notin DOMAIN u[c] \/ u[c][fd] # t[c][fd])
    BY DEF LeavesForgotten
  <2>1. fd \notin DOMAIN u[c] \/ u[c][fd] # t[c][fd]
    BY DEF Reached
  <2>2. t[c][fd].real \in DOMAIN q
    BY DEF Extends
  <2>3. ~F!ClosesOnHost(t[c][fd])
    BY <1>1, <2>2 DEF Moves, LeavesForgotten
  <2> QED
    BY <2>1, <2>3
<1> QED
  BY <1>2, <1>3, <1>4, <1>5, <1>6 DEF Moves

LEMMA ExitMoves ==
    ASSUME NEW t, NEW o, NEW l, NEW c \in l,
           NEW R, R = {t[c][fd].real : fd \in DOMAIN t[c]} \ {0, 1, 2}
    PROVE  Moves(t, o, l, t, Less(o, R), l \ {c})
<1> DEFINE p == Less(o, R)
<1>1. DOMAIN p = DOMAIN o \ R /\ \A h \in DOMAIN p : p[h] = o[h]
  BY DEF Less
<1>2. 0 .. 2 = {0, 1, 2}
  OBVIOUS
<1>3. ASSUME NEW g \in DOMAIN t[c], t[c][g].real \notin 0 .. 2 PROVE t[c][g].real \in R
  BY <1>2, <1>3
<1>4. \A h \in R : h \notin 0 .. 2
  BY <1>2
<1> HIDE DEF p
<1>5. OpensNoSim(o, p) /\ PipesMade(t, l, t, p, l \ {c}) /\ OpensReached(o, t, p, l \ {c})
  BY <1>1 DEF OpensNoSim, PipesMade, OpensReached
<1>6. ClosesOwn(t, o, l, p, l \ {c})
  BY <1>1, <1>4 DEF ClosesOwn
<1>7. LeavesForgotten(t, o, l, t, p, l \ {c})
  <2> SUFFICES ASSUME NEW d \in l, NEW fd \in DOMAIN t[d], t[d][fd].real \in DOMAIN p
               PROVE  Reached(t, l \ {c}, t[d][fd].real) \/ t[d][fd].real \in 0 .. 2
    BY DEF LeavesForgotten
  <2>1. d # c => Reached(t, l \ {c}, t[d][fd].real)
    BY DEF Reached
  <2>2. d = c => t[d][fd].real \in 0 .. 2
    BY <1>1, <1>3
  <2> QED
    BY <2>1, <2>2
<1> QED
  BY <1>5, <1>6, <1>7 DEF Moves, p

LEMMA KillMoves ==
    ASSUME NEW t, NEW o, NEW l, NEW c \in l
    PROVE  Moves(t, o, l, t, o, l \ {c})
BY DEF Moves, OpensNoSim, PipesMade, OpensReached, ClosesOwn, LeavesForgotten, Reached

LEMMA StayMoves ==
    ASSUME NEW t, NEW o, NEW l
    PROVE  Moves(t, o, l, t, o, l)
BY DEF Moves, OpensNoSim, PipesMade, OpensReached, ClosesOwn, LeavesForgotten, Reached

Moved == Moves(table, host, live, table', host', live')

-----------------------------------------------------------------------------
(* The calls keep the invariant of the descriptors *)

LEMMA LowestSim ==
    ASSUME FileTypes, NEW c \in F!Contexts, NEW from \in Nat, from <= F!MaxFd + 1
    PROVE  /\ F!lowest_avail_sim_fd(c, from) \in from .. F!MaxFd + 1
           /\ F!lowest_avail_sim_fd(c, from) \notin DOMAIN table[c]
<1> DEFINE S == {fd \in from .. F!MaxFd + 1 : ~F!Known(c, fd)}
<1>1. F!MaxFd \in Nat /\ DOMAIN table[c] \subseteq 0 .. F!MaxFd
  BY SettingFacts DEF FileTypes, IsFdTable, F!Fds
<1>2. F!MaxFd + 1 \notin DOMAIN table[c] /\ F!MaxFd + 1 \in from .. F!MaxFd + 1
  BY <1>1
<1>3. F!MaxFd + 1 \in S /\ S \in SUBSET Nat
  BY <1>1, <1>2 DEF F!Known
<1>4. F!Lowest(S) \in S
  <2> HIDE DEF S
  <2> QED
    BY <1>3, LowestOf
<1>5. F!lowest_avail_sim_fd(c, from) \in S
  BY <1>4 DEF F!lowest_avail_sim_fd
<1> QED
  BY <1>5 DEF F!Known

LEMMA TypesWith ==
    ASSUME NEW t, IsFdTable(t), NEW fd \in F!Fds, NEW e \in EntryType
    PROVE  IsFdTable(F!With(t, fd, e))
BY DEF IsFdTable, F!With, F!Over, F!One

LEMMA TypesDropped ==
    ASSUME NEW t, IsFdTable(t), NEW D
    PROVE  IsFdTable(Dropped(t, D))
BY DEF IsFdTable, Dropped, F!Restrict

LEMMA TypesOver ==
    ASSUME NEW o, IsHost(o), NEW h \in F!HostFds, NEW k \in F!Kinds
    PROVE  IsHost(F!Over(o, F!One(h, k)))
BY DEF IsHost, F!Over, F!One

LEMMA TypesLess ==
    ASSUME NEW o, IsHost(o), NEW R
    PROVE  IsHost(Less(o, R))
BY DEF IsHost, Less

LEMMA SameSetting ==
    ASSUME setting' = setting
    PROVE  /\ F!Contexts' = F!Contexts /\ F!Fds' = F!Fds /\ F!HostFds' = F!HostFds
           /\ F!MaxHost' = F!MaxHost /\ F!MaxFd' = F!MaxFd /\ Tame' = Tame
           /\ F!Calls' = F!Calls /\ EntryType' = EntryType
BY DEF F!Contexts, F!Fds, F!HostFds, F!MaxContexts, F!MaxHost, F!MaxFd, Tame, F!HostFull,
       F!Redirected, F!Calls, EntryType

(* After a call that reaches no descriptor of the host by number.          *)
LEMMA CallStands ==
    ASSUME FileTypes, setting' = setting, touched' = <<>>,
           table' = [c \in F!Contexts |-> table'[c]], \A c \in F!Contexts : IsFdTable(table'[c]),
           poisoned' \subseteq F!Contexts, live' \subseteq F!Contexts, IsHost(host'),
           HostKept(table', host', live')
    PROVE  FilesInv'
<1>1. FileTypes'
  <2>1. \A c \in F!Contexts' : IsFdTable(table[c])'
    BY SameSetting DEF IsFdTable
  <2>2. IsHost(host)'
    BY SameSetting DEF IsHost
  <2> QED
    BY <2>1, <2>2, SameSetting DEF FileTypes
<1>2. HostKept(table, host, live)'
  BY SameSetting DEF HostKept, Owns, EndsHeld, Held
<1> QED
  BY <1>1, <1>2 DEF FilesInv

(* Tables and descriptors of the host that the programs can go on with.    *)
Sound(t, o) ==
    /\ t = [d \in F!Contexts |-> t[d]] /\ \A d \in F!Contexts : IsFdTable(t[d])
    /\ IsHost(o) /\ HostKept(t, o, live)

LEMMA SoundAdded ==
    ASSUME NEW t, NEW o, Sound(t, o), live \subseteq F!Contexts, NEW c \in live,
           NEW fd \in F!Fds, fd \notin DOMAIN t[c],
           NEW e \in EntryType, e.real \in F!HostFds, e.real \notin DOMAIN o
    PROVE  Sound([t EXCEPT ![c] = F!With(t[c], fd, e)], F!Over(o, F!One(e.real, e.kind)))
<1> DEFINE w == F!With(t[c], fd, e)
           p == F!Over(o, F!One(e.real, e.kind))
<1>1. IsFdTable(w) /\ IsHost(p)
  <2>1. IsFdTable(t[c]) /\ IsHost(o) /\ e.kind \in F!Kinds
    BY DEF Sound, EntryType
  <2> QED
    BY <2>1, TypesWith, TypesOver
<1>2. HostKept([t EXCEPT ![c] = w], p, live)
  <2>1. t = [d \in F!Contexts |-> t[d]] /\ HostKept(t, o, live)
    BY DEF Sound
  <2> QED
    BY <2>1, EntryAdded
<1> DEFINE u == [t EXCEPT ![c] = w]
<1> HIDE DEF w, p
<1>3. u = [d \in F!Contexts |-> u[d]] /\ \A d \in F!Contexts : IsFdTable(u[d])
  BY <1>1 DEF Sound
<1> HIDE DEF u
<1>4. HostKept(u, p, live)
  BY <1>2 DEF u
<1>5. Sound(u, p)
  BY <1>1, <1>3, <1>4 DEF Sound
<1> QED
  BY <1>5 DEF u, w, p

LEMMA SoundDropped ==
    ASSUME NEW t, NEW o, Sound(t, o), live \subseteq F!Contexts, NEW c \in live,
           NEW D \in SUBSET DOMAIN t[c]
    PROVE  Sound([t EXCEPT ![c] = Dropped(t[c], D)], Less(o, ClosedOf(t[c], D)))
<1> DEFINE w == Dropped(t[c], D)
           p == Less(o, ClosedOf(t[c], D))
<1>1. IsFdTable(w) /\ IsHost(p)
  <2>1. IsFdTable(t[c]) /\ IsHost(o)
    BY DEF Sound
  <2> QED
    BY <2>1, TypesDropped, TypesLess
<1>2. HostKept([t EXCEPT ![c] = w], p, live)
  <2>1. t = [d \in F!Contexts |-> t[d]] /\ HostKept(t, o, live)
    BY DEF Sound
  <2> QED
    BY <2>1, EntriesDropped
<1> DEFINE u == [t EXCEPT ![c] = w]
<1> HIDE DEF w, p
<1>3. u = [d \in F!Contexts |-> u[d]] /\ \A d \in F!Contexts : IsFdTable(u[d])
  BY <1>1 DEF Sound
<1> HIDE DEF u
<1>4. HostKept(u, p, live)
  BY <1>2 DEF u
<1>5. Sound(u, p)
  BY <1>1, <1>3, <1>4 DEF Sound
<1> QED
  BY <1>5 DEF u, w, p

LEMMA SoundBefore ==
    ASSUME FilesInv
    PROVE  /\ FileTypes /\ Sound(table, host) /\ live \subseteq F!Contexts
           /\ poisoned \subseteq F!Contexts /\ F!MaxFd \in Nat /\ F!Fds = 0 .. F!MaxFd
BY SettingFacts DEF FilesInv, FileTypes, Sound, F!Fds

LEMMA SoundAfter ==
    ASSUME FilesInv, setting' = setting, touched' = <<>>, live' = live,
           poisoned' \subseteq F!Contexts, Sound(table', host')
    PROVE  FilesInv'
BY CallStands, SoundBefore DEF Sound

LEMMA AddMoved ==
    ASSUME FilesInv, NEW c \in live, NEW fd, fd \notin DOMAIN table[c],
           NEW e, e.real \notin DOMAIN host, e.kind \in F!Kinds, live' = live,
           table' = [table EXCEPT ![c] = F!With(table[c], fd, e)],
           host' = host \/ host' = F!Over(host, F!One(e.real, e.kind))
    PROVE  Moved
<1>1. /\ live \in SUBSET F!Contexts /\ table = [d \in F!Contexts |-> table[d]]
      /\ e.kind # "sim"
  BY SoundBefore DEF Sound, F!Kinds
<1>2. Extends(table, host, live, [table EXCEPT ![c] = F!With(table[c], fd, e)], host', live)
  BY <1>1, AddExtends
<1> QED
  BY <1>2, ExtendsMoves DEF Moved

LEMMA DropMoved ==
    ASSUME FilesInv, NEW c \in live, NEW D \in SUBSET DOMAIN table[c], live' = live,
           table' = [table EXCEPT ![c] = Dropped(table[c], D)],
           host' = Less(host, ClosedOf(table[c], D))
    PROVE  Moved
<1>1. live \in SUBSET F!Contexts /\ table = [d \in F!Contexts |-> table[d]]
  BY SoundBefore DEF Sound
<1>2. Moves(table, host, live, [table EXCEPT ![c] = Dropped(table[c], D)],
            Less(host, ClosedOf(table[c], D)), live)
  BY <1>1, DropMoves
<1> QED
  BY <1>2 DEF Moved

LEMMA CallFails ==
    ASSUME FilesInv, setting' = setting, touched' = <<>>, UNCHANGED <<table, poisoned, live, host>>
    PROVE  FilesInv' /\ Moved
<1>1. Moved
  BY StayMoves DEF Moved
<1> QED
  BY <1>1, SoundBefore, SoundAfter

LEMMA OpenKept ==
    ASSUME FilesInv, setting' = setting, NEW c \in live, F!open(c)
    PROVE  FilesInv' /\ Moved
<1> DEFINE fd == F!lowest_avail_sim_fd(c, 0)
           h == F!Lowest(F!Free)
           e == F!Entry(h, "file", FALSE)
<1>1. CASE UNCHANGED <<table, poisoned, live, host>> /\ touched' = <<>>
  BY <1>1, CallFails
<1>2. CASE /\ F!HostRoom(1) /\ fd <= F!MaxFd
           /\ table' = [table EXCEPT ![c] = F!With(@, fd, e)]
           /\ host' = F!Opened({h}, "file")
           /\ F!Quiet /\ UNCHANGED <<poisoned, live>>
  <2>1. h \in F!HostFds /\ h \notin DOMAIN host
    BY <1>2, RoomFacts, SoundBefore DEF F!Free
  <2>2. fd \in F!Fds /\ fd \notin DOMAIN table[c]
    BY <1>2, SoundBefore, LowestSim
  <2>3. e.real = h /\ e.kind = "file" /\ e \in EntryType
    BY <2>1 DEF F!Entry, EntryType, F!Kinds
  <2>4. host' = F!Over(host, F!One(e.real, e.kind))
    BY <1>2, <2>3 DEF F!Opened, F!One
  <2> HIDE DEF fd, h, e
  <2>5. table' = [table EXCEPT ![c] = F!With(table[c], fd, e)]
    BY <1>2
  <2>6. Sound(table', host')
    BY <2>1, <2>2, <2>3, <2>4, <2>5, SoundBefore, SoundAdded
  <2>7. Moved
    BY <1>2, <2>1, <2>2, <2>3, <2>4, <2>5, AddMoved DEF F!Kinds
  <2> QED
    BY <1>2, <2>6, <2>7, SoundBefore, SoundAfter DEF F!Quiet
<1> QED
  BY <1>1, <1>2 DEF F!open, F!Fails, F!Quiet

LEMMA CloseKept ==
    ASSUME FilesInv, setting' = setting, NEW c \in live, NEW fd, F!close(c, fd)
    PROVE  FilesInv' /\ Moved
<1>1. CASE F!Known(c, fd)
  <2>1. /\ table' = [table EXCEPT ![c] = F!Without(c, {fd})] /\ host' = F!ClosedEntries(c, {fd})
        /\ UNCHANGED <<poisoned, live>> /\ touched' = <<>>
    BY <1>1 DEF F!close, F!Quiet
  <2>2. F!Without(c, {fd}) = Dropped(table[c], {fd})
    BY DEF F!Without, Dropped
  <2>3. F!ClosedEntries(c, {fd}) = Less(host, ClosedOf(table[c], {fd}))
    BY DEF F!ClosedEntries, F!HostClosed, Less, ClosedOf
  <2>4. {fd} \in SUBSET DOMAIN table[c]
    BY <1>1 DEF F!Known
  <2>5. Sound([table EXCEPT ![c] = Dropped(table[c], {fd})], Less(host, ClosedOf(table[c], {fd})))
    BY <2>4, SoundBefore, SoundDropped
  <2>6. Moved
    BY <2>1, <2>2, <2>3, <2>4, DropMoved
  <2> QED
    BY <2>1, <2>2, <2>3, <2>5, <2>6, SoundBefore, SoundAfter
<1>2. CASE ~F!Known(c, fd)
  <2>1. /\ UNCHANGED <<table, live, host>> /\ touched' = <<>>
        /\ poisoned' \subseteq poisoned \cup {c}
    BY <1>2 DEF F!close, F!Quiet, F!Fails
  <2>2. Moved
    BY <2>1, StayMoves DEF Moved
  <2> QED
    BY <2>1, <2>2, SoundBefore, SoundAfter
<1> QED
  BY <1>1, <1>2

LEMMA ExecKept ==
    ASSUME FilesInv, setting' = setting, NEW c \in live, F!handle_cloexec(c)
    PROVE  FilesInv' /\ Moved
<1> DEFINE D == {fd \in DOMAIN table[c] : table[c][fd].cloexec}
<1>1. /\ table' = [table EXCEPT ![c] = F!Without(c, D)] /\ host' = F!ClosedEntries(c, D)
      /\ UNCHANGED <<poisoned, live>> /\ touched' = <<>>
  BY DEF F!handle_cloexec, F!Quiet
<1>2. D \in SUBSET DOMAIN table[c]
  OBVIOUS
<1> HIDE DEF D
<1>3. F!Without(c, D) = Dropped(table[c], D)
  BY DEF F!Without, Dropped
<1>4. F!ClosedEntries(c, D) = Less(host, ClosedOf(table[c], D))
  BY DEF F!ClosedEntries, F!HostClosed, Less, ClosedOf
<1>5. Sound([table EXCEPT ![c] = Dropped(table[c], D)], Less(host, ClosedOf(table[c], D)))
  BY <1>2, SoundBefore, SoundDropped
<1>6. Moved
  BY <1>1, <1>2, <1>3, <1>4, DropMoved
<1> QED
  BY <1>1, <1>3, <1>4, <1>5, <1>6, SoundBefore, SoundAfter

LEMMA ClosedNowhere ==
    ASSUME NEW o, IsHost(o)
    PROVE  F!Closed \notin DOMAIN o
BY DEF IsHost, F!HostFds, F!Closed

LEMMA DupKept ==
    ASSUME FilesInv, setting' = setting, NEW c \in live, NEW fd, F!duper(c, fd)
    PROVE  FilesInv' /\ Moved
<1> DEFINE old == table[c][fd]
           new == F!lowest_avail_sim_fd(c, 0)
           e == F!Duplicate(old, F!DupReal)
<1>1. CASE F!Fails("get_entry")
  BY <1>1, CallFails DEF F!Fails
<1>2. CASE /\ F!Known(c, fd) /\ new <= F!MaxFd
           /\ table' = [table EXCEPT ![c] = F!With(@, new, e)]
           /\ host' = F!DupHost(old, old.kind)
           /\ F!Bounded(1) /\ F!Quiet /\ UNCHANGED <<poisoned, live>>
  <2>1. old \in EntryType
    BY <1>2, SoundBefore DEF Sound, IsFdTable, F!Known
  <2>2. new \in F!Fds /\ new \notin DOMAIN table[c]
    BY <1>2, SoundBefore, LowestSim
  <2>3. table' = [table EXCEPT ![c] = F!With(table[c], new, e)]
    BY <1>2
  <2>4. CASE F!HostRoom(1)
    <3>1. e.real \in F!HostFds /\ e.real \notin DOMAIN host
      <4>1. e.real = F!Lowest(F!Free)
        BY <2>1, <2>4 DEF F!Duplicate, F!DupReal, EntryType
      <4> QED
        BY <2>4, <4>1, RoomFacts, SoundBefore DEF F!Free
    <3>2. e \in EntryType /\ e.kind = old.kind
      BY <2>1, <3>1 DEF F!Duplicate, EntryType
    <3>3. host' = F!Over(host, F!One(e.real, e.kind))
      <4>1. e.real = F!Lowest(F!Free)
        BY <2>1, <2>4 DEF F!Duplicate, F!DupReal, EntryType
      <4> QED
        BY <1>2, <2>4, <3>2, <4>1 DEF F!DupHost
    <3> HIDE DEF new, e, old
    <3>4. Sound(table', host')
      BY <2>2, <2>3, <3>1, <3>2, <3>3, SoundBefore, SoundAdded
    <3>5. Moved
      BY <1>2, <2>2, <2>3, <3>1, <3>2, <3>3, AddMoved DEF EntryType
    <3> QED
      BY <1>2, <3>4, <3>5, SoundBefore, SoundAfter DEF F!Quiet
  <2>5. CASE ~F!HostRoom(1)
    <3>1. e \in EntryType /\ host' = host /\ e.real = F!Closed
      BY <1>2, <2>1, <2>5 DEF F!Duplicate, F!DupReal, F!DupHost, EntryType
    <3>2. ~Tame
      BY <1>2, <2>5 DEF F!Bounded, Tame
    <3>3. IsFdTable(F!With(table[c], new, e))
      <4>1. IsFdTable(table[c])
        BY SoundBefore DEF Sound
      <4> HIDE DEF new, e
      <4> QED
        BY <2>2, <3>1, <4>1, TypesWith
    <3> DEFINE w == F!With(table[c], new, e)
    <3> HIDE DEF w
    <3>4. table' = [table EXCEPT ![c] = w] /\ IsFdTable(w)
      BY <2>3, <3>3 DEF w
    <3>5. Sound(table', host')
      BY <3>1, <3>2, <3>4, SoundBefore DEF Sound, HostKept
    <3>6. Moved
      <4>1. e.real \notin DOMAIN host /\ e.kind \in F!Kinds
        BY <3>1, ClosedNowhere, SoundBefore DEF Sound, EntryType
      <4> HIDE DEF e, new
      <4> QED
        BY <1>2, <2>2, <2>3, <3>1, <4>1, AddMoved
    <3> QED
      BY <1>2, <3>5, <3>6, SoundBefore, SoundAfter DEF F!Quiet
  <2> QED
    BY <2>4, <2>5
<1> QED
  BY <1>1, <1>2 DEF F!duper

LEMMA PipeKept ==
    ASSUME FilesInv, setting' = setting, NEW c \in live, F!pipe(c)
    PROVE  FilesInv' /\ Moved
<1> DEFINE r == F!Lowest(F!Free)
           w == F!Lowest(F!Free \ {r})
           simr == F!InsertedAs(c, r)
           W == {fd \in w .. F!MaxFd + 2 : ~F!Known(c, fd) /\ fd # simr}
           simw == F!Lowest(W)
           er == F!Entry(r, "pipe", FALSE)
           ew == F!Entry(w, "pipe", FALSE)
           t == [table EXCEPT ![c] = F!With(table[c], simr, er)]
           o == F!Over(host, F!One(er.real, er.kind))
<1>1. CASE F!Fails("get_entry") \/ F!Fails("uninitialized")
  BY <1>1, CallFails DEF F!Fails
<1>2. CASE /\ F!HostRoom(2) /\ {simr, simw} \subseteq F!Fds
           /\ table' = [table EXCEPT ![c] = F!With(F!With(@, simr, er), simw, ew)]
           /\ host' = F!Opened({r, w}, "pipe")
           /\ F!Quiet /\ UNCHANGED <<poisoned, live>>
  <2>1. F!MaxHost \in Nat /\ F!MaxHost <= F!MaxFd /\ F!MaxFd \in Nat
    BY SoundBefore, SettingFacts DEF FileTypes
  <2>2. /\ r \in F!HostFds /\ r \notin DOMAIN host
        /\ w \in F!HostFds /\ w \notin DOMAIN host /\ w # r
    <3>1. F!HostRoom(1)
      <4>1. IsFiniteSet(F!Free) /\ F!Cardinality(F!Free) = Cardinality(F!Free)
        BY RoomFacts, SoundBefore, SameCount
      <4>2. Cardinality(F!Free) \in Nat
        BY <4>1, FS_CardinalityType
      <4> QED
        BY <1>2, <4>1, <4>2 DEF F!HostRoom
    <3>2. r \in F!Free /\ w \in F!Free \ {r}
      BY <1>2, <3>1, RoomFacts, SoundBefore
    <3> HIDE DEF r, w
    <3> QED
      BY <3>2 DEF F!Free
  <2>3. simr \notin DOMAIN table[c]
    <3>1. r \in Nat /\ r <= F!MaxFd + 1
      BY <2>1, <2>2 DEF F!HostFds
    <3> HIDE DEF r
    <3> QED
      BY <3>1, SoundBefore, LowestSim DEF F!InsertedAs
  <2>4. simw \notin DOMAIN table[c] /\ simw # simr
    <3>1. w \in Nat /\ w <= F!MaxFd + 1
      BY <2>1, <2>2 DEF F!HostFds
    <3>2. DOMAIN table[c] \subseteq 0 .. F!MaxFd
      BY SoundBefore DEF Sound, IsFdTable
    <3> HIDE DEF w, simr
    <3>3. F!MaxFd + 1 \in W \/ F!MaxFd + 2 \in W
      BY <2>1, <3>1, <3>2 DEF F!Known
    <3>4. W \in SUBSET Nat
      BY <3>1
    <3>5. simw \in W
      <4> HIDE DEF W
      <4> QED
        BY <3>3, <3>4, LowestOf
    <3> QED
      BY <3>5 DEF F!Known
  <2>5. /\ er \in EntryType /\ er.real = r /\ er.kind = "pipe"
        /\ ew \in EntryType /\ ew.real = w /\ ew.kind = "pipe"
    <3> HIDE DEF r, w
    <3> QED
      BY <2>2 DEF F!Entry, EntryType, F!Kinds
  <2> HIDE DEF r, w, simr, simw, W, er, ew
  <2>6. Sound(t, o)
    BY <1>2, <2>2, <2>3, <2>5, SoundBefore, SoundAdded
  <2>7. t[c] = F!With(table[c], simr, er) /\ DOMAIN o = DOMAIN host \cup {r}
    <3>1. c \in F!Contexts /\ table = [d \in F!Contexts |-> table[d]]
      BY SoundBefore DEF Sound
    <3>2. t[c] = F!With(table[c], simr, er)
      BY <3>1
    <3> QED
      BY <2>5, <3>2 DEF F!Over, F!One
  <2>8. simw \in F!Fds /\ simw \notin DOMAIN t[c] /\ w \notin DOMAIN o
    <3>1. DOMAIN t[c] = DOMAIN table[c] \cup {simr}
      <4> HIDE DEF t
      <4> QED
        BY <2>7 DEF F!With, F!Over, F!One
    <3> QED
      BY <1>2, <2>2, <2>4, <2>7, <3>1
  <2>9. Sound([t EXCEPT ![c] = F!With(t[c], simw, ew)], F!Over(o, F!One(ew.real, ew.kind)))
    <3> HIDE DEF t, o
    <3> QED
      BY <2>2, <2>5, <2>6, <2>8, SoundBefore, SoundAdded
  <2>10. table' = [t EXCEPT ![c] = F!With(t[c], simw, ew)]
    <3> DEFINE x == F!With(table[c], simr, er)
    <3>1. t[c] = x /\ table' = [table EXCEPT ![c] = F!With(x, simw, ew)]
      BY <1>2, <2>7
    <3>2. t = [table EXCEPT ![c] = x]
      OBVIOUS
    <3> HIDE DEF x, t
    <3> QED
      BY <3>1, <3>2
  <2>11. host' = F!Over(o, F!One(ew.real, ew.kind))
    BY <1>2, <2>2, <2>5 DEF F!Opened, F!Over, F!One
  <2>12. Sound(table', host')
    BY <2>9, <2>10, <2>11
  <2>13. Moved
    <3>1. /\ live \in SUBSET F!Contexts /\ table = [d \in F!Contexts |-> table[d]]
          /\ t = [d \in F!Contexts |-> t[d]]
      BY <2>6, SoundBefore DEF Sound
    <3>2. Extends(table, host, live, t, o, live)
      BY <2>2, <2>3, <2>5, <3>1, AddExtends
    <3> HIDE DEF t, o
    <3>3. Extends(t, o, live, [t EXCEPT ![c] = F!With(t[c], simw, ew)],
                  F!Over(o, F!One(ew.real, ew.kind)), live)
      BY <2>5, <2>8, <3>1, AddExtends
    <3>4. Moves(table, host, live, table', host', live)
      BY <2>10, <2>11, <3>2, <3>3, ExtendsMoves, MovesExtended
    <3> QED
      BY <1>2, <3>4 DEF Moved
  <2> QED
    BY <1>2, <2>12, <2>13, SoundBefore, SoundAfter DEF F!Quiet
<1> QED
  BY <1>1, <1>2 DEF F!pipe

LEMMA Dup2Kept ==
    ASSUME FilesInv, setting' = setting, NEW c \in live, NEW old, NEW new, F!dup2(c, old, new)
    PROVE  FilesInv' /\ Moved
<1> DEFINE entry == table[c][old]
           after == F!ClosedEntries(c, {new})
           free == F!HostFds \ DOMAIN after
           real == IF free = {} THEN F!Closed ELSE F!Lowest(free)
           e == F!Duplicate(entry, real)
           t == [table EXCEPT ![c] = Dropped(table[c], {new})]
<1>1. CASE F!Fails("get_entry")
  BY <1>1, CallFails DEF F!Fails
<1>2. CASE /\ F!Known(c, old) /\ F!Known(c, new)
           /\ table' = [table EXCEPT ![c] = F!With(F!Without(c, {new}), new, e)]
           /\ host' = IF free = {} THEN after ELSE F!Over(after, F!One(real, entry.kind))
           /\ F!Bounded(1) /\ F!Quiet /\ UNCHANGED <<poisoned, live>>
  <2>1. entry \in EntryType /\ new \in F!Fds
    BY <1>2, SoundBefore DEF Sound, IsFdTable, F!Known
  <2>2. after = Less(host, ClosedOf(table[c], {new}))
    BY DEF F!ClosedEntries, F!HostClosed, Less, ClosedOf
  <2>3. Sound(t, after)
    <3>1. {new} \in SUBSET DOMAIN table[c]
      BY <1>2 DEF F!Known
    <3> QED
      BY <2>2, <3>1, SoundBefore, SoundDropped
  <2>4. t[c] = Dropped(table[c], {new}) /\ new \notin DOMAIN t[c]
    <3>1. c \in F!Contexts /\ table = [d \in F!Contexts |-> table[d]]
      BY SoundBefore DEF Sound
    <3>2. t[c] = Dropped(table[c], {new})
      BY <3>1
    <3> HIDE DEF t
    <3> QED
      BY <3>2 DEF Dropped, F!Restrict
  <2>5. table' = [t EXCEPT ![c] = F!With(t[c], new, e)]
    <3> DEFINE x == Dropped(table[c], {new})
    <3>1. F!Without(c, {new}) = x
      BY DEF F!Without, Dropped
    <3>2. t[c] = x /\ t = [table EXCEPT ![c] = x]
      BY <2>4
    <3>3. table' = [table EXCEPT ![c] = F!With(x, new, e)]
      BY <1>2, <3>1
    <3> HIDE DEF x, t, e
    <3> QED
      BY <3>2, <3>3
  <2>8. ASSUME e.real \notin DOMAIN after, e.kind \in F!Kinds, live' = live,
               host' = after \/ host' = F!Over(after, F!One(e.real, e.kind))
        PROVE  Moved
    <3>1. /\ live \in SUBSET F!Contexts /\ table = [d \in F!Contexts |-> table[d]]
          /\ t = [d \in F!Contexts |-> t[d]] /\ {new} \in SUBSET DOMAIN table[c]
          /\ e.kind # "sim"
      BY <1>2, <2>3, <2>8, SoundBefore DEF Sound, F!Known, F!Kinds
    <3>2. Moves(table, host, live, t, after, live)
      <4>1. Moves(table, host, live, t, Less(host, ClosedOf(table[c], {new})), live)
        BY <3>1, DropMoves
      <4> HIDE DEF t, after
      <4> QED
        BY <2>2, <4>1
    <3> HIDE DEF t, after, e
    <3>3. Extends(t, after, live, [t EXCEPT ![c] = F!With(t[c], new, e)], host', live)
      BY <2>4, <2>8, <3>1, AddExtends
    <3>4. Moves(table, host, live, table', host', live)
      BY <2>5, <3>2, <3>3, MovesExtended
    <3> QED
      BY <2>8, <3>4 DEF Moved
  <2>6. CASE free # {}
    <3>1. real \in F!HostFds /\ real \notin DOMAIN after
      <4>1. free \in SUBSET Nat
        BY DEF F!HostFds
      <4>2. F!Lowest(free) \in free
        <5> HIDE DEF free
        <5> QED
          BY <2>6, <4>1, LowestOf
      <4> QED
        BY <2>6, <4>2
    <3>2. e \in EntryType /\ e.real = real /\ e.kind = entry.kind
      <4> HIDE DEF real, entry
      <4> QED
        BY <2>1, <3>1 DEF F!Duplicate, EntryType
    <3>3. host' = F!Over(after, F!One(e.real, e.kind))
      BY <1>2, <2>6, <3>2
    <3> HIDE DEF t, after, e, real, free, entry
    <3>4. Sound(table', host')
      BY <2>1, <2>3, <2>4, <2>5, <3>1, <3>2, <3>3, SoundBefore, SoundAdded
    <3>5. e.real \notin DOMAIN after /\ e.kind \in F!Kinds
      BY <3>1, <3>2 DEF EntryType
    <3>6. Moved
      BY <1>2, <2>8, <3>3, <3>5
    <3> QED
      BY <1>2, <3>4, <3>6, SoundBefore, SoundAfter DEF F!Quiet
  <2>7. CASE free = {}
    <3>1. e \in EntryType /\ host' = after /\ e.real = F!Closed
      BY <1>2, <2>1, <2>7 DEF F!Duplicate, EntryType
    <3>2. ~Tame
      <4> SUFFICES ASSUME Tame PROVE FALSE
        OBVIOUS
      <4>1. F!HostRoom(1)
        BY <1>2 DEF F!Bounded, Tame
      <4>2. F!Lowest(F!Free) \in F!Free
        BY <4>1, RoomFacts, SoundBefore
      <4>3. F!Free \subseteq free
        BY <2>2 DEF F!Free, Less
      <4> QED
        BY <2>7, <4>2, <4>3
    <3> DEFINE w == F!With(t[c], new, e)
    <3>3. IsFdTable(w)
      <4>1. IsFdTable(t[c])
        BY <2>3, SoundBefore DEF Sound
      <4> HIDE DEF t, e
      <4> QED
        BY <2>1, <3>1, <4>1, TypesWith
    <3> HIDE DEF w, t, after
    <3>4. table' = [t EXCEPT ![c] = w]
      BY <2>5 DEF w
    <3>5. Sound(table', host')
      BY <2>3, <3>1, <3>2, <3>3, <3>4 DEF Sound, HostKept
    <3>6. e.real \notin DOMAIN after /\ e.kind \in F!Kinds
      BY <2>3, <3>1, ClosedNowhere DEF Sound, EntryType
    <3>7. Moved
      BY <1>2, <2>8, <3>1, <3>6
    <3> QED
      BY <1>2, <3>5, <3>7, SoundBefore, SoundAfter DEF F!Quiet
  <2> QED
    BY <2>6, <2>7
<1> QED
  BY <1>1, <1>2 DEF F!dup2

LEMMA SetfdKept ==
    ASSUME FilesInv, setting' = setting, NEW c \in live, NEW fd, F!setfd_cloexec(c, fd)
    PROVE  FilesInv' /\ Moved
<1>1. CASE ~F!Known(c, fd)
  BY <1>1, CallFails DEF F!setfd_cloexec, F!Fails, F!Quiet
<1>2. CASE F!Known(c, fd)
  <2>1. /\ table' = [table EXCEPT ![c][fd].cloexec = TRUE]
        /\ touched' = <<>> /\ UNCHANGED <<poisoned, live, host>>
        /\ table[c][fd].real \in 0 .. 2 => "mark 0-2" \in F!Calls
    BY <1>2 DEF F!setfd_cloexec, F!Quiet
  <2>2. fd \in DOMAIN table[c] /\ c \in F!Contexts /\ IsFdTable(table[c])
    BY <1>2, SoundBefore DEF F!Known, Sound
  <2>3. /\ \A d \in F!Contexts : DOMAIN table'[d] = DOMAIN table[d]
        /\ \A d \in F!Contexts : \A f \in DOMAIN table[d] :
             IF d = c /\ f = fd THEN table'[d][f] = [table[c][fd] EXCEPT !.cloexec = TRUE]
                                ELSE table'[d][f] = table[d][f]
        /\ table' = [d \in F!Contexts |-> table'[d]]
    BY <2>1, <2>2, SoundBefore DEF Sound
  <2>4. table[c][fd] \in EntryType
    BY <2>2 DEF IsFdTable
  <2>5. \A d \in F!Contexts : \A f \in DOMAIN table[d] :
          /\ table'[d][f].real = table[d][f].real /\ table'[d][f].kind = table[d][f].kind
          /\ d # c \/ f # fd => table'[d][f] = table[d][f]
          /\ table'[d][f] \in EntryType
    <3> SUFFICES ASSUME NEW d \in F!Contexts, NEW f \in DOMAIN table[d]
                 PROVE  /\ table'[d][f].real = table[d][f].real
                        /\ table'[d][f].kind = table[d][f].kind
                        /\ d # c \/ f # fd => table'[d][f] = table[d][f]
                        /\ table'[d][f] \in EntryType
      OBVIOUS
    <3>1. table[d][f] \in EntryType
      BY SoundBefore DEF Sound, IsFdTable
    <3>2. CASE d = c /\ f = fd
      <4>1. table'[d][f] = [table[c][fd] EXCEPT !.cloexec = TRUE]
        BY <2>3, <3>2
      <4> QED
        BY <2>4, <3>2, <4>1 DEF EntryType
    <3>3. CASE d # c \/ f # fd
      BY <2>3, <3>1, <3>3
    <3> QED
      BY <3>2, <3>3
  <2>6. \A d \in F!Contexts : IsFdTable(table'[d])
    BY <2>3, <2>5, SoundBefore DEF Sound, IsFdTable
  <2>7. HostKept(table', host, live)
    <3>1. SUFFICES ASSUME Tame, Owns(table, host, live)
                   PROVE  /\ Owns(table', host, live)
                          /\ EndsHeld(table, host, live) => EndsHeld(table', host, live)
      BY SoundBefore, Zenon DEF HostKept, Sound
    <3>2. live \subseteq F!Contexts
      BY SoundBefore
    <3>3. ASSUME NEW d \in live, NEW f \in DOMAIN table'[d] PROVE Held(table'[d][f], host)
      <4>1. d \in F!Contexts /\ f \in DOMAIN table[d]
        BY <2>3, <3>2
      <4>2. Held(table[d][f], host)
        BY <3>1, <4>1 DEF Owns
      <4>3. CASE d = c /\ f = fd
        <5>1. table[c][fd].real \notin 0 .. 2
          BY <2>1, <3>1 DEF Tame
        <5> QED
          BY <2>5, <4>1, <4>2, <4>3, <5>1 DEF Held
      <4>4. CASE d # c \/ f # fd
        BY <2>5, <4>1, <4>2, <4>4
      <4> QED
        BY <4>3, <4>4
    <3>4. Owns(table', host, live)
      BY <2>3, <2>5, <3>1, <3>2, <3>3 DEF Owns
    <3>5. EndsHeld(table, host, live) => EndsHeld(table', host, live)
      BY <2>3, <2>5, <3>2 DEF EndsHeld
    <3> QED
      BY <3>4, <3>5
  <2>8. Sound(table', host')
    BY <2>1, <2>3, <2>6, <2>7, SoundBefore DEF Sound
  <2>9. Moved
    <3>1. Extends(table, host, live, table', host, live)
      BY <2>3, <2>5, SoundBefore DEF Extends
    <3> QED
      BY <2>1, <3>1, ExtendsMoves DEF Moved
  <2> QED
    BY <2>1, <2>8, <2>9, SoundBefore, SoundAfter
<1> QED
  BY <1>1, <1>2

LEMMA ExitKept ==
    ASSUME FilesInv, setting' = setting, NEW c \in live, F!exit(c)
    PROVE  FilesInv' /\ Moved
<1> DEFINE R == {table[c][fd].real : fd \in DOMAIN table[c]} \ {0, 1, 2}
<1>1. /\ host' = Less(host, R) /\ live' = live \ {c}
      /\ UNCHANGED <<table, poisoned>> /\ touched' = <<>>
  BY DEF F!exit, F!HostClosed, Less, F!Quiet
<1>2. HostKept(table, Less(host, R), live \ {c})
  BY SoundBefore, ContextExits DEF Sound
<1> HIDE DEF R
<1>3. IsHost(host')
  BY <1>1, SoundBefore, TypesLess DEF Sound
<1>4. Moved
  <2>1. Moves(table, host, live, table, Less(host, R), live \ {c})
    BY ExitMoves DEF R
  <2> QED
    BY <1>1, <2>1 DEF Moved
<1> QED
  BY <1>1, <1>2, <1>3, <1>4, SoundBefore, CallStands DEF Sound

LEMMA KillKept ==
    ASSUME FilesInv, setting' = setting, NEW c \in live, F!kill(c)
    PROVE  FilesInv' /\ Moved
<1>1. /\ live' = live \ {c} /\ UNCHANGED <<table, poisoned, host>> /\ touched' = <<>>
      /\ "kill" \in F!Calls
  BY DEF F!kill, F!Quiet
<1>2. HostKept(table, host, live \ {c})
  <2>1. HostKept(table, host, live)
    BY SoundBefore DEF Sound
  <2> QED
    BY <1>1, <2>1 DEF HostKept, Owns
<1>3. Moved
  BY <1>1, KillMoves DEF Moved
<1> QED
  BY <1>1, <1>2, <1>3, SoundBefore, CallStands DEF Sound

LEMMA AccessKept ==
    ASSUME FilesInv, setting' = setting, NEW c \in live, NEW fd \in F!Fds, F!access(c, fd)
    PROVE  FilesInv' /\ Moved
<1>1. /\ UNCHANGED <<table, poisoned, live, host>>
      /\ \/ touched' = <<c, fd, F!Redirect(c, fd)>>
         \/ touched' = <<c, fd, F!Redirect(c, fd) - 1>>
  BY DEF F!access
<1>2. F!MaxHost \in Nat /\ F!MaxHost <= F!MaxFd /\ F!MaxFd \in Nat
      /\ F!Max({F!MaxHost, F!MaxFd}) = F!MaxFd
  BY SoundBefore, SettingFacts DEF FileTypes
<1>3. F!Redirect(c, fd) \in F!Closed .. F!MaxFd
  <2>1. CASE F!Known(c, fd)
    <3>1. table[c][fd].real \in F!HostFds \cup {F!Closed}
      BY <2>1, SoundBefore DEF Sound, IsFdTable, F!Known, EntryType
    <3> QED
      BY <1>2, <2>1, <3>1 DEF F!Redirect, F!HostFds, F!Closed
  <2>2. CASE ~F!Known(c, fd)
    BY <1>2, <2>2 DEF F!Redirect, F!Fds, F!Closed
  <2> QED
    BY <2>1, <2>2
<1> DEFINE n == F!Redirect(c, fd)
<1> HIDE DEF n
<1>4. n \in F!Closed - 1 .. F!MaxFd /\ n - 1 \in F!Closed - 1 .. F!MaxFd
  BY <1>2, <1>3 DEF F!Closed, n
<1>5. touched' = <<c, fd, n>> \/ touched' = <<c, fd, n - 1>>
  BY <1>1 DEF n
<1>6. touched' \in F!Contexts \X F!Fds \X (F!Closed - 1 .. F!Max({F!MaxHost, F!MaxFd}))
  BY <1>2, <1>4, <1>5, SoundBefore
<1>7. FileTypes'
  BY <1>1, <1>6, SameSetting, SoundBefore DEF FileTypes, IsFdTable, IsHost
<1>8. HostKept(table, host, live)'
  <2>1. HostKept(table', host', live')
    BY <1>1, SoundBefore DEF Sound
  <2> QED
    BY <2>1, SameSetting DEF HostKept, Owns, EndsHeld, Held
<1>9. Moved
  BY <1>1, StayMoves DEF Moved
<1> QED
  BY <1>7, <1>8, <1>9 DEF FilesInv

LEMMA ForksKept ==
    ASSUME FilesInv, setting' = setting, NEW c \in live, NEW gone, F!fork(c, gone)
    PROVE  FilesInv' /\ Moved
<1> DEFINE child == F!Max(live \cup {0}) + 1
           kept == DOMAIN table[c] \ gone
           given == F!Given(kept)
           copied == [fd \in kept |-> F!copy_from(c, fd, given[fd])]
           kinds == [h \in F!Range(given) |-> table[c][CHOOSE fd \in kept : given[fd] = h].kind]
<1>1. CASE F!Fails("get_entry")
  BY <1>1, CallFails DEF F!Fails
<1>2. CASE /\ child \in F!Contexts /\ F!HostRoom(F!Cardinality(kept))
           /\ gone \subseteq {fd \in DOMAIN table[c] : table[c][fd].kind = "file"}
           /\ table' = [table EXCEPT ![child] = copied]
           /\ host' = F!Over(host, kinds)
           /\ live' = live \cup {child}
           /\ F!Quiet /\ UNCHANGED poisoned
  <2>1. c \in F!Contexts /\ IsFdTable(table[c]) /\ kept \subseteq DOMAIN table[c]
    BY SoundBefore DEF Sound
  <2>2. IsFiniteSet(kept)
    <3>1. kept \subseteq 0 .. F!MaxFd /\ F!MaxFd \in Nat
      BY <2>1, SoundBefore DEF IsFdTable
    <3>2. IsFiniteSet(0 .. F!MaxFd)
      BY <3>1, FS_Interval
    <3> HIDE DEF kept
    <3> QED
      BY <3>1, <3>2, FS_Subset
  <2>3. /\ given \in [kept -> F!Free]
        /\ \A f, g \in kept : given[f] = given[g] => f = g
    <3> HIDE DEF kept
    <3> QED
      BY <1>2, <2>2, GivenFree, SoundBefore
  <2>4. child \notin live
    <3>1. live \cup {0} \in SUBSET (0 .. F!MaxContexts) /\ F!MaxContexts \in Nat
      BY SoundBefore, SettingFacts DEF FileTypes, F!Contexts
    <3>2. \A x \in live \cup {0} : x <= F!Max(live \cup {0})
      BY <3>1, GreatestOf
    <3>3. F!Max(live \cup {0}) \in live \cup {0}
      BY <3>1, GreatestOf
    <3> DEFINE m == F!Max(live \cup {0})
    <3> HIDE DEF m
    <3>4. m \in Nat /\ \A x \in live : x <= m
      BY <3>1, <3>2, <3>3 DEF m
    <3>5. m + 1 \notin live
      BY <3>4
    <3> QED
      BY <3>5 DEF m
  <2>5. \A fd \in kept : /\ table[c][fd] \in EntryType /\ given[fd] \in F!HostFds
                         /\ given[fd] \notin DOMAIN host
    BY <2>1, <2>3 DEF IsFdTable, F!Free
  <2>6. ASSUME NEW fd \in kept
        PROVE  /\ copied[fd] \in EntryType /\ copied[fd].real = given[fd]
               /\ copied[fd].kind = table[c][fd].kind
    <3> DEFINE x == table[c][fd]
               h == given[fd]
    <3>1. x \in EntryType /\ h \in F!HostFds /\ copied[fd] = F!copy_from(c, fd, h)
      BY <2>5
    <3>2. x.kind \in {"std", "pipe", "file"}
      BY <3>1 DEF EntryType, F!Kinds
    <3> DEFINE y == F!copy_from(c, fd, h)
    <3>3. y = IF x.kind \in {"std", "pipe"} THEN [x EXCEPT !.real = h]
              ELSE F!Entry(h, "file", FALSE)
      BY <3>2 DEF F!copy_from
    <3> HIDE DEF x, h, y, copied
    <3>4. CASE x.kind \in {"std", "pipe"}
      <4>1. y = [x EXCEPT !.real = h]
        BY <3>3, <3>4
      <4>2. y \in EntryType /\ y.real = h /\ y.kind = x.kind
        BY <3>1, <4>1 DEF EntryType
      <4> QED
        BY <3>1, <4>2 DEF x, h, y
    <3>5. CASE x.kind = "file"
      <4>1. y = F!Entry(h, "file", FALSE)
        BY <3>3, <3>5
      <4>2. y \in EntryType /\ y.real = h /\ y.kind = x.kind
        BY <3>1, <3>5, <4>1 DEF EntryType, F!Entry, F!Kinds
      <4> QED
        BY <3>1, <4>2 DEF x, h, y
    <3> QED
      BY <3>2, <3>4, <3>5
  <2>7. /\ DOMAIN kinds = {given[fd] : fd \in kept}
        /\ \A fd \in kept : kinds[given[fd]] = table[c][fd].kind
    <3>1. F!Range(given) = {given[fd] : fd \in kept}
      BY <2>3 DEF F!Range
    <3>2. DOMAIN kinds = {given[fd] : fd \in kept}
      BY <3>1
    <3>3. ASSUME NEW fd \in kept PROVE kinds[given[fd]] = table[c][fd].kind
      <4>1. (CHOOSE f \in kept : given[f] = given[fd]) = fd
        BY <2>3
      <4>2. given[fd] \in F!Range(given)
        BY <3>1
      <4> QED
        BY <4>1, <4>2
    <3> QED
      BY <3>2, <3>3
  <2>8. DOMAIN copied = kept
    OBVIOUS
  <2> HIDE DEF child, given, copied, kinds, kept
  <2>9. /\ DOMAIN host' = DOMAIN host \cup {given[fd] : fd \in DOMAIN copied}
        /\ \A h \in DOMAIN host : host'[h] = host[h]
        /\ \A fd \in DOMAIN copied : host'[given[fd]] = copied[fd].kind
    BY <1>2, <2>5, <2>6, <2>7, <2>8 DEF F!Over
  <2>10. HostKept(table', host', live \cup {child})
    <3>1. HostKept(table, host, live) /\ child \notin live
      BY <2>4, SoundBefore DEF Sound
    <3>2. \A fd \in DOMAIN copied : copied[fd].real = given[fd] /\ given[fd] \notin DOMAIN host
      BY <2>5, <2>6, <2>8
    <3>3. \A f, g \in DOMAIN copied : given[f] = given[g] => f = g
      BY <2>3, <2>8
    <3>4. table'[child] = copied /\ \A d \in live : table'[d] = table[d]
      BY <1>2, <2>4, SoundBefore DEF Sound
    <3>5. /\ \A h \in DOMAIN host : h \in DOMAIN host' /\ host'[h] = host[h]
          /\ \A fd \in DOMAIN copied : given[fd] \in DOMAIN host' /\ host'[given[fd]] = copied[fd].kind
          /\ \A h \in DOMAIN host' : h \in DOMAIN host \/ \E fd \in DOMAIN copied : given[fd] = h
      BY <2>9
    <3> QED
      BY <3>1, <3>2, <3>3, <3>4, <3>5, ContextForked
  <2>11. HostKept(table', host', live')
    BY <1>2, <2>10
  <2>12. IsFdTable(copied)
    BY <2>1, <2>6, <2>8 DEF IsFdTable
  <2>13. table' = [d \in F!Contexts |-> table'[d]] /\ \A d \in F!Contexts : IsFdTable(table'[d])
    BY <1>2, <2>12, SoundBefore DEF Sound
  <2>14. IsHost(host')
    <3>1. IsHost(host)
      BY SoundBefore DEF Sound
    <3>2. \A fd \in kept : given[fd] \in F!HostFds /\ copied[fd].kind \in F!Kinds
      BY <2>5, <2>6 DEF EntryType
    <3> QED
      BY <2>8, <2>9, <3>1, <3>2 DEF IsHost
  <2>15. Moved
    <3>1. table'[child] = copied /\ \A d \in live : d # child /\ table'[d] = table[d]
      BY <1>2, <2>4, SoundBefore DEF Sound
    <3>2. \A fd \in kept : copied[fd].kind # "sim"
      BY <2>6 DEF EntryType, F!Kinds
    <3>3. \A h \in DOMAIN host' : h \in DOMAIN host \/ (host'[h] # "sim" /\ Reached(table', live', h))
      <4> SUFFICES ASSUME NEW h \in DOMAIN host', h \notin DOMAIN host
                   PROVE  host'[h] # "sim" /\ Reached(table', live', h)
        OBVIOUS
      <4>1. PICK fd \in kept : given[fd] = h
        BY <2>8, <2>9
      <4>2. copied[fd].real = h /\ host'[h] = copied[fd].kind
        BY <2>6, <2>8, <2>9, <4>1
      <4> QED
        BY <1>2, <2>8, <3>1, <3>2, <4>2 DEF Reached
    <3>4. \A d \in live' : \A fd \in DOMAIN table'[d] :
            \/ d \in live /\ fd \in DOMAIN table[d] /\ table'[d][fd] = table[d][fd]
            \/ table'[d][fd].real \notin DOMAIN host
      BY <1>2, <2>5, <2>6, <2>8, <3>1
    <3>5. Extends(table, host, live, table', host', live')
      BY <1>2, <2>9, <3>1, <3>3, <3>4 DEF Extends
    <3> QED
      BY <3>5, ExtendsMoves DEF Moved
  <2> QED
    BY <1>2, <2>11, <2>13, <2>14, <2>15, SoundBefore, CallStands DEF F!Quiet
<1> QED
  BY <1>1, <1>2, Zenon DEF F!fork

LEMMA InitFiles == F!Init => FilesInv
<1> SUFFICES ASSUME F!Init PROVE FilesInv
  OBVIOUS
<1>1. setting \in Settings
  BY DEF F!Init
<1>2. /\ F!MaxContexts \in Nat \ {0} /\ F!MaxHost \in Nat /\ F!MaxFd \in Nat
      /\ 3 <= F!MaxHost /\ F!MaxHost <= F!MaxFd
  BY <1>1, SettingFacts
<1>3. /\ table = [c \in F!Contexts |-> IF c \in F!Programs THEN F!FirstTable ELSE <<>>]
      /\ poisoned = {} /\ live = F!Programs /\ touched = <<>>
      /\ DOMAIN host = (IF F!Redirected THEN 0 .. 3 ELSE 0 .. 2)
      /\ \A h \in DOMAIN host : host[h] = "sim"
  BY DEF F!Init
<1>4. F!Programs \subseteq F!Contexts
  BY <1>2 DEF F!Programs, F!Contexts
<1>5. /\ DOMAIN F!FirstTable = 0 .. 2
      /\ \A fd \in 0 .. 2 : F!FirstTable[fd] = IF fd = 1 /\ F!Redirected THEN F!Entry(3, "file", FALSE)
                                               ELSE F!Entry(fd, "std", FALSE)
  BY DEF F!FirstTable
<1>6. IsFdTable(F!FirstTable)
  <2>1. 0 .. 3 \subseteq F!HostFds /\ 0 .. 2 \subseteq F!Fds
    BY <1>2 DEF F!HostFds, F!Fds
  <2>2. \A fd \in 0 .. 2 : F!FirstTable[fd] \in EntryType
    <3> SUFFICES ASSUME NEW fd \in 0 .. 2 PROVE F!FirstTable[fd] \in EntryType
      OBVIOUS
    <3>1. F!Entry(3, "file", FALSE) \in EntryType /\ F!Entry(fd, "std", FALSE) \in EntryType
      <4>1. 3 \in F!HostFds /\ fd \in F!HostFds
        BY <2>1
      <4> QED
        BY <4>1 DEF EntryType, F!Entry, F!Kinds
    <3>2. F!FirstTable[fd] = F!Entry(3, "file", FALSE) \/ F!FirstTable[fd] = F!Entry(fd, "std", FALSE)
      BY <1>5
    <3> QED
      BY <3>1, <3>2
  <2> QED
    BY <1>5, <2>1, <2>2 DEF IsFdTable
<1>7. IsFdTable(<<>>)
  BY DEF IsFdTable
<1>8. IsHost(host)
  <2>1. 0 .. 3 \subseteq F!HostFds /\ 0 .. 2 \subseteq F!HostFds
    BY <1>2 DEF F!HostFds
  <2> QED
    BY <1>3, <2>1 DEF IsHost
<1>9. FileTypes
  BY <1>1, <1>3, <1>4, <1>6, <1>7, <1>8 DEF FileTypes
<1>10. HostKept(table, host, live)
  <2> SUFFICES ASSUME Tame PROVE Owns(table, host, live) /\ EndsHeld(table, host, live)
    BY DEF HostKept
  <2>1. /\ DOMAIN host = 0 .. 2 /\ \A h \in 0 .. 2 : host[h] = "sim"
        /\ \A fd \in 0 .. 2 : F!FirstTable[fd] = F!Entry(fd, "std", FALSE)
    BY <1>3, <1>5 DEF Tame
  <2>2. \A c \in live : table[c] = F!FirstTable
    BY <1>3, <1>4
  <2>3. ASSUME NEW c \in live, NEW fd \in DOMAIN table[c]
        PROVE  table[c][fd].real \in 0 .. 2 /\ Held(table[c][fd], host)
    <3>1. fd \in 0 .. 2 /\ table[c][fd] = F!Entry(fd, "std", FALSE)
      BY <1>5, <2>1, <2>2
    <3> QED
      BY <2>1, <3>1 DEF Held, F!Entry
  <2>4. Owns(table, host, live)
    BY <2>1, <2>3 DEF Owns
  <2>5. EndsHeld(table, host, live)
    BY <2>1 DEF EndsHeld
  <2> QED
    BY <2>4, <2>5
<1> QED
  BY <1>9, <1>10 DEF FilesInv

LEMMA FilesNext ==
    ASSUME FilesInv, F!Next
    PROVE  FilesInv' /\ Moved
<1>1. setting' = setting
  BY DEF F!Next
<1>2. PICK c \in live :
       \/ F!open(c) \/ F!pipe(c) \/ F!handle_cloexec(c) \/ F!exit(c) \/ F!kill(c)
       \/ \E gone \in SUBSET DOMAIN table[c] : F!fork(c, gone)
       \/ \E fd \in F!Fds : \/ F!close(c, fd) \/ F!duper(c, fd) \/ F!setfd_cloexec(c, fd)
                            \/ F!access(c, fd)
                            \/ \E new \in F!Dup2Fds : F!dup2(c, fd, new)
  BY DEF F!Next
<1>3. CASE F!open(c) \/ F!pipe(c) \/ F!handle_cloexec(c) \/ F!exit(c) \/ F!kill(c)
  BY <1>1, <1>3, OpenKept, PipeKept, ExecKept, ExitKept, KillKept
<1>4. CASE \E gone \in SUBSET DOMAIN table[c] : F!fork(c, gone)
  BY <1>1, <1>4, ForksKept
<1>5. ASSUME NEW fd \in F!Fds,
             \/ F!close(c, fd) \/ F!duper(c, fd) \/ F!setfd_cloexec(c, fd) \/ F!access(c, fd)
             \/ \E new \in F!Dup2Fds : F!dup2(c, fd, new)
      PROVE  FilesInv' /\ Moved
  BY <1>1, <1>5, CloseKept, DupKept, SetfdKept, AccessKept, Dup2Kept
<1> QED
  BY <1>2, <1>3, <1>4, <1>5

LEMMA Pair ==
    ASSUME NEW A, NEW B, NEW e \in A \X B
    PROVE  e[1] \in A /\ e[2] \in B /\ e = <<e[1], e[2]>>
OBVIOUS

LEMMA FilesSame ==
    ASSUME FilesInv, UNCHANGED files
    PROVE  FilesInv'
<1>1. /\ setting' = setting /\ table' = table /\ poisoned' = poisoned /\ live' = live
      /\ host' = host /\ touched' = touched
  BY DEF files
<1>2. FileTypes'
  BY <1>1, SameSetting DEF FilesInv, FileTypes, IsFdTable, IsHost
<1>3. HostKept(table', host', live')
  BY <1>1 DEF FilesInv
<1>4. HostKept(table, host, live)'
  BY <1>1, <1>3, SameSetting, ZenonT(30) DEF HostKept, Owns, EndsHeld, Held
<1> QED
  BY <1>2, <1>4 DEF FilesInv

(* The invariant of the descriptors: every entry of a running program      *)
(* leads to an open descriptor of the host of its own, or to the standard  *)
(* io that the simulator opened, which none of them closes.                *)
THEOREM FilesInvariant == Spec => []FilesInv
<1>1. Init => FilesInv
  BY InitFiles DEF Init
<1>2. FilesInv /\ [ProcessesStep \/ FilesStep]_vars => FilesInv'
  <2> SUFFICES ASSUME FilesInv, [ProcessesStep \/ FilesStep]_vars
               PROVE  FilesInv'
    OBVIOUS
  <2>1. CASE FilesStep
    BY <2>1, FilesNext DEF FilesStep
  <2>2. CASE ProcessesStep \/ UNCHANGED vars
    <3>1. UNCHANGED files
      BY <2>2 DEF ProcessesStep, vars
    <3> QED
      BY <3>1, FilesSame
  <2> QED
    BY <2>1, <2>2
<1> QED
  BY <1>1, <1>2, PTL DEF Spec

(* Where the host has descriptors, no output is redirected and programs do *)
(* not mark 0 to 2, the entries of programs lead to descriptors of their   *)
(* own, and the end of a pipe is open on the host exactly while a program  *)
(* has it, however descriptors are closed, duplicated, copied by fork and  *)
(* reused (file_table_t).  Limits is the setting in which that is not so.  *)
THEOREM FilesCorrect ==
    ASSUME \A s \in Settings : s # Limits =>
             ~s.HostFull /\ ~s.Redirected /\ "mark 0-2" \notin s.Calls
    PROVE  Spec => []HostFiles
<1>1. FilesInv => HostFiles
  <2> SUFFICES ASSUME FilesInv PROVE HostFiles
    OBVIOUS
  <2>1. setting \in Settings /\ HostKept(table, host, live) /\ live \subseteq F!Contexts
    BY DEF FilesInv, FileTypes
  <2>2. \A c \in live : DOMAIN table[c] \subseteq F!Fds
    BY DEF FilesInv, FileTypes, IsFdTable
  <2>3. ASSUME NEW e \in F!Entries
        PROVE  /\ e[1] \in live /\ e[2] \in DOMAIN table[e[1]] /\ e = <<e[1], e[2]>>
               /\ F!RealOf(e) = table[e[1]][e[2]].real
    <3>1. e \in live \X F!Fds /\ F!Known(e[1], e[2])
      BY DEF F!Entries
    <3>2. e[1] \in live /\ e = <<e[1], e[2]>>
      BY <3>1, Pair
    <3> QED
      BY <3>1, <3>2 DEF F!Known, F!RealOf
  <2>4. ASSUME NEW c \in live, NEW fd \in DOMAIN table[c]
        PROVE  /\ <<c, fd>> \in F!Entries /\ F!RealOf(<<c, fd>>) = table[c][fd].real
               /\ table[<<c, fd>>[1]][<<c, fd>>[2]] = table[c][fd]
    BY <2>2 DEF F!Entries, F!Known, F!RealOf
  <2>5. ASSUME Tame PROVE F!OwnHostFiles
    <3>1. Owns(table, host, live)
      BY <2>1, <2>5 DEF HostKept
    <3>2. ASSUME NEW e \in F!Entries
          PROVE  /\ F!RealOf(e) \in DOMAIN host
                 /\ F!RealOf(e) \in 0 .. 2 => host[F!RealOf(e)] = "sim"
      <4>1. Held(table[e[1]][e[2]], host)
        BY <2>3, <3>1 DEF Owns
      <4> QED
        BY <2>3, <4>1 DEF Held
    <3>3. ASSUME NEW e \in F!Entries, NEW f \in F!Entries, F!RealOf(e) = F!RealOf(f),
                 F!RealOf(e) \notin 0 .. 2
          PROVE  e = f
      <4>1. e[1] = f[1] /\ e[2] = f[2]
        <5>1. /\ e[1] \in live /\ f[1] \in live
              /\ e[2] \in DOMAIN table[e[1]] /\ f[2] \in DOMAIN table[f[1]]
              /\ table[e[1]][e[2]].real = table[f[1]][f[2]].real
              /\ table[e[1]][e[2]].real \notin 0 .. 2
          BY <2>3, <3>3
        <5> QED
          BY <3>1, <5>1 DEF Owns
      <4>2. e = <<e[1], e[2]>> /\ f = <<f[1], f[2]>>
        BY <2>3
      <4> QED
        BY <4>1, <4>2
    <3> QED
      BY <3>2, <3>3 DEF F!OwnHostFiles
  <2>6. ASSUME Tame, "kill" \notin F!Calls PROVE F!PipeEnds
    <3>1. Owns(table, host, live) /\ EndsHeld(table, host, live)
      BY <2>1, <2>6 DEF HostKept
    <3>2. ASSUME NEW h \in DOMAIN host, host[h] = "pipe"
          PROVE  \E e \in F!Entries : table[e[1]][e[2]].kind = "pipe" /\ F!RealOf(e) = h
      <4>1. PICK c \in live : \E fd \in DOMAIN table[c] : table[c][fd].real = h
        BY <3>1, <3>2 DEF EndsHeld
      <4>2. PICK fd \in DOMAIN table[c] : table[c][fd].real = h
        BY <4>1
      <4>3. Held(table[c][fd], host)
        BY <3>1 DEF Owns
      <4>4. table[c][fd].kind = "pipe"
        BY <3>2, <4>2, <4>3 DEF Held
      <4> QED
        BY <2>4, <4>2, <4>4
    <3>3. ASSUME NEW e \in F!Entries, table[e[1]][e[2]].kind = "pipe"
          PROVE  F!RealOf(e) \in DOMAIN host /\ host[F!RealOf(e)] = "pipe"
      <4>1. Held(table[e[1]][e[2]], host)
        BY <2>3, <3>1 DEF Owns
      <4> QED
        BY <2>3, <3>3, <4>1 DEF Held
    <3> QED
      BY <3>2, <3>3 DEF F!PipeEnds
  <2>7. setting # Limits => Tame
    BY <2>1 DEF Tame, F!HostFull, F!Redirected, F!Calls
  <2>8. setting \in {Forking, OneTable} => Tame /\ "kill" \notin F!Calls
    <3>1. Forking.HostFull = FALSE /\ Forking.Redirected = FALSE
          /\ "mark 0-2" \notin Forking.Calls /\ "kill" \notin Forking.Calls
      BY DEF Forking, Setting
    <3>2. OneTable.HostFull = FALSE /\ OneTable.Redirected = FALSE
          /\ "mark 0-2" \notin OneTable.Calls /\ "kill" \notin OneTable.Calls
      BY DEF OneTable, Setting
    <3> QED
      BY <3>1, <3>2 DEF Tame, F!HostFull, F!Redirected, F!Calls
  <2> QED
    BY <2>5, <2>6, <2>7, <2>8 DEF HostFiles
<1> QED
  BY <1>1, FilesInvariant, PTL

LEMMA InitApart == F!Init => Apart(table, host, live)
<1> SUFFICES ASSUME F!Init, NEW c \in live, NEW fd \in DOMAIN table[c]
             PROVE  table[c][fd].kind # "pipe"
  BY DEF Apart
<1>1. /\ table = [d \in F!Contexts |-> IF d \in F!Programs THEN F!FirstTable ELSE <<>>]
      /\ live = F!Programs /\ setting \in Settings
  BY DEF F!Init
<1>2. F!Programs \subseteq F!Contexts
  BY <1>1, SettingFacts DEF F!Programs, F!Contexts
<1>3. table[c] = F!FirstTable
  BY <1>1, <1>2
<1>4. /\ DOMAIN F!FirstTable = 0 .. 2
      /\ \A g \in 0 .. 2 : F!FirstTable[g] = IF g = 1 /\ F!Redirected THEN F!Entry(3, "file", FALSE)
                                             ELSE F!Entry(g, "std", FALSE)
  BY DEF F!FirstTable
<1> QED
  BY <1>3, <1>4 DEF F!Entry

(* What a step does to the descriptors of the host, in the words of        *)
(* FileTable.                                                              *)
LEMMA OrphansKept ==
    ASSUME FilesInv, FilesInv', Moved, NEW h \in F!Orphans' \ F!Orphans
    PROVE  \/ \E c \in live : h \in F!Forgotten(c)
           \/ live' # live /\ (host' = host \/ h \in 0 .. 2)
<1>1. /\ OpensReached(host, table', host', live')
      /\ LeavesForgotten(table, host, live, table', host', live')
  BY DEF Moved, Moves
<1>2. /\ h \in DOMAIN host' /\ host'[h] # "sim"
      /\ \A e \in F!Entries' : F!RealOf(e)' # h
  BY DEF F!Orphans
<1>3. ~Reached(table', live', h)
  <2> SUFFICES ASSUME NEW c \in live', NEW fd \in DOMAIN table'[c], table'[c][fd].real = h
               PROVE  FALSE
    BY DEF Reached
  <2>1. fd \in F!Fds'
    BY DEF FilesInv, FileTypes, IsFdTable
  <2>2. <<c, fd>> \in F!Entries'
    BY <2>1 DEF F!Entries, F!Known
  <2>3. F!RealOf(<<c, fd>>)' = h
    BY DEF F!RealOf
  <2> QED
    BY <1>2, <2>2, <2>3
<1>4. h \in DOMAIN host /\ host'[h] = host[h]
  BY <1>1, <1>2, <1>3 DEF OpensReached
<1>5. PICK e \in F!Entries : F!RealOf(e) = h
  BY <1>2, <1>4 DEF F!Orphans
<1>6. e[1] \in live /\ F!Known(e[1], e[2])
  <2>1. e \in live \X F!Fds /\ F!Known(e[1], e[2])
    BY DEF F!Entries
  <2> QED
    BY <2>1, Pair
<1>7. PICK c \in live : c = e[1]
  BY <1>6
<1>a. PICK fd \in DOMAIN table[c] : fd = e[2] /\ table[c][fd].real = h
  BY <1>5, <1>6, <1>7 DEF F!RealOf, F!Known
<1>8. CASE ~F!ClosesOnHost(table[c][fd]) /\ (fd \notin DOMAIN table'[c] \/ table'[c][fd] # table[c][fd])
  <2>1. F!With(table'[c], fd, table[c][fd]) # table'[c]
    <3>1. /\ DOMAIN F!With(table'[c], fd, table[c][fd]) = DOMAIN table'[c] \cup {fd}
          /\ F!With(table'[c], fd, table[c][fd])[fd] = table[c][fd]
      BY DEF F!With, F!Over, F!One
    <3> QED
      BY <1>8, <3>1
  <2>2. h \in F!Forgotten(c)
    BY <1>7, <1>a, <1>8, <2>1 DEF F!Forgotten
  <2> QED
    BY <2>2
<1>9. CASE live' # live /\ (host' = host \/ h \in 0 .. 2)
  BY <1>9
<1> QED
  BY <1>1, <1>2, <1>3, <1>7, <1>a, <1>8, <1>9 DEF LeavesForgotten

LEMMA SimulatorsKept ==
    ASSUME FilesInv, Apart(table, host, live), Moved,
           NEW h \in DOMAIN host \ DOMAIN host', host[h] = "sim"
    PROVE  \/ \E e \in F!Entries : F!RealOf(e) = h /\ table[e[1]][e[2]].cloexec
           \/ h > 2 /\ live' # live
<1>1. CASE \E c \in live : \E fd \in DOMAIN table[c] :
              table[c][fd].real = h /\ F!ClosesOnHost(table[c][fd])
  <2>1. PICK c \in live : \E fd \in DOMAIN table[c] :
              table[c][fd].real = h /\ F!ClosesOnHost(table[c][fd])
    BY <1>1
  <2>2. PICK fd \in DOMAIN table[c] : table[c][fd].real = h /\ F!ClosesOnHost(table[c][fd])
    BY <2>1
  <2>3. table[c][fd].kind # "pipe"
    BY <2>2 DEF Apart
  <2>4. table[c][fd].cloexec
    BY <2>2, <2>3 DEF F!ClosesOnHost
  <2>5. fd \in F!Fds
    BY SoundBefore DEF Sound, IsFdTable
  <2>6. <<c, fd>> \in F!Entries /\ F!RealOf(<<c, fd>>) = h
    BY <2>2, <2>5 DEF F!Entries, F!Known, F!RealOf
  <2> QED
    BY <2>4, <2>6
<1>2. CASE h \notin 0 .. 2 /\ live' # live
  <2>1. h \in Nat
    BY SoundBefore DEF Sound, IsHost, F!HostFds
  <2> QED
    BY <1>2, <2>1
<1> QED
  BY <1>1, <1>2 DEF Moved, Moves, ClosesOwn

LEMMA Closing == Spec => [](FilesInv /\ Apart(table, host, live))
<1>1. Init => FilesInv /\ Apart(table, host, live)
  BY InitFiles, InitApart DEF Init
<1>2. FilesInv /\ Apart(table, host, live) /\ [ProcessesStep \/ FilesStep]_vars
        => FilesInv' /\ Apart(table, host, live)'
  <2> SUFFICES ASSUME FilesInv, Apart(table, host, live), [ProcessesStep \/ FilesStep]_vars
               PROVE  FilesInv' /\ Apart(table, host, live)'
    OBVIOUS
  <2>1. CASE FilesStep
    <3>1. FilesInv' /\ Moved
      BY <2>1, FilesNext DEF FilesStep
    <3>2. Apart(table', host', live')
      BY <3>1, MovesApart DEF Moved
    <3> QED
      BY <3>1, <3>2 DEF Apart
  <2>2. CASE ProcessesStep \/ UNCHANGED vars
    <3>1. UNCHANGED files
      BY <2>2 DEF ProcessesStep, vars
    <3> QED
      BY <3>1, FilesSame DEF Apart, files
  <2> QED
    BY <2>1, <2>2
<1> QED
  BY <1>1, <1>2, PTL DEF Spec

(* In every setting, also where the host runs out of descriptors: one that *)
(* is left open and out of reach was forgotten by a close, is left by a    *)
(* kill, or was a reused 0 to 2 at an exit; and what the simulator opened  *)
(* is closed only for a program that has marked it or has it under another *)
(* number (closer, closeall, handle_cloexec).                              *)
THEOREM ClosingCorrect == Spec => HostClosing
<1> DEFINE Orphaned == \A h \in F!Orphans' \ F!Orphans :
                          \/ \E c \in live : h \in F!Forgotten(c)
                          \/ live' # live /\ (host' = host \/ h \in 0 .. 2)
           Simulators == \A h \in DOMAIN host \ DOMAIN host' : host[h] = "sim" =>
                          \/ \E e \in F!Entries : F!RealOf(e) = h /\ table[e[1]][e[2]].cloexec
                          \/ h > 2 /\ live' # live
<1>1. FilesInv /\ Apart(table, host, live) /\ FilesInv' /\ [ProcessesStep \/ FilesStep]_vars
        => [Orphaned]_F!vars /\ [Simulators]_F!vars
  <2> SUFFICES ASSUME FilesInv, Apart(table, host, live), FilesInv',
                      [ProcessesStep \/ FilesStep]_vars
               PROVE  [Orphaned]_F!vars /\ [Simulators]_F!vars
    OBVIOUS
  <2>1. CASE FilesStep
    <3>1. Moved
      BY <2>1, FilesNext DEF FilesStep
    <3>2. Orphaned
      BY <3>1, OrphansKept
    <3>3. Simulators
      BY <3>1, SimulatorsKept
    <3> QED
      BY <3>2, <3>3
  <2>2. CASE ProcessesStep \/ UNCHANGED vars
    BY <2>2 DEF ProcessesStep, vars, files, F!vars
  <2> QED
    BY <2>1, <2>2
<1>2. [](FilesInv /\ Apart(table, host, live)) /\ [][ProcessesStep \/ FilesStep]_vars
        => [][Orphaned]_F!vars /\ [][Simulators]_F!vars
  BY <1>1, PTL
<1> QED
  BY <1>2, Closing, PTL DEF Spec, HostClosing, F!OrphanedOnlyByClose, F!SimulatorsOwn

(* What processes, contexts, cores and descriptors can hold: pids, cores   *)
(* and places in range, tables of descriptors the host has.                *)
THEOREM TypesCorrect == Spec => []TypeOK
<1>1. ProcInv /\ FilesInv => TypeOK
  <2> SUFFICES ASSUME ProcInv, FilesInv
               PROVE  TypeOK
    OBVIOUS
  <2>1. CtxTypes /\ CoreTypes /\ Placed /\ LoopTypes
    BY DEF ProcInv, CallInv
  <2>2. P!TypeOK
    <3>1. /\ contexts \in Seq(CtxType)
          /\ plist \in Seq([alive : BOOLEAN, parent : 0 .. P!MaxPids, children : Seq(Nat)])
      BY <2>1 DEF CtxTypes
    <3>2. \A k \in P!CoreSet : /\ context_ids[k] \in Seq(P!Ids)
                               /\ Len(context_ids[k]) <= P!MaxContexts
                               /\ DOMAIN pred[k] = P!Places /\ DOMAIN pred_list[k] = P!Places
      BY <2>1 DEF CoreTypes, Placed, Seated
    <3>3. P!ToSet(left) \subseteq P!Ids
      BY <2>1 DEF LoopTypes, P!ToSet
    <3> QED
      BY <3>1, <3>2, <3>3 DEF P!TypeOK, CtxType
  <2>3. F!TypeOK
    BY DEF FilesInv, FileTypes, IsFdTable, IsHost, EntryType, F!TypeOK
  <2> QED
    BY <2>2, <2>3 DEF TypeOK
<1> QED
  BY <1>1, ProcessInvariant, FilesInvariant, PTL
=============================================================================
