--------------------------- MODULE RegRenameProofs ---------------------------
(***************************************************************************)
(* Invariants of RegRename for every number of registers, contexts and     *)
(* reorder buffer entries, and every set of instructions: type correctness *)
(* and, before it, what appending, squashing, updating and removing        *)
(* entries does to the committed bank and to the undo chain of one reorder *)
(* buffer; then that no register has two owners (SingleOwner), that the    *)
(* assertions of commit hold (CommitSafe), and that the register map of a  *)
(* program changes only when one of its own instructions commits           *)
(* (CommittedState); last, program order, the wrong path, and that no      *)
(* register is lost while programs run.                                    *)
(*                                                                         *)
(* Owners, assertions, the register map and the number of registers are    *)
(* for programs that write only integer and floating point registers: the  *)
(* rename table has no architectural register behind DFPCR, so the first   *)
(* write of DFPCR breaks all of them.                                      *)
(***************************************************************************)
EXTENDS RegRename, FiniteSetTheorems, WellFoundedInduction, TLAPS

-----------------------------------------------------------------------------
(* Reorder buffers *)

(* A nonempty set of naturals has a least element. *)
LEMMA LeastNat ==
    ASSUME NEW T \in SUBSET Nat, T # {}
    PROVE  \E x \in T : \A y \in T : x <= y
<1>1. IsWellFoundedOn(OpToRel(<, Nat), Nat)
  BY NatLessThanWellFounded
<1>2. \E x \in T : \A y \in T : ~(<<y, x>> \in OpToRel(<, Nat))
  BY <1>1, WFMin
<1>3. PICK x \in T : \A y \in T : ~(<<y, x>> \in OpToRel(<, Nat))
  BY <1>2
<1>4. ASSUME NEW y \in T PROVE x <= y
  <2>1. ~(y < x)
    BY <1>3 DEF OpToRel
  <2> QED
    BY <2>1
<1> QED
  BY <1>4

LEMMA OldestIsLeast ==
    ASSUME NEW T \in SUBSET Nat, T # {}
    PROVE  Oldest(T) \in T /\ \A j \in T : Oldest(T) <= j
BY LeastNat DEF Oldest

LEMMA OldestUnique ==
    ASSUME NEW T \in SUBSET Nat, NEW i \in T, \A j \in T : i <= j
    PROVE  Oldest(T) = i
<1>1. Oldest(T) \in T /\ \A j \in T : Oldest(T) <= j
  BY OldestIsLeast
<1>2. Oldest(T) <= i /\ i <= Oldest(T)
  BY <1>1
<1>3. Oldest(T) \in Nat /\ i \in Nat
  BY <1>1
<1> QED
  BY <1>2, <1>3

(* A free register is found whenever there is one. *)
LEMMA FreeFound ==
    ASSUME NEW t, FreeRegs(t) # {}, RFSize \in Nat
    PROVE  find_free_physreg(t) \in PhysRegs /\ reg_file[<<t, find_free_physreg(t)>>] = "FREE"
<1>1. FreeRegs(t) \in SUBSET Nat
  BY DEF FreeRegs, PhysRegs
<1>2. \E r \in FreeRegs(t) : \A q \in FreeRegs(t) : r <= q
  BY <1>1, LeastNat
<1>3. find_free_physreg(t) \in FreeRegs(t)
  BY <1>2 DEF find_free_physreg
<1> QED
  BY <1>3 DEF FreeRegs

-----------------------------------------------------------------------------
(* The committed bank *)

LEMMA WritersNat ==
    ASSUME NEW rob \in Seq(Entries), NEW a
    PROVE  Writers(rob, a) \in SUBSET Nat /\ Writers(rob, a) \subseteq 1 .. Len(rob)
BY DEF Writers

(* An entry that is the oldest writer of a register determines its         *)
(* committed mapping.                                                      *)
LEMMA BankOfOldest ==
    ASSUME NEW rob \in Seq(Entries), NEW table, NEW a \in Mapped,
           NEW i \in Writers(rob, a), \A j \in Writers(rob, a) : i <= j
    PROVE  CommittedBank(rob, table)[a] = rob[i].old_physreg
<1>1. Oldest(Writers(rob, a)) = i
  BY WritersNat, OldestUnique
<1> QED
  BY <1>1 DEF CommittedBank, CommittedReg

LEMMA BankOfNone ==
    ASSUME NEW rob, NEW table, NEW a \in Mapped, Writers(rob, a) = {}
    PROVE  CommittedBank(rob, table)[a] = table[a]
BY DEF CommittedBank, CommittedReg

LEMMA OldestWriter ==
    ASSUME NEW rob \in Seq(Entries), NEW a, Writers(rob, a) # {}
    PROVE  \E i \in Writers(rob, a) : \A j \in Writers(rob, a) : i <= j
BY WritersNat, LeastNat

LEMMA BankType ==
    ASSUME NEW rob \in Seq(Entries), NEW table \in [ArchRegs -> PhysRegs],
           NArch \in Nat
    PROVE  CommittedBank(rob, table) \in Banks
<1> SUFFICES ASSUME NEW a \in Mapped
             PROVE  CommittedBank(rob, table)[a] \in PhysRegs
  BY DEF CommittedBank, CommittedReg, Banks
<1>1. a \in ArchRegs
  BY DEF Mapped, ArchRegs, DFPCR
<1>2. CASE Writers(rob, a) = {}
  BY <1>1, <1>2, BankOfNone
<1>3. CASE Writers(rob, a) # {}
  <2>1. PICK i \in Writers(rob, a) : \A j \in Writers(rob, a) : i <= j
    BY <1>3, OldestWriter
  <2>2. CommittedBank(rob, table)[a] = rob[i].old_physreg
    BY <2>1, BankOfOldest
  <2>3. rob[i] \in Entries /\ rob[i].physreg # NoReg
    BY DEF Writers
  <2>4. rob[i].old_physreg \in PhysRegs
    BY <2>3 DEF Entries
  <2> QED
    BY <2>2, <2>4
<1> QED
  BY <1>2, <1>3

-----------------------------------------------------------------------------
(* Appending an entry: the new instruction leaves the committed bank as it *)
(* is, and extends the chain.                                              *)

LEMMA AppendFacts ==
    ASSUME NEW rob \in Seq(Entries), NEW e \in Entries
    PROVE  /\ Append(rob, e) \in Seq(Entries)
           /\ Len(rob) \in Nat /\ Len(Append(rob, e)) = Len(rob) + 1
           /\ DOMAIN rob = 1 .. Len(rob)
           /\ DOMAIN Append(rob, e) = 1 .. Len(rob) + 1
           /\ \A i \in 1 .. Len(rob) : Append(rob, e)[i] = rob[i]
           /\ Append(rob, e)[Len(rob) + 1] = e
OBVIOUS

LEMMA WritersAppend ==
    ASSUME NEW rob \in Seq(Entries), NEW e \in Entries, NEW a
    PROVE  Writers(Append(rob, e), a) =
               Writers(rob, a) \cup
               IF e.physreg # NoReg /\ e.inst.out = a THEN {Len(rob) + 1} ELSE {}
<1> DEFINE rob2 == Append(rob, e)
<1>1. /\ Len(rob) \in Nat
      /\ DOMAIN rob = 1 .. Len(rob)
      /\ DOMAIN rob2 = 1 .. Len(rob) + 1
      /\ \A i \in 1 .. Len(rob) : rob2[i] = rob[i]
      /\ rob2[Len(rob) + 1] = e
  BY AppendFacts
<1>2. DOMAIN rob2 = DOMAIN rob \cup {Len(rob) + 1} /\ Len(rob) + 1 \notin DOMAIN rob
  BY <1>1
<1> HIDE DEF rob2
<1>3. Writers(rob2, a) = {i \in DOMAIN rob2 : rob2[i].physreg # NoReg /\ rob2[i].inst.out = a}
  BY DEF Writers
<1>4. Writers(rob, a) = {i \in DOMAIN rob : rob[i].physreg # NoReg /\ rob[i].inst.out = a}
  BY DEF Writers
<1>5. Writers(rob2, a) =
        Writers(rob, a) \cup
        IF e.physreg # NoReg /\ e.inst.out = a THEN {Len(rob) + 1} ELSE {}
  BY <1>1, <1>2, <1>3, <1>4
<1> QED
  BY <1>5 DEF rob2

LEMMA WritersAppendOther ==
    ASSUME NEW rob \in Seq(Entries), NEW e \in Entries, NEW a,
           ~(e.physreg # NoReg /\ e.inst.out = a)
    PROVE  Writers(Append(rob, e), a) = Writers(rob, a)
<1>1. Writers(Append(rob, e), a) =
        Writers(rob, a) \cup
        IF e.physreg # NoReg /\ e.inst.out = a THEN {Len(rob) + 1} ELSE {}
  BY WritersAppend
<1>2. (IF e.physreg # NoReg /\ e.inst.out = a THEN {Len(rob) + 1} ELSE {}) = {}
  OBVIOUS
<1> QED
  BY <1>1, <1>2

LEMMA BankAppend ==
    ASSUME NEW rob \in Seq(Entries), NEW e \in Entries,
           NEW table, NEW table2,
           e.physreg # NoReg => e.old_physreg = table[e.inst.out],
           \A a \in Mapped : e.physreg = NoReg \/ a # e.inst.out => table2[a] = table[a]
    PROVE  CommittedBank(Append(rob, e), table2) = CommittedBank(rob, table)
<1> DEFINE rob2 == Append(rob, e)
<1> SUFFICES ASSUME NEW a \in Mapped
             PROVE  CommittedBank(rob2, table2)[a] = CommittedBank(rob, table)[a]
  BY DEF CommittedBank, CommittedReg
<1>1. /\ rob2 \in Seq(Entries) /\ Len(rob) \in Nat
      /\ \A i \in 1 .. Len(rob) : rob2[i] = rob[i]
      /\ rob2[Len(rob) + 1] = e
  BY AppendFacts
<1>2. Writers(rob, a) \subseteq 1 .. Len(rob)
  BY WritersNat
<1>3. CASE e.physreg # NoReg /\ e.inst.out = a
  <2>1. Writers(rob2, a) = Writers(rob, a) \cup {Len(rob) + 1}
    BY <1>3, WritersAppend
  <2>2. CASE Writers(rob, a) = {}
    <3>1. CommittedBank(rob2, table2)[a] = rob2[Len(rob) + 1].old_physreg
      <4>1. Writers(rob2, a) = {Len(rob) + 1}
        BY <2>1, <2>2
      <4>2. Len(rob) + 1 \in Writers(rob2, a) /\ \A j \in Writers(rob2, a) : Len(rob) + 1 <= j
        BY <4>1, <1>1
      <4> HIDE DEF rob2
      <4> QED
        BY <1>1, <4>2, BankOfOldest
    <3> QED
      BY <1>1, <1>3, <2>2, <3>1, BankOfNone
  <2>3. CASE Writers(rob, a) # {}
    <3>1. PICK i \in Writers(rob, a) : \A j \in Writers(rob, a) : i <= j
      BY <2>3, OldestWriter
    <3>2. i \in Writers(rob2, a) /\ \A j \in Writers(rob2, a) : i <= j
      BY <1>1, <1>2, <2>1, <3>1
    <3>3. CommittedBank(rob, table)[a] = rob[i].old_physreg
      BY <3>1, BankOfOldest
    <3> HIDE DEF rob2
    <3>4. CommittedBank(rob2, table2)[a] = rob2[i].old_physreg
      BY <1>1, <3>2, BankOfOldest
    <3> QED
      BY <1>1, <1>2, <3>3, <3>4
  <2> QED
    BY <2>2, <2>3
<1>4. CASE ~(e.physreg # NoReg /\ e.inst.out = a)
  <2>1. Writers(rob2, a) = Writers(rob, a)
    BY <1>4, WritersAppendOther
  <2>2. CASE Writers(rob, a) = {}
    BY <1>4, <2>1, <2>2, BankOfNone
  <2>3. CASE Writers(rob, a) # {}
    <3>1. PICK i \in Writers(rob, a) : \A j \in Writers(rob, a) : i <= j
      BY <2>3, OldestWriter
    <3>2. CommittedBank(rob, table)[a] = rob[i].old_physreg
      BY <3>1, BankOfOldest
    <3> HIDE DEF rob2
    <3>3. CommittedBank(rob2, table2)[a] = rob2[i].old_physreg
      BY <1>1, <2>1, <3>1, BankOfOldest
    <3> QED
      BY <1>1, <1>2, <3>2, <3>3
  <2> QED
    BY <2>2, <2>3
<1> QED
  BY <1>3, <1>4

LEMMA ChainAppend ==
    ASSUME NEW rob \in Seq(Entries), NEW e \in Entries,
           NEW table, NEW table2,
           UndoChain(rob, table),
           e.physreg # NoReg => /\ e.old_physreg = table[e.inst.out]
                                /\ table2[e.inst.out] = e.physreg,
           \A a \in ArchRegs : e.physreg = NoReg \/ a # e.inst.out => table2[a] = table[a]
    PROVE  UndoChain(Append(rob, e), table2)
<1> DEFINE rob2 == Append(rob, e)
           n == Len(rob) + 1
<1>1. /\ rob2 \in Seq(Entries) /\ Len(rob) \in Nat
      /\ \A i \in 1 .. Len(rob) : rob2[i] = rob[i]
      /\ rob2[n] = e
  BY AppendFacts
<1> SUFFICES ASSUME NEW a \in ArchRegs, NEW i \in Writers(rob2, a)
             PROVE  /\ (\A j \in Writers(rob2, a) : j <= i) => table2[a] = rob2[i].physreg
                    /\ \A j \in Writers(rob2, a) :
                        i < j /\ (\A k \in Writers(rob2, a) : k <= i \/ j <= k)
                            => rob2[j].old_physreg = rob2[i].physreg
  BY DEF UndoChain
<1>2. Writers(rob, a) \subseteq 1 .. Len(rob)
  BY WritersNat
<1>3. CASE e.physreg # NoReg /\ e.inst.out = a
  <2>1. Writers(rob2, a) = Writers(rob, a) \cup {n}
    BY <1>3, WritersAppend
  <2>2. CASE i = n
    BY <1>1, <1>2, <1>3, <2>1, <2>2
  <2>3. CASE i # n
    <3>1. i \in Writers(rob, a) /\ i \in 1 .. Len(rob) /\ rob2[i] = rob[i]
      BY <1>1, <1>2, <2>1, <2>3
    <3>2. ~ \A j \in Writers(rob2, a) : j <= i
      BY <1>1, <2>1, <3>1
    <3>3. ASSUME NEW j \in Writers(rob2, a), i < j,
                 \A k \in Writers(rob2, a) : k <= i \/ j <= k
          PROVE  rob2[j].old_physreg = rob2[i].physreg
      <4>1. CASE j = n
        <5>1. \A k \in Writers(rob, a) : k <= i
          BY <1>1, <1>2, <2>1, <3>3, <4>1
        <5>2. table[a] = rob[i].physreg
          BY <3>1, <5>1 DEF UndoChain
        <5> QED
          BY <1>1, <1>3, <3>1, <4>1, <5>2
      <4>2. CASE j # n
        <5>1. j \in Writers(rob, a) /\ rob2[j] = rob[j]
          BY <1>1, <1>2, <2>1, <4>2
        <5>2. \A k \in Writers(rob, a) : k <= i \/ j <= k
          BY <2>1, <3>3
        <5>3. rob[j].old_physreg = rob[i].physreg
          BY <3>1, <3>3, <5>1, <5>2 DEF UndoChain
        <5> QED
          BY <3>1, <5>1, <5>3
      <4> QED
        BY <4>1, <4>2
    <3> QED
      BY <3>2, <3>3
  <2> QED
    BY <2>2, <2>3
<1>4. CASE ~(e.physreg # NoReg /\ e.inst.out = a)
  <2>1. Writers(rob2, a) = Writers(rob, a) /\ table2[a] = table[a]
    BY <1>4, WritersAppendOther
  <2>2. \A j \in Writers(rob, a) : rob2[j] = rob[j]
    BY <1>1, <1>2
  <2> HIDE DEF rob2
  <2> QED
    BY <2>1, <2>2 DEF UndoChain
<1> QED
  BY <1>3, <1>4

-----------------------------------------------------------------------------
(* Squashing the entries after the n-th: the table goes back to what it    *)
(* was, so the committed bank is as it was and the chain ends at n.        *)

LEMMA SquashFacts ==
    ASSUME NEW rob \in Seq(Entries), NEW n \in 0 .. Len(rob)
    PROVE  /\ SubSeq(rob, 1, n) \in Seq(Entries)
           /\ Len(rob) \in Nat /\ Len(SubSeq(rob, 1, n)) = n
           /\ DOMAIN rob = 1 .. Len(rob)
           /\ DOMAIN SubSeq(rob, 1, n) = 1 .. n
           /\ \A i \in 1 .. n : SubSeq(rob, 1, n)[i] = rob[i]
OBVIOUS

LEMMA WritersSquash ==
    ASSUME NEW rob \in Seq(Entries), NEW n \in 0 .. Len(rob), NEW a
    PROVE  Writers(SubSeq(rob, 1, n), a) = {i \in Writers(rob, a) : i <= n}
<1> DEFINE rob2 == SubSeq(rob, 1, n)
<1>1. /\ Len(rob) \in Nat /\ DOMAIN rob = 1 .. Len(rob) /\ DOMAIN rob2 = 1 .. n
      /\ \A i \in 1 .. n : rob2[i] = rob[i]
  BY SquashFacts
<1> HIDE DEF rob2
<1>2. \A i : i \in DOMAIN rob2 <=> i \in DOMAIN rob /\ i <= n
  BY <1>1
<1>3. Writers(rob2, a) = {i \in Writers(rob, a) : i <= n}
  BY <1>1, <1>2 DEF Writers
<1> QED
  BY <1>3 DEF rob2

LEMMA TableOfKept ==
    ASSUME NEW rob \in Seq(Entries), NEW table, NEW n \in Nat, NEW a \in ArchRegs,
           \A i \in Writers(rob, a) : i <= n
    PROVE  TableAfterSquash(rob, table, n)[a] = table[a]
<1>1. {i \in Writers(rob, a) : i > n} = {}
  BY WritersNat
<1> QED
  BY <1>1 DEF TableAfterSquash

LEMMA TableOfUndone ==
    ASSUME NEW rob \in Seq(Entries), NEW table, NEW n \in Nat, NEW a \in ArchRegs,
           NEW i \in Writers(rob, a), i > n,
           \A j \in Writers(rob, a) : j > n => i <= j
    PROVE  TableAfterSquash(rob, table, n)[a] = rob[i].old_physreg
<1> DEFINE undone == {j \in Writers(rob, a) : j > n}
<1>1. undone \in SUBSET Nat /\ i \in undone /\ \A j \in undone : i <= j
  BY WritersNat
<1> HIDE DEF undone
<1>2. Oldest(undone) = i /\ undone # {}
  BY <1>1, OldestUnique
<1> QED
  BY <1>2 DEF TableAfterSquash, undone

LEMMA TableAfterSquashType ==
    ASSUME NEW rob \in Seq(Entries), NEW table \in [ArchRegs -> PhysRegs], NEW n \in Nat
    PROVE  TableAfterSquash(rob, table, n) \in [ArchRegs -> PhysRegs]
<1> SUFFICES ASSUME NEW a \in ArchRegs
             PROVE  TableAfterSquash(rob, table, n)[a] \in PhysRegs
  BY DEF TableAfterSquash
<1>1. CASE \A i \in Writers(rob, a) : i <= n
  BY <1>1, TableOfKept
<1>2. CASE ~ \A i \in Writers(rob, a) : i <= n
  <2>1. {j \in Writers(rob, a) : j > n} # {} /\ {j \in Writers(rob, a) : j > n} \in SUBSET Nat
    BY <1>2, WritersNat
  <2>2. PICK i \in {j \in Writers(rob, a) : j > n} :
          \A j \in {k \in Writers(rob, a) : k > n} : i <= j
    BY <2>1, LeastNat
  <2>3. TableAfterSquash(rob, table, n)[a] = rob[i].old_physreg
    BY <2>2, TableOfUndone
  <2>4. rob[i] \in Entries /\ rob[i].physreg # NoReg
    BY <2>2 DEF Writers
  <2>5. rob[i].old_physreg \in PhysRegs
    BY <2>4 DEF Entries
  <2> QED
    BY <2>3, <2>5
<1> QED
  BY <1>1, <1>2

LEMMA BankSquash ==
    ASSUME NEW rob \in Seq(Entries), NEW table, NEW n \in 0 .. Len(rob), NArch \in Nat
    PROVE  CommittedBank(SubSeq(rob, 1, n), TableAfterSquash(rob, table, n))
               = CommittedBank(rob, table)
<1> DEFINE rob2 == SubSeq(rob, 1, n)
           table2 == TableAfterSquash(rob, table, n)
<1> SUFFICES ASSUME NEW a \in Mapped
             PROVE  CommittedBank(rob2, table2)[a] = CommittedBank(rob, table)[a]
  BY DEF CommittedBank, CommittedReg
<1>1. /\ rob2 \in Seq(Entries) /\ Len(rob) \in Nat /\ n \in Nat
      /\ \A i \in 1 .. n : rob2[i] = rob[i]
  BY SquashFacts
<1>2. Writers(rob2, a) = {i \in Writers(rob, a) : i <= n}
  BY WritersSquash
<1>3. a \in ArchRegs
  BY DEF Mapped, ArchRegs, DFPCR
<1>4. Writers(rob, a) \subseteq 1 .. Len(rob)
  BY WritersNat
<1>5. CASE Writers(rob, a) = {}
  <2>1. Writers(rob2, a) = {} /\ table2[a] = table[a]
    BY <1>1, <1>2, <1>3, <1>5, TableOfKept
  <2> HIDE DEF rob2, table2
  <2> QED
    BY <1>5, <2>1, BankOfNone
<1>6. CASE Writers(rob, a) # {}
  <2>1. PICK i \in Writers(rob, a) : \A j \in Writers(rob, a) : i <= j
    BY <1>6, OldestWriter
  <2>2. CommittedBank(rob, table)[a] = rob[i].old_physreg
    BY <2>1, BankOfOldest
  <2>3. CASE i <= n
    <3>1. i \in Writers(rob2, a) /\ \A j \in Writers(rob2, a) : i <= j
      BY <1>2, <2>1, <2>3
    <3>2. rob2[i] = rob[i]
      BY <1>1, <1>4, <2>3
    <3> HIDE DEF rob2, table2
    <3>3. CommittedBank(rob2, table2)[a] = rob2[i].old_physreg
      BY <1>1, <3>1, BankOfOldest
    <3> QED
      BY <2>2, <3>2, <3>3
  <2>4. CASE i > n
    <3>1. \A j \in Writers(rob, a) : j > n
      BY <1>1, <1>4, <2>1, <2>4
    <3>2. Writers(rob2, a) = {}
      BY <1>1, <1>2, <1>4, <3>1
    <3>3. table2[a] = rob[i].old_physreg
      BY <1>1, <1>3, <2>1, <2>4, TableOfUndone
    <3> HIDE DEF rob2, table2
    <3>4. CommittedBank(rob2, table2)[a] = table2[a]
      BY <3>2, BankOfNone
    <3> QED
      BY <2>2, <3>3, <3>4
  <2> QED
    BY <1>1, <1>4, <2>3, <2>4
<1> QED
  BY <1>5, <1>6

LEMMA ChainSquash ==
    ASSUME NEW rob \in Seq(Entries), NEW table, NEW n \in 0 .. Len(rob),
           UndoChain(rob, table)
    PROVE  UndoChain(SubSeq(rob, 1, n), TableAfterSquash(rob, table, n))
<1> DEFINE rob2 == SubSeq(rob, 1, n)
           table2 == TableAfterSquash(rob, table, n)
<1> SUFFICES ASSUME NEW a \in ArchRegs, NEW i \in Writers(rob2, a)
             PROVE  /\ (\A j \in Writers(rob2, a) : j <= i) => table2[a] = rob2[i].physreg
                    /\ \A j \in Writers(rob2, a) :
                        i < j /\ (\A k \in Writers(rob2, a) : k <= i \/ j <= k)
                            => rob2[j].old_physreg = rob2[i].physreg
  BY DEF UndoChain
<1>1. /\ rob2 \in Seq(Entries) /\ Len(rob) \in Nat /\ n \in Nat
      /\ \A k \in 1 .. n : rob2[k] = rob[k]
  BY SquashFacts
<1>2. Writers(rob2, a) = {k \in Writers(rob, a) : k <= n}
  BY WritersSquash
<1>3. Writers(rob, a) \subseteq 1 .. Len(rob)
  BY WritersNat
<1>4. i \in Writers(rob, a) /\ i <= n /\ i \in Nat
  BY <1>2, <1>3
<1>5. \A k \in Writers(rob2, a) : k \in 1 .. n /\ k \in Writers(rob, a) /\ rob2[k] = rob[k]
  BY <1>1, <1>2, <1>3
<1> HIDE DEF rob2
<1>6. ASSUME \A j \in Writers(rob2, a) : j <= i
      PROVE  table2[a] = rob2[i].physreg
  <2>1. CASE \A k \in Writers(rob, a) : k <= n
    <3>1. \A k \in Writers(rob, a) : k <= i
      BY <1>2, <1>6, <2>1
    <3>2. table[a] = rob[i].physreg
      BY <1>4, <3>1 DEF UndoChain
    <3>3. table2[a] = table[a]
      BY <1>1, <2>1, TableOfKept
    <3> QED
      BY <1>5, <3>2, <3>3
  <2>2. CASE ~ \A k \in Writers(rob, a) : k <= n
    <3> DEFINE undone == {k \in Writers(rob, a) : k > n}
    <3>1. undone # {} /\ undone \in SUBSET Nat
      BY <1>1, <1>3, <2>2
    <3>2. PICK j \in undone : \A k \in undone : j <= k
      BY <3>1, LeastNat
    <3>3. j \in Writers(rob, a) /\ j > n /\ j \in Nat /\ \A k \in Writers(rob, a) : k > n => j <= k
      BY <3>1, <3>2
    <3>4. \A k \in Writers(rob, a) : k <= i \/ j <= k
      BY <1>1, <1>2, <1>3, <1>6, <3>3
    <3>5. rob[j].old_physreg = rob[i].physreg
      <4>1. i < j
        BY <1>1, <1>4, <3>3
      <4> QED
        BY <1>4, <3>3, <3>4, <4>1 DEF UndoChain
    <3> HIDE DEF undone, table2
    <3>6. TableAfterSquash(rob, table, n)[a] = rob[j].old_physreg
      <4>1. n \in Nat
        BY <1>1
      <4> QED
        BY <3>3, <4>1, TableOfUndone
    <3> QED
      BY <1>5, <3>5, <3>6 DEF table2
  <2> QED
    BY <2>1, <2>2
<1>7. ASSUME NEW j \in Writers(rob2, a), i < j,
             \A k \in Writers(rob2, a) : k <= i \/ j <= k
      PROVE  rob2[j].old_physreg = rob2[i].physreg
  <2>1. \A k \in Writers(rob, a) : k <= i \/ j <= k
    BY <1>1, <1>2, <1>3, <1>5, <1>7
  <2>2. rob[j].old_physreg = rob[i].physreg
    BY <1>4, <1>5, <1>7, <2>1 DEF UndoChain
  <2> QED
    BY <1>5, <2>2
<1> QED
  BY <1>6, <1>7

-----------------------------------------------------------------------------
(* Completing entries changes neither.                                     *)

SameMappings(rob, rob2) ==
    /\ DOMAIN rob2 = DOMAIN rob
    /\ \A i \in DOMAIN rob : /\ rob2[i].inst = rob[i].inst
                             /\ rob2[i].physreg = rob[i].physreg
                             /\ rob2[i].old_physreg = rob[i].old_physreg

LEMMA WritersSame ==
    ASSUME NEW rob, NEW rob2, NEW a, SameMappings(rob, rob2)
    PROVE  Writers(rob2, a) = Writers(rob, a)
BY DEF SameMappings, Writers

LEMMA BankSame ==
    ASSUME NEW rob \in Seq(Entries), NEW rob2 \in Seq(Entries), NEW table,
           SameMappings(rob, rob2)
    PROVE  CommittedBank(rob2, table) = CommittedBank(rob, table)
<1> SUFFICES ASSUME NEW a \in Mapped
             PROVE  CommittedBank(rob2, table)[a] = CommittedBank(rob, table)[a]
  BY DEF CommittedBank, CommittedReg
<1>1. Writers(rob2, a) = Writers(rob, a)
  BY WritersSame
<1>2. CASE Writers(rob, a) = {}
  BY <1>1, <1>2, BankOfNone
<1>3. CASE Writers(rob, a) # {}
  <2>1. PICK i \in Writers(rob, a) : \A j \in Writers(rob, a) : i <= j
    BY <1>3, OldestWriter
  <2>2. CommittedBank(rob, table)[a] = rob[i].old_physreg
    BY <2>1, BankOfOldest
  <2>3. CommittedBank(rob2, table)[a] = rob2[i].old_physreg
    BY <1>1, <2>1, BankOfOldest
  <2>4. rob2[i].old_physreg = rob[i].old_physreg
    BY DEF SameMappings, Writers
  <2> QED
    BY <2>2, <2>3, <2>4
<1> QED
  BY <1>2, <1>3

LEMMA ChainSame ==
    ASSUME NEW rob, NEW rob2, NEW table, SameMappings(rob, rob2), UndoChain(rob, table)
    PROVE  UndoChain(rob2, table)
<1>1. \A a \in ArchRegs : Writers(rob2, a) = Writers(rob, a)
  BY WritersSame
<1>2. \A a \in ArchRegs : \A i \in Writers(rob, a) :
        rob2[i].physreg = rob[i].physreg /\ rob2[i].old_physreg = rob[i].old_physreg
  BY DEF SameMappings, Writers
<1> QED
  BY <1>1, <1>2 DEF UndoChain

-----------------------------------------------------------------------------
(* Committing the head moves its register into the committed bank.         *)

LEMMA TailFacts ==
    ASSUME NEW rob \in Seq(Entries), rob # <<>>
    PROVE  /\ Tail(rob) \in Seq(Entries)
           /\ Len(rob) \in Nat /\ Len(rob) >= 1 /\ 1 \in DOMAIN rob
           /\ DOMAIN rob = 1 .. Len(rob)
           /\ DOMAIN Tail(rob) = 1 .. Len(rob) - 1
           /\ \A i \in 1 .. Len(rob) - 1 : Tail(rob)[i] = rob[i + 1]
           /\ rob[1] \in Entries
OBVIOUS

LEMMA WritersTail ==
    ASSUME NEW rob \in Seq(Entries), rob # <<>>, NEW a, NEW i \in Nat
    PROVE  i \in Writers(Tail(rob), a) <=> i >= 1 /\ i + 1 \in Writers(rob, a)
<1>1. /\ Len(rob) \in Nat
      /\ DOMAIN rob = 1 .. Len(rob)
      /\ DOMAIN Tail(rob) = 1 .. Len(rob) - 1
      /\ \A k \in 1 .. Len(rob) - 1 : Tail(rob)[k] = rob[k + 1]
  BY TailFacts
<1>2. i \in DOMAIN Tail(rob) <=> i >= 1 /\ i + 1 \in DOMAIN rob
  BY <1>1
<1>3. i \in DOMAIN Tail(rob) => Tail(rob)[i] = rob[i + 1]
  BY <1>1
<1>4. i \in Writers(Tail(rob), a) <=>
        /\ i \in DOMAIN Tail(rob)
        /\ Tail(rob)[i].physreg # NoReg /\ Tail(rob)[i].inst.out = a
  BY DEF Writers
<1>5. i + 1 \in Writers(rob, a) <=>
        /\ i + 1 \in DOMAIN rob
        /\ rob[i + 1].physreg # NoReg /\ rob[i + 1].inst.out = a
  BY DEF Writers
<1> QED
  BY <1>2, <1>3, <1>4, <1>5

(* A writer other than the head is the successor of a writer of the tail.  *)
LEMMA WriterShift ==
    ASSUME NEW rob \in Seq(Entries), rob # <<>>, NEW a, NEW j \in Writers(rob, a), j # 1
    PROVE  /\ j \in Nat /\ j - 1 \in Nat /\ j - 1 \in Writers(Tail(rob), a)
           /\ Tail(rob)[j - 1] = rob[j]
<1>1. j \in 1 .. Len(rob) /\ Len(rob) \in Nat
  BY WritersNat, TailFacts
<1>2. j - 1 \in Nat /\ j - 1 >= 1 /\ (j - 1) + 1 = j
  BY <1>1
<1>3. j - 1 \in Writers(Tail(rob), a)
  BY <1>2, WritersTail
<1>4. j - 1 \in 1 .. Len(rob) - 1
  BY <1>1, <1>2
<1> QED
  BY <1>1, <1>2, <1>3, <1>4, TailFacts

LEMMA BankTail ==
    ASSUME NEW rob \in Seq(Entries), rob # <<>>, NEW table, UndoChain(rob, table),
           NEW a \in Mapped, NArch \in Nat
    PROVE  CommittedBank(Tail(rob), table)[a] =
               IF rob[1].physreg # NoReg /\ rob[1].inst.out = a
               THEN rob[1].physreg ELSE CommittedBank(rob, table)[a]
<1> DEFINE rob2 == Tail(rob)
<1>1. /\ rob2 \in Seq(Entries) /\ Len(rob) \in Nat /\ 1 \in DOMAIN rob
      /\ \A i \in 1 .. Len(rob) - 1 : rob2[i] = rob[i + 1]
  BY TailFacts
<1>2. a \in ArchRegs
  BY DEF Mapped, ArchRegs, DFPCR
<1>3. Writers(rob, a) \subseteq 1 .. Len(rob) /\ Writers(rob2, a) \in SUBSET Nat
  BY <1>1, WritersNat
<1>4. \A i \in Nat : i \in Writers(rob2, a) <=> i >= 1 /\ i + 1 \in Writers(rob, a)
  BY WritersTail
<1>5. 1 \in Writers(rob, a) <=> rob[1].physreg # NoReg /\ rob[1].inst.out = a
  BY <1>1 DEF Writers
<1>6. CASE Writers(rob2, a) = {}
  <2>1. \A j \in Writers(rob, a) : j = 1
    BY <1>6, WriterShift
  <2>2. CommittedBank(rob2, table)[a] = table[a]
    BY <1>6, BankOfNone
  <2>3. CASE 1 \in Writers(rob, a)
    <3>1. \A j \in Writers(rob, a) : j <= 1
      BY <2>1
    <3>2. table[a] = rob[1].physreg
      BY <1>2, <2>3, <3>1 DEF UndoChain
    <3> QED
      BY <1>5, <2>2, <2>3, <3>2
  <2>4. CASE 1 \notin Writers(rob, a)
    <3>1. Writers(rob, a) = {}
      BY <2>1, <2>4
    <3> QED
      BY <1>5, <2>2, <2>4, <3>1, BankOfNone
  <2> QED
    BY <2>3, <2>4
<1>7. CASE Writers(rob2, a) # {}
  <2>1. PICK i \in Writers(rob2, a) : \A j \in Writers(rob2, a) : i <= j
    BY <1>1, <1>7, OldestWriter
  <2>2. i \in Nat /\ i >= 1 /\ i + 1 \in Writers(rob, a) /\ i + 1 \in 1 .. Len(rob)
    BY <1>3, <1>4, <2>1
  <2>3. CommittedBank(rob2, table)[a] = rob[i + 1].old_physreg
    <3>1. CommittedBank(rob2, table)[a] = rob2[i].old_physreg
      BY <1>1, <2>1, BankOfOldest, ZenonT(30)
    <3>2. i \in 1 .. Len(rob) - 1
      BY <1>1, <2>2
    <3>3. rob2[i] = rob[i + 1]
      BY <1>1, <3>2, SMTT(60)
    <3> QED
      BY <3>1, <3>3
  <2>4. \A j \in Writers(rob, a) : j = 1 \/ i + 1 <= j
    <3> SUFFICES ASSUME NEW j \in Writers(rob, a), j # 1 PROVE i + 1 <= j
      OBVIOUS
    <3>1. j \in Nat /\ j - 1 \in Writers(rob2, a)
      BY WriterShift
    <3>2. i <= j - 1
      BY <2>1, <3>1
    <3> QED
      BY <2>2, <3>1, <3>2
  <2>5. CASE 1 \in Writers(rob, a)
    <3>1. \A j \in Writers(rob, a) : j <= 1 \/ i + 1 <= j
      BY <2>4
    <3>2. rob[i + 1].old_physreg = rob[1].physreg
      BY <1>2, <2>2, <2>5, <3>1 DEF UndoChain
    <3> QED
      BY <1>5, <2>3, <2>5, <3>2
  <2>6. CASE 1 \notin Writers(rob, a)
    <3>1. \A j \in Writers(rob, a) : i + 1 <= j
      BY <2>4, <2>6
    <3>2. CommittedBank(rob, table)[a] = rob[i + 1].old_physreg
      BY <2>2, <3>1, BankOfOldest
    <3> QED
      BY <1>5, <2>3, <2>6, <3>2
  <2> QED
    BY <2>5, <2>6
<1> QED
  BY <1>6, <1>7

LEMMA ChainTail ==
    ASSUME NEW rob \in Seq(Entries), rob # <<>>, NEW table, UndoChain(rob, table)
    PROVE  UndoChain(Tail(rob), table)
<1> DEFINE rob2 == Tail(rob)
<1> SUFFICES ASSUME NEW a \in ArchRegs, NEW i \in Writers(rob2, a)
             PROVE  /\ (\A j \in Writers(rob2, a) : j <= i) => table[a] = rob2[i].physreg
                    /\ \A j \in Writers(rob2, a) :
                        i < j /\ (\A k \in Writers(rob2, a) : k <= i \/ j <= k)
                            => rob2[j].old_physreg = rob2[i].physreg
  BY DEF UndoChain
<1>1. /\ rob2 \in Seq(Entries) /\ Len(rob) \in Nat
      /\ \A k \in 1 .. Len(rob) - 1 : rob2[k] = rob[k + 1]
  BY TailFacts
<1>2. \A k \in Writers(rob2, a) : /\ k \in Nat /\ k >= 1 /\ k + 1 \in Writers(rob, a)
                                  /\ rob2[k] = rob[k + 1]
  <2> SUFFICES ASSUME NEW k \in Writers(rob2, a)
               PROVE  k \in Nat /\ k >= 1 /\ k + 1 \in Writers(rob, a) /\ rob2[k] = rob[k + 1]
    OBVIOUS
  <2>1. k \in Nat
    BY <1>1, WritersNat
  <2>2. k >= 1 /\ k + 1 \in Writers(rob, a)
    BY <2>1, WritersTail
  <2>3. k + 1 \in 1 .. Len(rob)
    BY <2>2, WritersNat
  <2>4. k \in 1 .. Len(rob) - 1
    BY <1>1, <2>1, <2>2, <2>3
  <2> QED
    BY <1>1, <2>1, <2>2, <2>4
<1>3. \A j \in Writers(rob, a) : j # 1 => j \in Nat /\ j - 1 \in Writers(rob2, a)
  BY WriterShift
<1> HIDE DEF rob2
<1>4. ASSUME \A j \in Writers(rob2, a) : j <= i
      PROVE  table[a] = rob2[i].physreg
  <2>1. \A j \in Writers(rob, a) : j <= i + 1
    <3> SUFFICES ASSUME NEW j \in Writers(rob, a) PROVE j <= i + 1
      OBVIOUS
    <3>1. j # 1 => j \in Nat /\ j - 1 <= i
      BY <1>3, <1>4
    <3> QED
      BY <1>2, <3>1
  <2> QED
    BY <1>2, <2>1 DEF UndoChain
<1>5. ASSUME NEW j \in Writers(rob2, a), i < j,
             \A k \in Writers(rob2, a) : k <= i \/ j <= k
      PROVE  rob2[j].old_physreg = rob2[i].physreg
  <2>1. \A k \in Writers(rob, a) : k <= i + 1 \/ j + 1 <= k
    <3> SUFFICES ASSUME NEW k \in Writers(rob, a) PROVE k <= i + 1 \/ j + 1 <= k
      OBVIOUS
    <3>1. k # 1 => k \in Nat /\ (k - 1 <= i \/ j <= k - 1)
      BY <1>3, <1>5
    <3> QED
      BY <1>2, <3>1
  <2>2. i + 1 < j + 1 /\ i + 1 \in Writers(rob, a) /\ j + 1 \in Writers(rob, a)
    BY <1>2, <1>5
  <2>3. rob[j + 1].old_physreg = rob[i + 1].physreg
    BY <2>1, <2>2 DEF UndoChain
  <2> QED
    BY <1>2, <2>3
<1> QED
  BY <1>4, <1>5

-----------------------------------------------------------------------------
(* Types *)

LEMMA EntryField ==
    ASSUME NEW e \in Entries
    PROVE  /\ e.inst \in Insts /\ e.completed \in BOOLEAN
           /\ e.mem \in {"none", "pending", "done"}
           /\ e.physreg # NoReg => /\ e.physreg \in PhysRegs /\ e.old_physreg \in PhysRegs
                                   /\ Renames(e.inst)
           /\ e.physreg = NoReg => ~Renames(e.inst)
BY DEF Entries

LEMMA InstField ==
    ASSUME NEW inst \in Insts
    PROVE  /\ inst.out \in ArchRegs
           /\ \A k \in 1 .. 2 : inst.in[k] \in ArchRegs
           /\ Renames(inst) => inst.dest \in RegTypes /\ inst.dest = TypeOf(inst.out)
BY InstsAssumption DEF InstType, Renames, RegTypes, TypeOf

LEMMA NewEntryType ==
    ASSUME TypeOK, NEW c \in Contexts, NEW inst \in Insts, NEW m \in BOOLEAN,
           inst.dest # "NONE" => FreeRegs(inst.dest) # {}
    PROVE  /\ NewEntry(c, inst, m) \in Entries
           /\ NewEntry(c, inst, m).inst = inst
           /\ NewEntry(c, inst, m).completed = FALSE
           /\ NewEntry(c, inst, m).mem # "done"
           /\ Renames(inst) =>
                /\ find_free_physreg(inst.dest) \in PhysRegs
                /\ reg_file[<<inst.dest, find_free_physreg(inst.dest)>>] = "FREE"
                /\ NewEntry(c, inst, m).physreg = find_free_physreg(inst.dest)
                /\ NewEntry(c, inst, m).physreg # NoReg
                /\ NewEntry(c, inst, m).old_physreg = rename_table[c][inst.out]
           /\ ~Renames(inst) => NewEntry(c, inst, m).physreg = NoReg
<1> DEFINE e == NewEntry(c, inst, m)
<1>1. Renames(inst) => /\ find_free_physreg(inst.dest) \in PhysRegs
                       /\ reg_file[<<inst.dest, find_free_physreg(inst.dest)>>] = "FREE"
  BY FreeFound, SizesAssumption DEF Renames
<1>2. rename_table[c] \in [ArchRegs -> PhysRegs]
  BY DEF TypeOK
<1>3. \A a \in ArchRegs : rename_table[c][a] \in PhysRegs /\ rename_table[c][a] # NoReg
  BY <1>2 DEF PhysRegs, NoReg
<1>4. \A r \in PhysRegs : r # NoReg
  BY DEF PhysRegs, NoReg
<1>5. e.src_physreg \in [1 .. 2 -> PhysRegs]
  BY <1>3, InstField DEF NewEntry
<1>6. e.recover_inst \in BOOLEAN /\ e.spec_mode \in BOOLEAN
  BY DEF NewEntry, TypeOK
<1>7. e.mem \in {"none", "pending", "done"} /\ e.mem # "done" /\ e.completed = FALSE /\ e.inst = inst
  BY DEF NewEntry
<1>8. /\ e.physreg \in PhysRegs \cup {NoReg} /\ e.old_physreg \in PhysRegs \cup {NoReg}
      /\ Renames(inst) => /\ e.physreg = find_free_physreg(inst.dest)
                          /\ e.old_physreg = rename_table[c][inst.out]
                          /\ e.physreg # NoReg /\ e.old_physreg # NoReg
      /\ ~Renames(inst) => e.physreg = NoReg /\ e.old_physreg = NoReg
  BY <1>1, <1>3, <1>4, InstField DEF NewEntry
<1>9. e = [inst |-> e.inst, physreg |-> e.physreg, old_physreg |-> e.old_physreg,
           src_physreg |-> e.src_physreg, completed |-> e.completed, mem |-> e.mem,
           recover_inst |-> e.recover_inst, spec_mode |-> e.spec_mode]
  BY DEF NewEntry
<1> HIDE DEF e
<1>10. e \in [inst : Insts, physreg : PhysRegs \cup {NoReg},
              old_physreg : PhysRegs \cup {NoReg}, src_physreg : [1 .. 2 -> PhysRegs],
              completed : BOOLEAN, mem : {"none", "pending", "done"},
              recover_inst : BOOLEAN, spec_mode : BOOLEAN]
  BY <1>5, <1>6, <1>7, <1>8, <1>9
<1>11. (e.physreg # NoReg <=> Renames(e.inst)) /\ (e.old_physreg # NoReg <=> Renames(e.inst))
  BY <1>7, <1>8
<1>12. e \in Entries
  BY <1>10, <1>11 DEF Entries
<1> QED
  BY <1>1, <1>7, <1>8, <1>12 DEF e

(* Completing an entry keeps its mappings.                                 *)
LEMMA CompleteType ==
    ASSUME NEW rob \in Seq(Entries), NEW i \in DOMAIN rob
    PROVE  /\ [rob EXCEPT ![i].completed = TRUE] \in Seq(Entries)
           /\ [rob EXCEPT ![i].mem = "done"] \in Seq(Entries)
           /\ SameMappings(rob, [rob EXCEPT ![i].completed = TRUE])
           /\ SameMappings(rob, [rob EXCEPT ![i].mem = "done"])
<1>1. rob[i] \in Entries /\ \A k \in DOMAIN rob : rob[k] \in Entries
  OBVIOUS
<1>2. [rob[i] EXCEPT !.completed = TRUE] \in Entries
  BY <1>1 DEF Entries
<1>3. [rob[i] EXCEPT !.mem = "done"] \in Entries
  BY <1>1 DEF Entries
<1>4. /\ [rob[i] EXCEPT !.completed = TRUE].inst = rob[i].inst
      /\ [rob[i] EXCEPT !.completed = TRUE].physreg = rob[i].physreg
      /\ [rob[i] EXCEPT !.completed = TRUE].old_physreg = rob[i].old_physreg
      /\ [rob[i] EXCEPT !.mem = "done"].inst = rob[i].inst
      /\ [rob[i] EXCEPT !.mem = "done"].physreg = rob[i].physreg
      /\ [rob[i] EXCEPT !.mem = "done"].old_physreg = rob[i].old_physreg
  BY <1>1 DEF Entries
<1>5. /\ [rob EXCEPT ![i].completed = TRUE] \in Seq(Entries)
      /\ [rob EXCEPT ![i].mem = "done"] \in Seq(Entries)
  BY <1>2, <1>3
<1>6. /\ SameMappings(rob, [rob EXCEPT ![i].completed = TRUE])
      /\ SameMappings(rob, [rob EXCEPT ![i].mem = "done"])
  BY <1>4 DEF SameMappings
<1> QED
  BY <1>5, <1>6

LEMMA SquashedFileType ==
    ASSUME TypeOK, NEW rob, NEW n
    PROVE  RegFileAfterSquash(rob, n) \in [RegTypes \X PhysRegs -> RegStates]
<1> SUFFICES ASSUME NEW r \in RegTypes \X PhysRegs
             PROVE  RegFileAfterSquash(rob, n)[r] \in RegStates
  BY DEF RegFileAfterSquash
<1>1. reg_file[r] \in RegStates /\ "FREE" \in RegStates
  BY DEF TypeOK, RegStates
<1> QED
  BY <1>1 DEF RegFileAfterSquash

LEMMA InitialBank ==
    ASSUME NEW k \in 1 .. MaxContexts, NEW r \in 0 .. NArch - 1
    PROVE  (k - 1) * NArch + r \in PhysRegs /\ (k - 1) * NArch + r < NArch * MaxContexts
<1>1. NArch \in Nat /\ MaxContexts \in Nat /\ RFSize \in Nat
      /\ RFSize >= NArch * (MaxContexts + 1)
  BY SizesAssumption
<1>2. (k - 1) * NArch + NArch = k * NArch /\ k * NArch <= MaxContexts * NArch
  BY <1>1
<1>3. (k - 1) * NArch \in Nat /\ (k - 1) * NArch + r < MaxContexts * NArch
  BY <1>1, <1>2
<1>4. NArch * (MaxContexts + 1) = NArch * MaxContexts + NArch
      /\ NArch * MaxContexts = MaxContexts * NArch
  BY <1>1
<1> QED
  BY <1>1, <1>3, <1>4 DEF PhysRegs

LEMMA InitType == Init => TypeOK /\ BankPerPlace
<1> SUFFICES ASSUME Init PROVE TypeOK /\ BankPerPlace
  OBVIOUS
<1> USE DEF Init
<1>1. reg_file \in [RegTypes \X PhysRegs -> RegStates]
  BY DEF RegStates
<1>2. arch_regs \in Seq(Banks) /\ Len(arch_regs) = MaxContexts
  <2>1. ASSUME NEW k \in 1 .. MaxContexts
        PROVE  [a \in Mapped |-> (k - 1) * NArch + (IF a < NArch THEN a ELSE a - NArch)] \in Banks
    <3> SUFFICES ASSUME NEW a \in Mapped
                 PROVE  (k - 1) * NArch + (IF a < NArch THEN a ELSE a - NArch) \in PhysRegs
      BY DEF Banks
    <3>1. (IF a < NArch THEN a ELSE a - NArch) \in 0 .. NArch - 1
      BY SizesAssumption DEF Mapped
    <3> QED
      BY <3>1, InitialBank
  <2>2. MaxContexts \in Nat
    BY SizesAssumption
  <2> QED
    BY <2>1, <2>2
<1>3. 0 \in PhysRegs
  <2>1. 1 \in 1 .. MaxContexts /\ 0 \in 0 .. NArch - 1
    BY SizesAssumption
  <2>2. (1 - 1) * NArch + 0 = 0
    BY SizesAssumption
  <2> QED
    BY <2>1, <2>2, InitialBank
<1>4. rename_table \in [Contexts -> [ArchRegs -> PhysRegs]]
  BY <1>3
<1>5. ROB \in [Contexts -> Seq(Entries)] /\ spec_mode \in [Contexts -> BOOLEAN]
  OBVIOUS
<1>6. stale \in [Contexts -> 0 .. MaxStale]
  BY SizesAssumption
<1>7. IsFiniteSet(context_ids) /\ Cardinality(context_ids) = 0
  BY FS_EmptySet
<1>8. loading \in BOOLEAN /\ created \subseteq Contexts /\ context_ids \subseteq created
  OBVIOUS
<1>9. Len(arch_regs) + Cardinality(context_ids) = MaxContexts
  BY <1>2, <1>7, SizesAssumption
<1> USE DEF TypeOK, BankPerPlace
<1> HIDE DEF Init
<1> QED
  BY <1>1, <1>2, <1>4, <1>5, <1>6, <1>7, <1>8, <1>9

LEMMA PrefixFacts ==
    ASSUME NEW S, NEW s \in Seq(S), NEW n \in 0 .. Len(s)
    PROVE  /\ SubSeq(s, 1, n) \in Seq(S) /\ Len(SubSeq(s, 1, n)) = n
           /\ DOMAIN SubSeq(s, 1, n) = 1 .. n
           /\ \A k \in 1 .. n : SubSeq(s, 1, n)[k] = s[k]
OBVIOUS

(* A context is added only while a bank is left for it.                    *)
LEMMA AddType ==
    ASSUME TypeOK, BankPerPlace, NEW c \in Contexts, NEW fpcr \in PhysRegs, addcontext(c, fpcr)
    PROVE  /\ arch_regs' \in Seq(Banks)
           /\ created' \subseteq Contexts /\ context_ids' \subseteq created'
           /\ rename_table' \in [Contexts -> [ArchRegs -> PhysRegs]]
           /\ BankPerPlace'
           /\ c \notin context_ids /\ Len(arch_regs) >= 1
<1> USE DEF addcontext
<1>1. c \notin context_ids
  BY DEF TypeOK
<1>2. /\ IsFiniteSet(context_ids') /\ Cardinality(context_ids) \in Nat
      /\ Cardinality(context_ids') = Cardinality(context_ids) + 1
  BY <1>1, FS_AddElement, FS_CardinalityType DEF BankPerPlace
<1>3. Len(arch_regs) \in Nat /\ Len(arch_regs) >= 1
  BY <1>2, SizesAssumption DEF BankPerPlace, TypeOK
<1>4. arch_regs' \in Seq(Banks) /\ Len(arch_regs') = Len(arch_regs) - 1
  <2>1. arch_regs \in Seq(Banks) /\ Len(arch_regs) - 1 \in 0 .. Len(arch_regs)
    BY <1>3 DEF TypeOK
  <2> QED
    BY <2>1, PrefixFacts
<1>5. arch_regs[Len(arch_regs)] \in Banks
  BY <1>3 DEF TypeOK
<1>6. rename_table' \in [Contexts -> [ArchRegs -> PhysRegs]]
  BY <1>5 DEF TypeOK, Banks
<1>7. BankPerPlace'
  <2>1. Len(arch_regs) + Cardinality(context_ids) = MaxContexts
    BY DEF BankPerPlace
  <2> HIDE DEF addcontext
  <2>2. Len(arch_regs') + Cardinality(context_ids') = MaxContexts
    BY <1>2, <1>3, <1>4, <2>1, SizesAssumption
  <2> QED
    BY <1>2, <2>2 DEF BankPerPlace
<1> QED
  BY <1>1, <1>3, <1>4, <1>6, <1>7 DEF TypeOK

LEMMA EjectType ==
    ASSUME TypeOK, BankPerPlace, NEW v \in context_ids, FlushAndEject(v), NArch \in Nat
    PROVE  /\ reg_file' \in [RegTypes \X PhysRegs -> RegStates]
           /\ arch_regs' \in Seq(Banks)
           /\ context_ids' \subseteq created
           /\ rename_table' \in [Contexts -> [ArchRegs -> PhysRegs]]
           /\ spec_mode' \in [Contexts -> BOOLEAN]
           /\ BankPerPlace'
<1> USE DEF FlushAndEject
<1>1. v \in Contexts /\ ROB[v] \in Seq(Entries) /\ rename_table[v] \in [ArchRegs -> PhysRegs]
  BY DEF TypeOK
<1>2. TableAfterSquash(ROB[v], rename_table[v], 0) \in [ArchRegs -> PhysRegs]
  BY <1>1, TableAfterSquashType
<1>3. rename_table' \in [Contexts -> [ArchRegs -> PhysRegs]]
      /\ rename_table'[v] \in [ArchRegs -> PhysRegs]
  BY <1>1, <1>2 DEF TypeOK
<1>4. [a \in Mapped |-> rename_table'[v][a]] \in Banks
  BY <1>3 DEF Banks, Mapped, ArchRegs, DFPCR
<1>5. arch_regs' \in Seq(Banks) /\ Len(arch_regs') = Len(arch_regs) + 1 /\ Len(arch_regs) \in Nat
  BY <1>4 DEF TypeOK
<1>6. /\ IsFiniteSet(context_ids') /\ Cardinality(context_ids) \in Nat
      /\ Cardinality(context_ids') = Cardinality(context_ids) - 1
  BY FS_RemoveElement, FS_CardinalityType DEF BankPerPlace
<1>7. BankPerPlace'
  BY <1>5, <1>6, SizesAssumption DEF BankPerPlace
<1>8. reg_file' \in [RegTypes \X PhysRegs -> RegStates]
  BY SquashedFileType
<1>9. spec_mode' \in [Contexts -> BOOLEAN] /\ context_ids' \subseteq created
  BY DEF TypeOK
<1> QED
  BY <1>3, <1>5, <1>7, <1>8, <1>9

(* Writing the state of the destination of an entry.                       *)
LEMMA WriteType ==
    ASSUME NEW f \in [RegTypes \X PhysRegs -> RegStates], NEW e \in Entries,
           e.physreg # NoReg, NEW s \in RegStates
    PROVE  /\ [f EXCEPT ![<<e.inst.dest, e.physreg>>] = s] \in [RegTypes \X PhysRegs -> RegStates]
           /\ [f EXCEPT ![<<e.inst.dest, e.old_physreg>>] = s] \in [RegTypes \X PhysRegs -> RegStates]
OBVIOUS

LEMMA RenameType ==
    ASSUME TypeOK, NEW c \in Contexts, NEW inst \in Insts, NEW m \in BOOLEAN,
           register_rename(c, inst, m)
    PROVE  TypeOK'
<1>1. NewEntry(c, inst, m) \in Entries
      /\ (Renames(inst) => find_free_physreg(inst.dest) \in PhysRegs)
  BY NewEntryType DEF register_rename, CanRename
<1>2. ROB' \in [Contexts -> Seq(Entries)]
  BY <1>1 DEF TypeOK, register_rename
<1>3. reg_file' \in [RegTypes \X PhysRegs -> RegStates]
  <2>1. CASE Renames(inst)
    <3>1. <<inst.dest, find_free_physreg(inst.dest)>> \in RegTypes \X PhysRegs
      BY <1>1, <2>1, InstField
    <3> QED
      BY <2>1, <3>1 DEF TypeOK, RegStates, register_rename
  <2>2. CASE ~Renames(inst)
    BY <2>2 DEF TypeOK, register_rename
  <2> QED
    BY <2>1, <2>2
<1>4. rename_table' \in [Contexts -> [ArchRegs -> PhysRegs]]
  <2>1. CASE Renames(inst)
    <3>1. rename_table' = [rename_table EXCEPT ![c][inst.out] = find_free_physreg(inst.dest)]
      BY <2>1 DEF register_rename
    <3>2. [rename_table[c] EXCEPT ![inst.out] = find_free_physreg(inst.dest)]
            \in [ArchRegs -> PhysRegs]
      BY <1>1, <2>1 DEF TypeOK
    <3> QED
      BY <3>1, <3>2 DEF TypeOK
  <2>2. CASE ~Renames(inst)
    BY <2>2 DEF TypeOK, register_rename
  <2> QED
    BY <2>1, <2>2
<1>5. spec_mode' \in [Contexts -> BOOLEAN]
  <2>1. spec_mode' = [spec_mode EXCEPT ![c] = @ \/ m]
    BY DEF register_rename
  <2>2. spec_mode \in [Contexts -> BOOLEAN]
    BY DEF TypeOK
  <2>3. (spec_mode[c] \/ m) \in BOOLEAN
    OBVIOUS
  <2> QED
    BY <2>1, <2>2, <2>3
<1>6. stale' \in [Contexts -> 0 .. MaxStale]
  <2>1. c \in context_ids \/ stale[c] > 0
    <3>1. CanRename(c, inst)
      BY DEF register_rename
    <3> QED
      BY <3>1, Zenon DEF CanRename
  <2>2. stale' = [stale EXCEPT ![c] = IF c \in context_ids THEN @ ELSE @ - 1]
    BY DEF register_rename
  <2>3. stale \in [Contexts -> 0 .. MaxStale] /\ MaxStale \in Nat
    BY SizesAssumption DEF TypeOK
  <2>4. (IF c \in context_ids THEN stale[c] ELSE stale[c] - 1) \in 0 .. MaxStale
    BY <2>1, <2>3
  <2> QED
    BY <2>2, <2>3, <2>4
<1>7. loading' = loading /\ arch_regs' = arch_regs /\ created' = created
      /\ context_ids' = context_ids
  BY DEF register_rename
<1> QED
  BY <1>2, <1>3, <1>4, <1>5, <1>6, <1>7 DEF TypeOK

(* A trap is not renamed.                                                  *)
LEMMA TrapType ==
    ASSUME TypeOK, NEW c \in Contexts, NEW inst \in Insts, inst.kind = "trap",
           CanRename(c, inst)
    PROVE  /\ ROB[c] = <<>>
           /\ NewEntry(c, inst, FALSE) \in Entries
           /\ NewEntry(c, inst, FALSE).physreg = NoReg
<1>1. ROB[c] = <<>> /\ inst.dest = "NONE" /\ ~Renames(inst)
  BY InstsAssumption DEF CanRename, Renames
<1> QED
  BY <1>1, NewEntryType

LEMMA ForkType ==
    ASSUME TypeOK, BankPerPlace, NEW p \in Contexts, NEW c \in Contexts,
           NEW inst \in Insts, fork(p, c, inst)
    PROVE  TypeOK' /\ BankPerPlace'
<1>1. NewEntry(p, inst, FALSE) \in Entries
  BY TrapType DEF fork
<1>2. rename_table[p][DFPCR] \in PhysRegs
  BY SizesAssumption DEF TypeOK, ArchRegs, DFPCR
<1>3. /\ arch_regs' \in Seq(Banks)
      /\ created' \subseteq Contexts /\ context_ids' \subseteq created'
      /\ rename_table' \in [Contexts -> [ArchRegs -> PhysRegs]]
      /\ BankPerPlace'
  BY <1>2, AddType DEF fork
<1>4. ROB' \in [Contexts -> Seq(Entries)]
  <2>1. ROB[p] \in Seq(Entries)
    BY DEF TypeOK
  <2>2. Append(ROB[p], NewEntry(p, inst, FALSE)) \in Seq(Entries)
    BY <1>1, <2>1, AppendFacts
  <2>3. ROB' = [ROB EXCEPT ![p] = Append(@, NewEntry(p, inst, FALSE))]
    BY DEF fork
  <2> QED
    BY <2>2, <2>3 DEF TypeOK
<1>5. loading' = loading /\ reg_file' = reg_file /\ spec_mode' = spec_mode /\ stale' = stale
  BY DEF fork
<1> QED
  BY <1>3, <1>4, <1>5 DEF TypeOK

LEMMA AttachType ==
    ASSUME TypeOK, BankPerPlace, NEW c \in Contexts, Attach(c)
    PROVE  TypeOK' /\ BankPerPlace'
<1>1. rename_table[c][DFPCR] \in PhysRegs
  BY SizesAssumption DEF TypeOK, ArchRegs, DFPCR
<1>2. /\ arch_regs' \in Seq(Banks)
      /\ created' \subseteq Contexts /\ context_ids' \subseteq created'
      /\ rename_table' \in [Contexts -> [ArchRegs -> PhysRegs]]
      /\ BankPerPlace'
  BY <1>1, AddType DEF Attach
<1>3. /\ loading' = loading /\ reg_file' = reg_file /\ ROB' = ROB
      /\ spec_mode' = spec_mode /\ stale' = stale
  BY DEF Attach
<1> QED
  BY <1>2, <1>3 DEF TypeOK

LEMMA KillType ==
    ASSUME TypeOK, BankPerPlace, NEW k \in Contexts, NEW v \in Contexts,
           NEW inst \in Insts, kill(k, v, inst)
    PROVE  TypeOK' /\ BankPerPlace'
<1>1. NewEntry(k, inst, FALSE) \in Entries
  BY TrapType DEF kill
<1>2. ROB' \in [Contexts -> Seq(Entries)]
  <2>3. <<>> \in Seq(Entries)
    OBVIOUS
  <2>1. Append(ROB[k], NewEntry(k, inst, FALSE)) \in Seq(Entries)
    <3>1. ROB[k] \in Seq(Entries)
      BY DEF TypeOK
    <3> QED
      BY <1>1, <3>1, AppendFacts
  <2>2. ROB' = [ROB EXCEPT ![v] = <<>>, ![k] = Append(@, NewEntry(k, inst, FALSE))] /\ k # v
    BY DEF kill
  <2> QED
    BY <2>1, <2>2, <2>3 DEF TypeOK
<1>3. v \in context_ids /\ FlushAndEject(v) /\ NArch \in Nat
  BY SizesAssumption DEF kill
<1>4. loading' = loading /\ created' = created /\ stale' = stale
  BY DEF kill
<1> QED
  BY <1>2, <1>3, <1>4, EjectType DEF TypeOK

LEMMA RemoteKillType ==
    ASSUME TypeOK, BankPerPlace, NEW v \in Contexts, remote_kill(v)
    PROVE  TypeOK' /\ BankPerPlace'
<1>1. ROB' \in [Contexts -> Seq(Entries)]
  BY DEF TypeOK, remote_kill
<1>2. v \in context_ids /\ FlushAndEject(v) /\ NArch \in Nat
  BY SizesAssumption DEF remote_kill
<1>3. loading' = loading /\ created' = created /\ stale' = stale
  BY DEF remote_kill
<1> QED
  BY <1>1, <1>2, <1>3, EjectType DEF TypeOK

LEMMA ExitType ==
    ASSUME TypeOK, BankPerPlace, NEW c \in Contexts, NEW inst \in Insts,
           NEW n \in 0 .. MaxStale, exit(c, inst, n)
    PROVE  TypeOK' /\ BankPerPlace'
<1>1. NewEntry(c, inst, FALSE) \in Entries
  BY TrapType DEF exit
<1>2. ROB' \in [Contexts -> Seq(Entries)] /\ stale' \in [Contexts -> 0 .. MaxStale]
  <2>1. ROB[c] \in Seq(Entries)
    BY DEF TypeOK
  <2>2. Append(ROB[c], NewEntry(c, inst, FALSE)) \in Seq(Entries)
    BY <1>1, <2>1, AppendFacts
  <2>3. /\ ROB' = [ROB EXCEPT ![c] = Append(@, NewEntry(c, inst, FALSE))]
        /\ stale' = [stale EXCEPT ![c] = n]
    BY DEF exit
  <2> QED
    BY <2>2, <2>3 DEF TypeOK
<1>3. c \in context_ids /\ FlushAndEject(c) /\ NArch \in Nat
  BY SizesAssumption DEF exit
<1>4. loading' = loading /\ created' = created
  BY DEF exit
<1> QED
  BY <1>2, <1>3, <1>4, EjectType DEF TypeOK

(* What writeback leaves of the reorder buffer of its context.             *)
LEMMA WritebackROB ==
    ASSUME TypeOK, NEW c \in Contexts, NEW i \in DOMAIN ROB[c], writeback(c, i)
    PROVE  LET n == IF ROB[c][i].recover_inst THEN i ELSE Len(ROB[c])
               kept == SubSeq(ROB[c], 1, n)
           IN  /\ n \in 0 .. Len(ROB[c]) /\ i \in 1 .. n
               /\ kept \in Seq(Entries) /\ DOMAIN kept = 1 .. n
               /\ \A k \in 1 .. n : kept[k] = ROB[c][k]
               /\ ROB' = [ROB EXCEPT ![c] = [kept EXCEPT ![i].completed = TRUE]]
               /\ [kept EXCEPT ![i].completed = TRUE] \in Seq(Entries)
               /\ SameMappings(kept, [kept EXCEPT ![i].completed = TRUE])
<1> DEFINE n == IF ROB[c][i].recover_inst THEN i ELSE Len(ROB[c])
           kept == SubSeq(ROB[c], 1, n)
<1>1. ROB[c] \in Seq(Entries) /\ i \in 1 .. Len(ROB[c]) /\ Len(ROB[c]) \in Nat
  BY DEF TypeOK
<1>2. n \in 0 .. Len(ROB[c]) /\ i \in 1 .. n
  BY <1>1
<1>3. SubSeq(ROB[c], 1, Len(ROB[c])) = ROB[c]
  BY <1>1
<1>4. (IF ROB[c][i].recover_inst THEN SubSeq(ROB[c], 1, i) ELSE ROB[c]) = kept
  BY <1>3
<1>5. ROB' = [ROB EXCEPT ![c] = [kept EXCEPT ![i].completed = TRUE]]
  BY <1>4 DEF writeback
<1> HIDE DEF n
<1>6. /\ kept \in Seq(Entries) /\ DOMAIN kept = 1 .. n
      /\ \A k \in 1 .. n : kept[k] = ROB[c][k]
  BY <1>1, <1>2, SquashFacts
<1> HIDE DEF kept
<1>7. /\ [kept EXCEPT ![i].completed = TRUE] \in Seq(Entries)
      /\ SameMappings(kept, [kept EXCEPT ![i].completed = TRUE])
  BY <1>2, <1>6, CompleteType
<1> QED
  BY <1>2, <1>5, <1>6, <1>7 DEF n, kept

LEMMA WritebackType ==
    ASSUME TypeOK, NEW c \in Contexts, NEW i \in DOMAIN ROB[c], writeback(c, i)
    PROVE  TypeOK'
<1>1. ROB' \in [Contexts -> Seq(Entries)]
  <2> DEFINE n == IF ROB[c][i].recover_inst THEN i ELSE Len(ROB[c])
             new == [SubSeq(ROB[c], 1, n) EXCEPT ![i].completed = TRUE]
  <2>1. ROB' = [ROB EXCEPT ![c] = new] /\ new \in Seq(Entries)
    BY WritebackROB
  <2> HIDE DEF new
  <2> QED
    BY <2>1 DEF TypeOK
<1>2. reg_file' \in [RegTypes \X PhysRegs -> RegStates]
  <2> DEFINE regs == IF ROB[c][i].recover_inst THEN RegFileAfterSquash(ROB[c], i) ELSE reg_file
  <2>1. regs \in [RegTypes \X PhysRegs -> RegStates]
    BY SquashedFileType DEF TypeOK
  <2>2. reg_file' = IF ROB[c][i].physreg # NoReg /\ ROB[c][i].mem = "none"
                      THEN [regs EXCEPT ![<<ROB[c][i].inst.dest, ROB[c][i].physreg>>] = "WB"]
                      ELSE regs
    BY DEF writeback
  <2> HIDE DEF regs
  <2>3. ROB[c][i] \in Entries /\ "WB" \in RegStates
    BY DEF TypeOK, RegStates
  <2> QED
    BY <2>1, <2>2, <2>3, WriteType
<1>3. rename_table' \in [Contexts -> [ArchRegs -> PhysRegs]]
  <2>1. TableAfterSquash(ROB[c], rename_table[c], i) \in [ArchRegs -> PhysRegs]
    <3>1. ROB[c] \in Seq(Entries) /\ rename_table[c] \in [ArchRegs -> PhysRegs] /\ i \in Nat
      BY DEF TypeOK
    <3> QED
      BY <3>1, TableAfterSquashType
  <2>2. rename_table' = rename_table \/ rename_table' =
          [rename_table EXCEPT ![c] = TableAfterSquash(ROB[c], rename_table[c], i)]
    BY DEF writeback
  <2> QED
    BY <2>1, <2>2 DEF TypeOK
<1>4. spec_mode' \in [Contexts -> BOOLEAN]
  BY DEF writeback, TypeOK
<1>5. UNCHANGED <<loading, arch_regs, created, context_ids, stale>>
  BY DEF writeback
<1> QED
  BY <1>1, <1>2, <1>3, <1>4, <1>5 DEF TypeOK

LEMMA LSQDoneType ==
    ASSUME TypeOK, NEW c \in Contexts, NEW i \in DOMAIN ROB[c], LSQDone(c, i)
    PROVE  TypeOK'
<1>1. ROB' \in [Contexts -> Seq(Entries)]
  BY CompleteType DEF TypeOK, LSQDone
<1>2. reg_file' \in [RegTypes \X PhysRegs -> RegStates]
  <2>1. ROB[c][i] \in Entries /\ "WB" \in RegStates
    BY DEF TypeOK, RegStates
  <2> QED
    BY <2>1, WriteType DEF TypeOK, LSQDone
<1>3. UNCHANGED <<loading, arch_regs, created, context_ids, rename_table, spec_mode, stale>>
  BY DEF LSQDone
<1> QED
  BY <1>1, <1>2, <1>3 DEF TypeOK

LEMMA CommitType ==
    ASSUME TypeOK, NEW c \in Contexts, commit(c)
    PROVE  TypeOK'
<1>1. ROB[c] \in Seq(Entries) /\ ROB[c] # <<>>
  BY DEF TypeOK, commit
<1>2. Tail(ROB[c]) \in Seq(Entries) /\ ROB[c][1] \in Entries
  BY <1>1, TailFacts
<1>3. ROB' \in [Contexts -> Seq(Entries)]
  BY <1>2 DEF TypeOK, commit
<1>4. reg_file' \in [RegTypes \X PhysRegs -> RegStates]
  <2>1. "FREE" \in RegStates /\ "ARCH" \in RegStates
    BY DEF RegStates
  <2> DEFINE freed == [reg_file EXCEPT ![<<ROB[c][1].inst.dest, ROB[c][1].old_physreg>>] = "FREE"]
  <2>2. ROB[c][1].physreg # NoReg =>
            reg_file' = [freed EXCEPT ![<<ROB[c][1].inst.dest, ROB[c][1].physreg>>] = "ARCH"]
    BY DEF commit
  <2>3. ROB[c][1].physreg # NoReg => freed \in [RegTypes \X PhysRegs -> RegStates]
    BY <1>2, <2>1, WriteType DEF TypeOK
  <2> HIDE DEF freed
  <2>4. ROB[c][1].physreg = NoReg => reg_file' = reg_file
    BY DEF commit
  <2>5. ROB[c][1].physreg # NoReg => reg_file' \in [RegTypes \X PhysRegs -> RegStates]
    BY <1>2, <2>1, <2>2, <2>3, WriteType
  <2> QED
    BY <2>4, <2>5 DEF TypeOK
<1>5. UNCHANGED <<loading, arch_regs, created, context_ids, rename_table, spec_mode, stale>>
  BY DEF commit
<1> QED
  BY <1>3, <1>4, <1>5 DEF TypeOK

THEOREM TypeCorrect == Spec => [](TypeOK /\ BankPerPlace)
<1>1. TypeOK /\ BankPerPlace /\ [Next]_vars => TypeOK' /\ BankPerPlace'
  <2> SUFFICES ASSUME TypeOK, BankPerPlace, [Next]_vars
               PROVE  TypeOK' /\ BankPerPlace'
    OBVIOUS
  <2>1. ASSUME UNCHANGED vars
        PROVE  TypeOK' /\ BankPerPlace'
    BY <2>1 DEF vars, TypeOK, BankPerPlace
  <2>2. CASE sim_main
    BY <2>2 DEF sim_main, TypeOK, BankPerPlace
  <2>3. CASE finished
    BY <2>1, <2>3 DEF finished
  <2>4. ASSUME NEW c \in Contexts, sim_load_prog(c) \/ remote_fork(c)
        PROVE  TypeOK' /\ BankPerPlace'
    BY <2>4, AttachType DEF sim_load_prog, remote_fork
  <2>5. ASSUME NEW c \in Contexts, remote_kill(c)
        PROVE  TypeOK' /\ BankPerPlace'
    BY <2>5, RemoteKillType
  <2>6. ASSUME NEW c \in Contexts, commit(c)
        PROVE  TypeOK' /\ BankPerPlace'
    BY <2>6, CommitType DEF commit, BankPerPlace
  <2>7. ASSUME NEW c \in Contexts, NEW i \in DOMAIN ROB[c], writeback(c, i)
        PROVE  TypeOK' /\ BankPerPlace'
    BY <2>7, WritebackType DEF writeback, BankPerPlace
  <2>8. ASSUME NEW c \in Contexts, NEW i \in DOMAIN ROB[c], LoadDone(c, i) \/ StoreDone(c, i)
        PROVE  TypeOK' /\ BankPerPlace'
    <3>1. LSQDone(c, i)
      BY <2>8 DEF LoadDone, StoreDone
    <3> QED
      BY <3>1, LSQDoneType DEF LSQDone, BankPerPlace
  <2>9. ASSUME NEW c \in Contexts, NEW inst \in Insts, NEW m \in BOOLEAN,
               register_rename(c, inst, m)
        PROVE  TypeOK' /\ BankPerPlace'
    BY <2>9, RenameType DEF register_rename, BankPerPlace
  <2>10. ASSUME NEW c \in Contexts, NEW inst \in Insts, NEW n \in 0 .. MaxStale, exit(c, inst, n)
         PROVE  TypeOK' /\ BankPerPlace'
    BY <2>10, ExitType
  <2>11. ASSUME NEW c \in Contexts, NEW d \in Contexts, NEW inst \in Insts, fork(c, d, inst)
         PROVE  TypeOK' /\ BankPerPlace'
    BY <2>11, ForkType
  <2>12. ASSUME NEW c \in Contexts, NEW d \in Contexts, NEW inst \in Insts, kill(c, d, inst)
         PROVE  TypeOK' /\ BankPerPlace'
    BY <2>12, KillType
  <2> QED
    BY <2>1, <2>2, <2>3, <2>4, <2>5, <2>6, <2>7, <2>8, <2>9, <2>10, <2>11, <2>12 DEF Next
<1> QED
  BY InitType, <1>1, PTL DEF Spec

-----------------------------------------------------------------------------
(* Ownership *)

WritesMapped == \A inst \in Insts : Renames(inst) => inst.out \in Mapped

-----------------------------------------------------------------------------
(* Steps of the abstract map *)

LEMMA EmptyROB ==
    ASSUME NEW table, NEW a
    PROVE  /\ Writers(<<>>, a) = {}
           /\ CommittedBank(<<>>, table) = [b \in Mapped |-> table[b]]
           /\ UndoChain(<<>>, table)
<1>1. \A b : Writers(<<>>, b) = {}
  BY DEF Writers
<1> QED
  BY <1>1 DEF CommittedBank, CommittedReg, UndoChain

(* What ejectcontext gives back is the committed map.                      *)
LEMMA EjectBank ==
    ASSUME TypeOK, NEW v \in context_ids, FlushAndEject(v)
    PROVE  [a \in Mapped |-> rename_table'[v][a]] = CommittedMap(v)
<1>1. ROB[v] \in Seq(Entries) /\ NArch \in Nat /\ v \in Contexts
      /\ rename_table \in [Contexts -> [ArchRegs -> PhysRegs]]
  BY SizesAssumption DEF TypeOK
<1>2. rename_table'[v] = TableAfterSquash(ROB[v], rename_table[v], 0)
  BY <1>1 DEF FlushAndEject
<1>3. 0 \in 0 .. Len(ROB[v]) /\ SubSeq(ROB[v], 1, 0) = <<>>
  BY <1>1
<1>4. CommittedBank(SubSeq(ROB[v], 1, 0), TableAfterSquash(ROB[v], rename_table[v], 0))
        = CommittedBank(ROB[v], rename_table[v])
  BY <1>1, <1>3, BankSquash
<1> QED
  BY <1>2, <1>3, <1>4, EmptyROB DEF CommittedMap

LEMMA DetachStep ==
    ASSUME TypeOK, NEW v \in context_ids, FlushAndEject(v),
           \A d \in context_ids : d # v => CommittedMap(d)' = CommittedMap(d)
    PROVE  Arch!Detach(v)
<1>1. arch_regs' = Append(arch_regs, CommittedMap(v)) /\ context_ids' = context_ids \ {v}
  BY EjectBank DEF FlushAndEject
<1>2. [d \in context_ids' |-> CommittedMap(d)']
        = [d \in context_ids' |-> [e \in context_ids |-> CommittedMap(e)][d]]
  BY <1>1
<1> QED
  BY <1>1, <1>2 DEF Arch!Detach

LEMMA AttachStep ==
    ASSUME TypeOK, BankPerPlace, NEW c \in Contexts, NEW fpcr \in PhysRegs,
           addcontext(c, fpcr), ROB'[c] = <<>>,
           \A d \in context_ids : CommittedMap(d)' = CommittedMap(d)
    PROVE  Arch!Attach(c)
<1>1. c \notin context_ids /\ Len(arch_regs) >= 1 /\ arch_regs \in Seq(Banks)
  BY AddType DEF TypeOK
<1>2. arch_regs' = SubSeq(arch_regs, 1, Len(arch_regs) - 1)
      /\ context_ids' = context_ids \cup {c}
  BY DEF addcontext
<1>3. rename_table'[c] = [a \in ArchRegs |->
                            IF a \in Mapped THEN arch_regs[Len(arch_regs)][a] ELSE fpcr]
  BY DEF addcontext, TypeOK
<1>4. Mapped \subseteq ArchRegs
  BY SizesAssumption DEF Mapped, ArchRegs, DFPCR
<1>5. arch_regs[Len(arch_regs)] \in Banks
  BY <1>1
<1>6. CommittedMap(c)' = arch_regs[Len(arch_regs)]
  <2>1. CommittedMap(c)' = [a \in Mapped |-> rename_table'[c][a]]
    BY EmptyROB DEF CommittedMap
  <2>2. [a \in Mapped |-> rename_table'[c][a]] = [a \in Mapped |-> arch_regs[Len(arch_regs)][a]]
    BY <1>3, <1>4
  <2> QED
    BY <1>5, <2>1, <2>2 DEF Banks
<1>7. [d \in context_ids' |-> CommittedMap(d)']
        = [d \in context_ids' |-> IF d = c THEN arch_regs[Len(arch_regs)]
                                  ELSE [e \in context_ids |-> CommittedMap(e)][d]]
  BY <1>1, <1>2, <1>6
<1>8. arch_regs # <<>>
  BY <1>1
<1> QED
  BY <1>1, <1>2, <1>7, <1>8 DEF Arch!Attach

(* Renaming into the reorder buffer and the table of c.                    *)
LEMMA AppendKeeps ==
    ASSUME TypeOK, NEW c \in Contexts, NEW inst \in Insts, NEW m \in BOOLEAN,
           inst.dest # "NONE" => FreeRegs(inst.dest) # {},
           ROB'[c] = Append(ROB[c], NewEntry(c, inst, m)),
           Renames(inst) => rename_table'[c] =
               [rename_table[c] EXCEPT ![inst.out] = find_free_physreg(inst.dest)],
           ~Renames(inst) => rename_table'[c] = rename_table[c]
    PROVE  /\ CommittedMap(c)' = CommittedMap(c)
           /\ UndoChain(ROB[c], rename_table[c]) => UndoChain(ROB'[c], rename_table'[c])
<1> DEFINE e == NewEntry(c, inst, m)
<1>1. ROB[c] \in Seq(Entries) /\ rename_table[c] \in [ArchRegs -> PhysRegs]
  BY DEF TypeOK
<1>2. /\ e \in Entries /\ e.inst = inst
      /\ Renames(inst) => /\ e.physreg = find_free_physreg(inst.dest)
                          /\ e.old_physreg = rename_table[c][inst.out]
                          /\ e.physreg # NoReg
      /\ ~Renames(inst) => e.physreg = NoReg
  <2>1. NewEntry(c, inst, m) \in Entries
    BY NewEntryType, ZenonT(60)
  <2>5. NewEntry(c, inst, m).inst = inst
    BY DEF NewEntry
  <2>2. Renames(inst) => find_free_physreg(inst.dest) \in PhysRegs
    BY FreeFound, SizesAssumption DEF Renames
  <2>3. \A r \in PhysRegs : r # NoReg
    BY DEF PhysRegs, NoReg
  <2>4. /\ e.physreg = IF Renames(inst) THEN find_free_physreg(inst.dest) ELSE NoReg
        /\ e.old_physreg = IF Renames(inst) THEN rename_table[c][inst.out] ELSE NoReg
    BY DEF NewEntry
  <2> QED
    BY <2>1, <2>2, <2>3, <2>4, <2>5
<1>3. inst.out \in ArchRegs
  BY InstField
<1> HIDE DEF e
<1>4. /\ e.physreg # NoReg => /\ e.old_physreg = rename_table[c][e.inst.out]
                              /\ rename_table'[c][e.inst.out] = e.physreg
      /\ \A a \in ArchRegs : e.physreg = NoReg \/ a # e.inst.out =>
            rename_table'[c][a] = rename_table[c][a]
  BY <1>1, <1>2, <1>3
<1>5. ROB'[c] = Append(ROB[c], e)
  BY DEF e
<1>6. Mapped \subseteq ArchRegs
  BY SizesAssumption DEF Mapped, ArchRegs, DFPCR
<1>7. CommittedBank(Append(ROB[c], e), rename_table'[c]) = CommittedBank(ROB[c], rename_table[c])
  BY <1>1, <1>2, <1>4, <1>6, BankAppend
<1>8. UndoChain(ROB[c], rename_table[c]) => UndoChain(Append(ROB[c], e), rename_table'[c])
  BY <1>1, <1>2, <1>4, ChainAppend
<1> QED
  BY <1>5, <1>7, <1>8 DEF CommittedMap

LEMMA SameKeeps ==
    ASSUME NEW d, ROB'[d] = ROB[d], rename_table'[d] = rename_table[d]
    PROVE  /\ CommittedMap(d)' = CommittedMap(d)
           /\ UndoChain(ROB[d], rename_table[d]) => UndoChain(ROB'[d], rename_table'[d])
BY DEF CommittedMap

LEMMA WritebackKeeps ==
    ASSUME TypeOK, NEW c \in Contexts, NEW i \in DOMAIN ROB[c], writeback(c, i)
    PROVE  /\ CommittedMap(c)' = CommittedMap(c)
           /\ UndoChain(ROB[c], rename_table[c]) => UndoChain(ROB'[c], rename_table'[c])
<1> DEFINE n == IF ROB[c][i].recover_inst THEN i ELSE Len(ROB[c])
           kept == SubSeq(ROB[c], 1, n)
           new == [kept EXCEPT ![i].completed = TRUE]
<1>1. ROB[c] \in Seq(Entries) /\ rename_table[c] \in [ArchRegs -> PhysRegs] /\ NArch \in Nat
  BY SizesAssumption DEF TypeOK
<1>2. /\ n \in 0 .. Len(ROB[c]) /\ kept \in Seq(Entries) /\ new \in Seq(Entries)
      /\ SameMappings(kept, new) /\ ROB' = [ROB EXCEPT ![c] = new]
  BY WritebackROB
<1>3. ROB'[c] = new
  BY <1>2 DEF TypeOK
<1>4. /\ CommittedBank(kept, rename_table'[c]) = CommittedBank(ROB[c], rename_table[c])
      /\ UndoChain(ROB[c], rename_table[c]) => UndoChain(kept, rename_table'[c])
  <2>1. CASE ROB[c][i].recover_inst
    <3>1. rename_table'[c] = TableAfterSquash(ROB[c], rename_table[c], n)
      BY <2>1 DEF writeback, TypeOK
    <3> HIDE DEF n
    <3> QED
      BY <1>1, <1>2, <3>1, BankSquash, ChainSquash
  <2>2. CASE ~ROB[c][i].recover_inst
    <3>1. rename_table'[c] = rename_table[c]
      BY <2>2 DEF writeback
    <3>2. kept = ROB[c]
      BY <1>1, <2>2
    <3> QED
      BY <3>1, <3>2
  <2> QED
    BY <2>1, <2>2
<1> HIDE DEF kept, new, n
<1>5. /\ CommittedBank(new, rename_table'[c]) = CommittedBank(kept, rename_table'[c])
      /\ UndoChain(kept, rename_table'[c]) => UndoChain(new, rename_table'[c])
  BY <1>2, BankSame, ChainSame
<1> QED
  BY <1>3, <1>4, <1>5 DEF CommittedMap

LEMMA LSQDoneKeeps ==
    ASSUME TypeOK, NEW c \in Contexts, NEW i \in DOMAIN ROB[c], LSQDone(c, i)
    PROVE  /\ CommittedMap(c)' = CommittedMap(c)
           /\ UndoChain(ROB[c], rename_table[c]) => UndoChain(ROB'[c], rename_table'[c])
<1> DEFINE new == [ROB[c] EXCEPT ![i].mem = "done"]
<1>1. ROB'[c] = new /\ rename_table'[c] = rename_table[c]
  BY DEF LSQDone, TypeOK
<1>2. ROB[c] \in Seq(Entries) /\ new \in Seq(Entries) /\ SameMappings(ROB[c], new)
  <2>1. ROB[c] \in Seq(Entries)
    BY DEF TypeOK
  <2> QED
    BY <2>1, CompleteType
<1> HIDE DEF new
<1>3. CommittedBank(new, rename_table[c]) = CommittedBank(ROB[c], rename_table[c])
      /\ (UndoChain(ROB[c], rename_table[c]) => UndoChain(new, rename_table[c]))
  BY <1>2, BankSame, ChainSame
<1> QED
  BY <1>1, <1>3 DEF CommittedMap

LEMMA ArchUnchanged ==
    ASSUME context_ids' = context_ids, arch_regs' = arch_regs,
           \A d \in context_ids : CommittedMap(d)' = CommittedMap(d)
    PROVE  UNCHANGED Arch!vars
BY DEF Arch!vars

(* The part of the invariant that says who is where.                       *)
Placed == TypeOK /\ BankPerPlace /\ Quiet /\ UndoChains

LEMMA RenamePlaced ==
    ASSUME Placed, NEW c \in Contexts, NEW inst \in Insts, NEW m \in BOOLEAN,
           register_rename(c, inst, m)
    PROVE  Quiet' /\ UndoChains' /\ UNCHANGED Arch!vars
<1>1. /\ TypeOK /\ Quiet /\ UndoChains /\ context_ids \subseteq created
      /\ created \subseteq Contexts /\ stale \in [Contexts -> 0 .. MaxStale]
      /\ ROB \in [Contexts -> Seq(Entries)]
      /\ rename_table \in [Contexts -> [ArchRegs -> PhysRegs]]
  BY DEF Placed, TypeOK
<1>2. CanRename(c, inst)
  BY DEF register_rename
<1>3. /\ context_ids' = context_ids /\ arch_regs' = arch_regs /\ created' = created
      /\ loading' = loading
      /\ ROB' = [ROB EXCEPT ![c] = Append(@, NewEntry(c, inst, m))]
      /\ stale' = [stale EXCEPT ![c] = IF c \in context_ids THEN @ ELSE @ - 1]
      /\ Renames(inst) => rename_table' =
            [rename_table EXCEPT ![c][inst.out] = find_free_physreg(inst.dest)]
      /\ ~Renames(inst) => rename_table' = rename_table
  BY DEF register_rename
<1>4. ~loading /\ c \in created
  BY <1>1, <1>2 DEF CanRename, Quiet
<1>5. Quiet'
  BY <1>1, <1>3, <1>4 DEF Quiet
<1>6. \A d \in Contexts : d # c => ROB'[d] = ROB[d] /\ rename_table'[d] = rename_table[d]
  BY <1>1, <1>3
<1>7. /\ CommittedMap(c)' = CommittedMap(c)
      /\ UndoChain(ROB[c], rename_table[c]) => UndoChain(ROB'[c], rename_table'[c])
  <2>1. /\ ROB'[c] = Append(ROB[c], NewEntry(c, inst, m))
        /\ ~Renames(inst) => rename_table'[c] = rename_table[c]
    BY <1>1, <1>3
  <2>2. Renames(inst) => rename_table'[c] =
            [rename_table[c] EXCEPT ![inst.out] = find_free_physreg(inst.dest)]
    BY <1>1, <1>3
  <2>3. inst.dest # "NONE" => FreeRegs(inst.dest) # {}
    BY <1>2 DEF CanRename
  <2> QED
    BY <1>1, <2>1, <2>2, <2>3, AppendKeeps
<1>8. \A d \in context_ids :
        /\ CommittedMap(d)' = CommittedMap(d)
        /\ UndoChain(ROB[d], rename_table[d]) => UndoChain(ROB'[d], rename_table'[d])
  BY <1>1, <1>6, <1>7, SameKeeps
<1>9. UndoChains'
  BY <1>1, <1>3, <1>8 DEF UndoChains
<1> QED
  BY <1>3, <1>5, <1>8, <1>9, ArchUnchanged

LEMMA WritebackPlaced ==
    ASSUME Placed, NEW c \in Contexts, NEW i \in DOMAIN ROB[c], writeback(c, i)
    PROVE  Quiet' /\ UndoChains' /\ UNCHANGED Arch!vars
<1>1. /\ TypeOK /\ Quiet /\ UndoChains /\ context_ids \subseteq created
      /\ created \subseteq Contexts
      /\ ROB \in [Contexts -> Seq(Entries)]
      /\ rename_table \in [Contexts -> [ArchRegs -> PhysRegs]]
  BY DEF Placed, TypeOK
<1>2. /\ context_ids' = context_ids /\ arch_regs' = arch_regs /\ created' = created
      /\ loading' = loading /\ stale' = stale /\ c \in context_ids
  BY DEF writeback
<1>3. \A d \in Contexts : d # c => ROB'[d] = ROB[d] /\ rename_table'[d] = rename_table[d]
  BY <1>1 DEF writeback
<1>4. ROB[c] # <<>>
  BY <1>1
<1>5. Quiet'
  BY <1>1, <1>2, <1>3, <1>4 DEF Quiet
<1>6. \A d \in context_ids :
        /\ CommittedMap(d)' = CommittedMap(d)
        /\ UndoChain(ROB[d], rename_table[d]) => UndoChain(ROB'[d], rename_table'[d])
  BY <1>1, <1>3, SameKeeps, WritebackKeeps
<1>7. UndoChains'
  BY <1>1, <1>2, <1>6 DEF UndoChains
<1> QED
  BY <1>2, <1>5, <1>6, <1>7, ArchUnchanged

LEMMA LSQDonePlaced ==
    ASSUME Placed, NEW c \in Contexts, NEW i \in DOMAIN ROB[c], LSQDone(c, i), c \in context_ids
    PROVE  Quiet' /\ UndoChains' /\ UNCHANGED Arch!vars
<1>1. /\ TypeOK /\ Quiet /\ UndoChains /\ context_ids \subseteq created
      /\ created \subseteq Contexts
      /\ ROB \in [Contexts -> Seq(Entries)]
  BY DEF Placed, TypeOK
<1>2. /\ context_ids' = context_ids /\ arch_regs' = arch_regs /\ created' = created
      /\ loading' = loading /\ stale' = stale /\ rename_table' = rename_table
  BY DEF LSQDone
<1>3. \A d \in Contexts : d # c => ROB'[d] = ROB[d]
  BY <1>1 DEF LSQDone
<1>4. ROB[c] # <<>>
  BY <1>1
<1>5. Quiet'
  BY <1>1, <1>2, <1>3, <1>4 DEF Quiet
<1>6. \A d \in context_ids :
        /\ CommittedMap(d)' = CommittedMap(d)
        /\ UndoChain(ROB[d], rename_table[d]) => UndoChain(ROB'[d], rename_table'[d])
  BY <1>1, <1>2, <1>3, SameKeeps, LSQDoneKeeps
<1>7. UndoChains'
  BY <1>1, <1>2, <1>6 DEF UndoChains
<1> QED
  BY <1>2, <1>5, <1>6, <1>7, ArchUnchanged

LEMMA AttachPlaced ==
    ASSUME Placed, NEW c \in Contexts, Attach(c)
    PROVE  Quiet' /\ UndoChains' /\ Arch!Attach(c)
<1>1. /\ TypeOK /\ BankPerPlace /\ Quiet /\ UndoChains /\ context_ids \subseteq created
      /\ created \subseteq Contexts
      /\ rename_table \in [Contexts -> [ArchRegs -> PhysRegs]]
  BY DEF Placed, TypeOK
<1>2. /\ c \notin created /\ created' = created \cup {c} /\ context_ids' = context_ids \cup {c}
      /\ addcontext(c, rename_table[c][DFPCR])
      /\ ROB' = ROB /\ stale' = stale /\ loading' = loading
      /\ \A d \in Contexts : d # c => rename_table'[d] = rename_table[d]
  BY <1>1 DEF Attach, addcontext
<1>3. Quiet'
  BY <1>1, <1>2 DEF Quiet
<1>4. ROB'[c] = <<>>
  BY <1>1, <1>2 DEF Quiet
<1>5. \A d \in context_ids :
        /\ CommittedMap(d)' = CommittedMap(d)
        /\ UndoChain(ROB[d], rename_table[d]) => UndoChain(ROB'[d], rename_table'[d])
  BY <1>1, <1>2, SameKeeps
<1>6. UndoChains'
  BY <1>1, <1>2, <1>4, <1>5, EmptyROB DEF UndoChains
<1>7. rename_table[c][DFPCR] \in PhysRegs
  BY <1>1, SizesAssumption DEF ArchRegs, DFPCR
<1>8. Arch!Attach(c)
  BY <1>1, <1>2, <1>4, <1>5, <1>7, AttachStep
<1> QED
  BY <1>3, <1>6, <1>8

(* The entry of a trap keeps the mappings of its context.                  *)
LEMMA TrapKeeps ==
    ASSUME TypeOK, NEW c \in Contexts, NEW inst \in Insts, inst.kind = "trap",
           CanRename(c, inst), ROB'[c] = Append(ROB[c], NewEntry(c, inst, FALSE)),
           rename_table'[c] = rename_table[c]
    PROVE  /\ CommittedMap(c)' = CommittedMap(c)
           /\ UndoChain(ROB[c], rename_table[c]) => UndoChain(ROB'[c], rename_table'[c])
<1>1. ~Renames(inst) /\ inst.dest = "NONE"
  BY InstsAssumption DEF Renames
<1> QED
  BY <1>1, AppendKeeps

LEMMA ForkPlaced ==
    ASSUME Placed, NEW p \in Contexts, NEW c \in Contexts, NEW inst \in Insts,
           fork(p, c, inst)
    PROVE  Quiet' /\ UndoChains' /\ Arch!Attach(c)
<1>1. /\ TypeOK /\ BankPerPlace /\ Quiet /\ UndoChains /\ context_ids \subseteq created
      /\ created \subseteq Contexts /\ ROB \in [Contexts -> Seq(Entries)]
      /\ rename_table \in [Contexts -> [ArchRegs -> PhysRegs]]
  BY DEF Placed, TypeOK
<1>2. /\ c \notin created /\ created' = created \cup {c} /\ context_ids' = context_ids \cup {c}
      /\ addcontext(c, rename_table[p][DFPCR])
      /\ CanRename(p, inst) /\ inst.kind = "trap"
      /\ ROB' = [ROB EXCEPT ![p] = Append(@, NewEntry(p, inst, FALSE))]
      /\ stale' = stale /\ loading' = loading
      /\ \A d \in Contexts : d # c => rename_table'[d] = rename_table[d]
  BY <1>1 DEF fork, addcontext
<1>3. ~loading /\ p \in created
  BY <1>1, <1>2 DEF CanRename, Quiet, TypeOK
<1>4. Quiet'
  BY <1>1, <1>2, <1>3 DEF Quiet
<1>5. ROB'[c] = <<>>
  BY <1>1, <1>2, <1>3 DEF Quiet
<1>6. /\ CommittedMap(p)' = CommittedMap(p)
      /\ UndoChain(ROB[p], rename_table[p]) => UndoChain(ROB'[p], rename_table'[p])
  <2>1. ROB'[p] = Append(ROB[p], NewEntry(p, inst, FALSE)) /\ rename_table'[p] = rename_table[p]
    BY <1>1, <1>2, <1>3
  <2> QED
    BY <1>1, <1>2, <2>1, TrapKeeps
<1>7. \A d \in context_ids :
        /\ CommittedMap(d)' = CommittedMap(d)
        /\ UndoChain(ROB[d], rename_table[d]) => UndoChain(ROB'[d], rename_table'[d])
  <2>1. \A d \in context_ids : d # p => ROB'[d] = ROB[d] /\ rename_table'[d] = rename_table[d]
    BY <1>1, <1>2
  <2> QED
    BY <1>6, <2>1, SameKeeps
<1>8. UndoChains'
  <2>1. UndoChain(ROB'[c], rename_table'[c])
    BY <1>5, EmptyROB
  <2>2. \A d \in context_ids : UndoChain(ROB'[d], rename_table'[d])
    BY <1>1, <1>7 DEF UndoChains
  <2>3. \A d \in context_ids' : d = c \/ d \in context_ids
    BY <1>2
  <2> QED
    BY <2>1, <2>2, <2>3 DEF UndoChains
<1>9. rename_table[p][DFPCR] \in PhysRegs
  BY <1>1, SizesAssumption DEF ArchRegs, DFPCR
<1>10. Arch!Attach(c)
  BY <1>1, <1>2, <1>5, <1>7, <1>9, AttachStep
<1> QED
  BY <1>4, <1>8, <1>10

LEMMA KillPlaced ==
    ASSUME Placed, NEW k \in Contexts, NEW v \in Contexts, NEW inst \in Insts,
           kill(k, v, inst)
    PROVE  Quiet' /\ UndoChains' /\ Arch!Detach(v)
<1>1. /\ TypeOK /\ Quiet /\ UndoChains /\ context_ids \subseteq created
      /\ created \subseteq Contexts /\ ROB \in [Contexts -> Seq(Entries)]
      /\ rename_table \in [Contexts -> [ArchRegs -> PhysRegs]]
  BY DEF Placed, TypeOK
<1>2. /\ k # v /\ v \in context_ids /\ CanRename(k, inst) /\ inst.kind = "trap"
      /\ FlushAndEject(v) /\ context_ids' = context_ids \ {v}
      /\ ROB' = [ROB EXCEPT ![v] = <<>>, ![k] = Append(@, NewEntry(k, inst, FALSE))]
      /\ loading' = loading /\ created' = created /\ stale' = stale
      /\ \A d \in Contexts : d # v => rename_table'[d] = rename_table[d]
  BY <1>1 DEF kill, FlushAndEject
<1>3. ~loading /\ k \in created
  BY <1>1, <1>2 DEF CanRename, Quiet, TypeOK
<1>4. ROB'[v] = <<>> /\ ROB'[k] = Append(ROB[k], NewEntry(k, inst, FALSE))
      /\ \A d \in Contexts : d # v /\ d # k => ROB'[d] = ROB[d]
  BY <1>1, <1>2
<1>5. Quiet'
  BY <1>1, <1>2, <1>3, <1>4 DEF Quiet
<1>6. /\ CommittedMap(k)' = CommittedMap(k)
      /\ UndoChain(ROB[k], rename_table[k]) => UndoChain(ROB'[k], rename_table'[k])
  BY <1>1, <1>2, <1>4, TrapKeeps
<1>7. \A d \in context_ids : d # v =>
        /\ CommittedMap(d)' = CommittedMap(d)
        /\ UndoChain(ROB[d], rename_table[d]) => UndoChain(ROB'[d], rename_table'[d])
  <2>1. \A d \in context_ids : d # v /\ d # k =>
            ROB'[d] = ROB[d] /\ rename_table'[d] = rename_table[d]
    BY <1>1, <1>2, <1>4
  <2> QED
    BY <1>6, <2>1, SameKeeps
<1>8. UndoChains'
  BY <1>1, <1>2, <1>7 DEF UndoChains
<1>9. Arch!Detach(v)
  BY <1>1, <1>2, <1>7, DetachStep
<1> QED
  BY <1>5, <1>8, <1>9

LEMMA RemoteKillPlaced ==
    ASSUME Placed, NEW v \in Contexts, remote_kill(v)
    PROVE  Quiet' /\ UndoChains' /\ Arch!Detach(v)
<1>1. /\ TypeOK /\ Quiet /\ UndoChains /\ context_ids \subseteq created
      /\ created \subseteq Contexts /\ ROB \in [Contexts -> Seq(Entries)]
      /\ rename_table \in [Contexts -> [ArchRegs -> PhysRegs]]
  BY DEF Placed, TypeOK
<1>2. /\ v \in context_ids /\ FlushAndEject(v) /\ context_ids' = context_ids \ {v}
      /\ ROB' = [ROB EXCEPT ![v] = <<>>] /\ ~loading
      /\ loading' = loading /\ created' = created /\ stale' = stale
      /\ \A d \in Contexts : d # v => rename_table'[d] = rename_table[d]
  BY <1>1 DEF remote_kill, FlushAndEject
<1>3. \A d \in Contexts : d # v => ROB'[d] = ROB[d]
  BY <1>1, <1>2
<1>4. Quiet'
  BY <1>1, <1>2, <1>3 DEF Quiet
<1>5. \A d \in context_ids : d # v =>
        /\ CommittedMap(d)' = CommittedMap(d)
        /\ UndoChain(ROB[d], rename_table[d]) => UndoChain(ROB'[d], rename_table'[d])
  BY <1>1, <1>2, <1>3, SameKeeps
<1>6. UndoChains'
  BY <1>1, <1>2, <1>5 DEF UndoChains
<1>7. Arch!Detach(v)
  BY <1>1, <1>2, <1>5, DetachStep
<1> QED
  BY <1>4, <1>6, <1>7

LEMMA ExitPlaced ==
    ASSUME Placed, NEW c \in Contexts, NEW inst \in Insts, NEW n \in 0 .. MaxStale,
           exit(c, inst, n)
    PROVE  Quiet' /\ UndoChains' /\ Arch!Detach(c)
<1>1. /\ TypeOK /\ Quiet /\ UndoChains /\ context_ids \subseteq created
      /\ created \subseteq Contexts /\ ROB \in [Contexts -> Seq(Entries)]
      /\ rename_table \in [Contexts -> [ArchRegs -> PhysRegs]]
      /\ stale \in [Contexts -> 0 .. MaxStale]
  BY DEF Placed, TypeOK
<1>2. /\ c \in context_ids /\ FlushAndEject(c) /\ context_ids' = context_ids \ {c}
      /\ CanRename(c, inst)
      /\ ROB' = [ROB EXCEPT ![c] = Append(@, NewEntry(c, inst, FALSE))]
      /\ stale' = [stale EXCEPT ![c] = n]
      /\ loading' = loading /\ created' = created
      /\ \A d \in Contexts : d # c => rename_table'[d] = rename_table[d]
  BY <1>1 DEF exit, FlushAndEject
<1>3. ~loading
  BY <1>2 DEF CanRename
<1>4. \A d \in Contexts : d # c => ROB'[d] = ROB[d] /\ stale'[d] = stale[d]
  BY <1>1, <1>2
<1>5. Quiet'
  BY <1>1, <1>2, <1>3, <1>4 DEF Quiet
<1>6. \A d \in context_ids : d # c =>
        /\ CommittedMap(d)' = CommittedMap(d)
        /\ UndoChain(ROB[d], rename_table[d]) => UndoChain(ROB'[d], rename_table'[d])
  BY <1>1, <1>2, <1>4, SameKeeps
<1>7. UndoChains'
  BY <1>1, <1>2, <1>6 DEF UndoChains
<1>8. Arch!Detach(c)
  BY <1>1, <1>2, <1>6, DetachStep
<1> QED
  BY <1>5, <1>7, <1>8

(* A commit retires one mapping of its context; this needs the ownership   *)
(* of the register that becomes architectural.                             *)
LEMMA CommitPlaced ==
    ASSUME Placed, NEW c \in Contexts, commit(c)
    PROVE  /\ Quiet' /\ UndoChains'
           /\ context_ids' = context_ids /\ arch_regs' = arch_regs
           /\ \A d \in context_ids : d # c => CommittedMap(d)' = CommittedMap(d)
           /\ \A a \in Mapped : CommittedMap(c)'[a] =
                IF ROB[c][1].physreg # NoReg /\ ROB[c][1].inst.out = a
                THEN ROB[c][1].physreg ELSE CommittedMap(c)[a]
<1>1. /\ TypeOK /\ Quiet /\ UndoChains /\ context_ids \subseteq created
      /\ created \subseteq Contexts /\ ROB \in [Contexts -> Seq(Entries)]
      /\ NArch \in Nat
  BY SizesAssumption DEF Placed, TypeOK
<1>2. /\ c \in context_ids /\ ROB[c] # <<>> /\ ROB' = [ROB EXCEPT ![c] = Tail(@)]
      /\ UNCHANGED <<loading, arch_regs, created, context_ids, rename_table, stale>>
  BY DEF commit
<1>3. ROB'[c] = Tail(ROB[c]) /\ \A d \in Contexts : d # c => ROB'[d] = ROB[d]
  BY <1>1, <1>2
<1>4. Quiet'
  BY <1>1, <1>2, <1>3 DEF Quiet
<1>5. UndoChain(ROB[c], rename_table[c]) /\ ROB[c] \in Seq(Entries)
  BY <1>1, <1>2 DEF UndoChains
<1>6. UndoChain(ROB'[c], rename_table'[c])
  BY <1>2, <1>3, <1>5, ChainTail
<1>7. \A d \in context_ids : d # c =>
        /\ CommittedMap(d)' = CommittedMap(d)
        /\ UndoChain(ROB[d], rename_table[d]) => UndoChain(ROB'[d], rename_table'[d])
  BY <1>1, <1>2, <1>3, SameKeeps
<1>8. UndoChains'
  BY <1>1, <1>2, <1>6, <1>7 DEF UndoChains
<1>9. \A a \in Mapped : CommittedBank(Tail(ROB[c]), rename_table[c])[a] =
        IF ROB[c][1].physreg # NoReg /\ ROB[c][1].inst.out = a
        THEN ROB[c][1].physreg ELSE CommittedBank(ROB[c], rename_table[c])[a]
  BY <1>1, <1>2, <1>5, BankTail
<1>10. \A a \in Mapped : CommittedMap(c)'[a] =
        IF ROB[c][1].physreg # NoReg /\ ROB[c][1].inst.out = a
        THEN ROB[c][1].physreg ELSE CommittedMap(c)[a]
  BY <1>2, <1>3, <1>9 DEF CommittedMap
<1> QED
  BY <1>2, <1>4, <1>7, <1>8, <1>10

-----------------------------------------------------------------------------
(* Banks stay apart and architectural *)

ArchStays == \A t \in RegTypes, r \in PhysRegs :
                reg_file[<<t, r>>] = "ARCH" => reg_file'[<<t, r>>] = "ARCH"

BanksOwned == BanksApart /\ BanksArch

LEMMA MapType ==
    ASSUME TypeOK
    PROVE  /\ \A c \in Contexts : CommittedMap(c) \in Banks
           /\ \A k \in DOMAIN arch_regs : arch_regs[k] \in Banks
           /\ \A b \in Banks, a \in Mapped : b[a] \in PhysRegs /\ TypeOf(a) \in RegTypes
<1>1. \A c \in Contexts : CommittedMap(c) \in Banks
  BY SizesAssumption, BankType DEF TypeOK, CommittedMap
<1> QED
  BY <1>1 DEF TypeOK, Banks, TypeOf, RegTypes

LEMMA BanksUnchanged ==
    ASSUME TypeOK, BanksOwned, UNCHANGED Arch!vars, ArchStays
    PROVE  BanksOwned'
<1>1. /\ context_ids' = context_ids /\ arch_regs' = arch_regs
      /\ [d \in context_ids' |-> CommittedMap(d)'] = [d \in context_ids |-> CommittedMap(d)]
  BY DEF Arch!vars
<1>2. \A d \in context_ids : CommittedMap(d)' = CommittedMap(d)
  BY <1>1
<1>3. BanksApart'
  BY <1>1, <1>2 DEF BanksOwned, BanksApart
<1>4. context_ids \subseteq Contexts
  BY DEF TypeOK
<1>5. BanksArch'
  BY <1>1, <1>2, <1>4, MapType DEF BanksOwned, BanksArch, ArchStays
<1> QED
  BY <1>3, <1>5 DEF BanksOwned

LEMMA BanksAttach ==
    ASSUME TypeOK, BanksOwned, NEW c \in Contexts, Arch!Attach(c), ArchStays
    PROVE  BanksOwned'
<1> DEFINE n == Len(arch_regs)
<1>1. /\ c \notin context_ids /\ arch_regs # <<>> /\ context_ids' = context_ids \cup {c}
      /\ arch_regs' = SubSeq(arch_regs, 1, n - 1)
      /\ [d \in context_ids' |-> CommittedMap(d)'] =
            [d \in context_ids' |-> IF d = c THEN arch_regs[n]
                                    ELSE [e \in context_ids |-> CommittedMap(e)][d]]
  BY DEF Arch!Attach
<1>2. CommittedMap(c)' = arch_regs[n] /\ \A d \in context_ids : CommittedMap(d)' = CommittedMap(d)
  BY <1>1
<1>3. /\ n \in DOMAIN arch_regs /\ n \notin DOMAIN arch_regs'
      /\ DOMAIN arch_regs' \subseteq DOMAIN arch_regs
      /\ \A k \in DOMAIN arch_regs' : arch_regs'[k] = arch_regs[k]
  <2>1. arch_regs \in Seq(Banks) /\ n \in Nat /\ n - 1 \in 0 .. n
    BY <1>1 DEF TypeOK
  <2>2. DOMAIN arch_regs' = 1 .. n - 1 /\ \A k \in 1 .. n - 1 : arch_regs'[k] = arch_regs[k]
    BY <1>1, <2>1, PrefixFacts
  <2> QED
    BY <2>1, <2>2
<1> HIDE DEF n
<1>4. BanksApart'
  <2>1. \A k, l \in DOMAIN arch_regs' : \A a1, a2 \in Mapped :
          Clash(arch_regs'[k], a1, arch_regs'[l], a2) => k = l /\ a1 = a2
    BY <1>3 DEF BanksOwned, BanksApart
  <2>2. \A d \in context_ids : \A a1, a2 \in Mapped :
          ~Clash(arch_regs[n], a1, CommittedMap(d), a2) /\ ~Clash(CommittedMap(d), a1, arch_regs[n], a2)
    BY <1>3 DEF BanksOwned, BanksApart, Clash
  <2>3. \A a1, a2 \in Mapped : Clash(arch_regs[n], a1, arch_regs[n], a2) => a1 = a2
    BY <1>3 DEF BanksOwned, BanksApart
  <2>4. \A d, e \in context_ids' : \A a1, a2 \in Mapped :
          Clash(CommittedMap(d)', a1, CommittedMap(e)', a2) => d = e /\ a1 = a2
    BY <1>1, <1>2, <2>2, <2>3 DEF BanksOwned, BanksApart
  <2>5. \A k \in DOMAIN arch_regs' : \A d \in context_ids' : \A a1, a2 \in Mapped :
          ~Clash(arch_regs'[k], a1, CommittedMap(d)', a2)
    BY <1>1, <1>2, <1>3 DEF BanksOwned, BanksApart
  <2> QED
    BY <2>1, <2>4, <2>5 DEF BanksApart
<1>5. BanksArch'
  <2>1. context_ids \subseteq Contexts
    BY DEF TypeOK
  <2>2. \A k \in DOMAIN arch_regs : \A a \in Mapped :
          reg_file'[<<TypeOf(a), arch_regs[k][a]>>] = "ARCH"
    BY MapType DEF BanksOwned, BanksArch, ArchStays
  <2>3. \A d \in context_ids : \A a \in Mapped :
          reg_file'[<<TypeOf(a), CommittedMap(d)[a]>>] = "ARCH"
    BY <2>1, MapType DEF BanksOwned, BanksArch, ArchStays
  <2>4. \A k \in DOMAIN arch_regs' : \A a \in Mapped :
          reg_file'[<<TypeOf(a), arch_regs'[k][a]>>] = "ARCH"
    BY <1>3, <2>2
  <2>5. \A d \in context_ids' : \A a \in Mapped :
          reg_file'[<<TypeOf(a), CommittedMap(d)'[a]>>] = "ARCH"
    BY <1>1, <1>2, <1>3, <2>2, <2>3
  <2> QED
    BY <2>4, <2>5 DEF BanksArch
<1> QED
  BY <1>4, <1>5 DEF BanksOwned

LEMMA BanksDetach ==
    ASSUME TypeOK, BanksOwned, NEW v \in Contexts, Arch!Detach(v), ArchStays
    PROVE  BanksOwned'
<1> DEFINE n == Len(arch_regs) + 1
<1>1. /\ v \in context_ids /\ context_ids' = context_ids \ {v}
      /\ arch_regs' = Append(arch_regs, [e \in context_ids |-> CommittedMap(e)][v])
      /\ [d \in context_ids' |-> CommittedMap(d)'] =
            [d \in context_ids' |-> [e \in context_ids |-> CommittedMap(e)][d]]
  BY DEF Arch!Detach
<1>2. \A d \in context_ids' : CommittedMap(d)' = CommittedMap(d) /\ d \in context_ids /\ d # v
  BY <1>1
<1>3. /\ DOMAIN arch_regs' = DOMAIN arch_regs \cup {n} /\ n \notin DOMAIN arch_regs
      /\ \A k \in DOMAIN arch_regs : arch_regs'[k] = arch_regs[k]
      /\ arch_regs'[n] = CommittedMap(v)
  <2>1. arch_regs \in Seq(Banks) /\ CommittedMap(v) \in Banks
        /\ arch_regs' = Append(arch_regs, CommittedMap(v))
    BY <1>1, MapType DEF TypeOK
  <2> QED
    BY <2>1
<1> HIDE DEF n
<1>4. BanksApart'
  <2>1. \A k, l \in DOMAIN arch_regs' : \A a1, a2 \in Mapped :
          Clash(arch_regs'[k], a1, arch_regs'[l], a2) => k = l /\ a1 = a2
    <3>1. \A k \in DOMAIN arch_regs : \A a1, a2 \in Mapped :
            /\ ~Clash(arch_regs[k], a1, CommittedMap(v), a2)
            /\ ~Clash(CommittedMap(v), a1, arch_regs[k], a2)
      BY <1>1 DEF BanksOwned, BanksApart, Clash
    <3>2. \A a1, a2 \in Mapped : Clash(CommittedMap(v), a1, CommittedMap(v), a2) => a1 = a2
      BY <1>1 DEF BanksOwned, BanksApart
    <3> QED
      BY <1>3, <3>1, <3>2 DEF BanksOwned, BanksApart
  <2>2. \A d, e \in context_ids' : \A a1, a2 \in Mapped :
          Clash(CommittedMap(d)', a1, CommittedMap(e)', a2) => d = e /\ a1 = a2
    BY <1>2 DEF BanksOwned, BanksApart
  <2>3. \A k \in DOMAIN arch_regs' : \A d \in context_ids' : \A a1, a2 \in Mapped :
          ~Clash(arch_regs'[k], a1, CommittedMap(d)', a2)
    BY <1>1, <1>2, <1>3 DEF BanksOwned, BanksApart
  <2> QED
    BY <2>1, <2>2, <2>3 DEF BanksApart
<1>5. BanksArch'
  <2>1. context_ids \subseteq Contexts
    BY DEF TypeOK
  <2>2. \A k \in DOMAIN arch_regs : \A a \in Mapped :
          reg_file'[<<TypeOf(a), arch_regs[k][a]>>] = "ARCH"
    BY MapType DEF BanksOwned, BanksArch, ArchStays
  <2>3. \A d \in context_ids : \A a \in Mapped :
          reg_file'[<<TypeOf(a), CommittedMap(d)[a]>>] = "ARCH"
    BY <2>1, MapType DEF BanksOwned, BanksArch, ArchStays
  <2> QED
    BY <1>1, <1>2, <1>3, <2>2, <2>3 DEF BanksArch
<1> QED
  BY <1>4, <1>5 DEF BanksOwned

(* The head of a reorder buffer is the oldest writer of its register.      *)
LEMMA HeadMapping ==
    ASSUME NEW rob \in Seq(Entries), rob # <<>>, NEW table,
           rob[1].physreg # NoReg, rob[1].inst.out \in Mapped
    PROVE  CommittedBank(rob, table)[rob[1].inst.out] = rob[1].old_physreg
<1>1. 1 \in DOMAIN rob /\ 1 \in Writers(rob, rob[1].inst.out)
  BY DEF Writers
<1>2. \A j \in Writers(rob, rob[1].inst.out) : 1 <= j
  BY DEF Writers
<1> QED
  BY <1>1, <1>2, BankOfOldest

LEMMA BanksCommit ==
    ASSUME Placed, SingleOwner, WritesMapped, NEW c \in Contexts, commit(c)
    PROVE  /\ BanksOwned'
           /\ UNCHANGED Arch!vars \/ \E a \in Mapped, r \in PhysRegs : Arch!Retire(c, a, r)
<1> DEFINE e == ROB[c][1]
           t == e.inst.dest
           o == e.inst.out
           p == e.physreg
           q == e.old_physreg
<1>1. /\ TypeOK /\ BanksOwned /\ BanksApart /\ BanksArch /\ InFlightApart
      /\ c \in context_ids /\ context_ids \subseteq Contexts
      /\ ROB[c] \in Seq(Entries) /\ ROB[c] # <<>>
  BY DEF Placed, TypeOK, SingleOwner, BanksOwned, commit
<1>2. e \in Entries /\ 1 \in DOMAIN ROB[c]
  BY <1>1, TailFacts
<1>3. /\ context_ids' = context_ids /\ arch_regs' = arch_regs
      /\ \A d \in context_ids : d # c => CommittedMap(d)' = CommittedMap(d)
      /\ \A a \in Mapped : CommittedMap(c)'[a] =
            IF p # NoReg /\ o = a THEN p ELSE CommittedMap(c)[a]
  BY CommitPlaced
<1>4. /\ CommittedMap(c) = [a \in Mapped |-> CommittedMap(c)[a]]
      /\ CommittedMap(c)' = [a \in Mapped |-> CommittedMap(c)'[a]]
  BY DEF CommittedMap, CommittedBank, CommittedReg
<1>5. CASE p = NoReg
  <2>1. CommittedMap(c)' = CommittedMap(c) /\ reg_file' = reg_file
    BY <1>3, <1>4, <1>5 DEF commit
  <2>2. UNCHANGED Arch!vars
    BY <1>3, <2>1, ArchUnchanged
  <2> QED
    BY <1>1, <2>1, <2>2, BanksUnchanged DEF ArchStays
<1>6. CASE p # NoReg
  <2>1. /\ t \in RegTypes /\ t = TypeOf(o) /\ o \in Mapped
        /\ p \in PhysRegs /\ q \in PhysRegs
    BY <1>2, <1>6, EntryField, InstField DEF WritesMapped
  <2>2. CommittedMap(c)[o] = q
    BY <1>1, <1>6, <2>1, HeadMapping DEF CommittedMap
  <2>3. reg_file[<<t, p>>] # "ARCH"
    BY <1>1, <1>2, <1>6 DEF InFlightApart
  <2>4. reg_file' = [reg_file EXCEPT ![<<t, q>>] = "FREE", ![<<t, p>>] = "ARCH"]
    BY <1>6 DEF commit
  <2>5. reg_file \in [RegTypes \X PhysRegs -> RegStates]
    BY <1>1 DEF TypeOK
  <2> HIDE DEF e, t, o, p, q
  <2>6. /\ \A k \in DOMAIN arch_regs : \A a \in Mapped : TypeOf(a) = t => arch_regs[k][a] # p
        /\ \A d \in context_ids : \A a \in Mapped : TypeOf(a) = t => CommittedMap(d)[a] # p
    BY <1>1, <2>3 DEF BanksArch
  <2>7. /\ reg_file'[<<t, p>>] = "ARCH"
        /\ \A s \in RegTypes, r \in PhysRegs :
              reg_file[<<s, r>>] = "ARCH" /\ ~(s = t /\ r = q) => reg_file'[<<s, r>>] = "ARCH"
    BY <2>1, <2>4, <2>5
  <2>8. CommittedMap(c)' = [CommittedMap(c) EXCEPT ![o] = p]
    BY <1>3, <1>4, <1>6, <2>1
  <2>9. BanksApart'
    <3>1. \A k, l \in DOMAIN arch_regs' : \A a1, a2 \in Mapped :
            Clash(arch_regs'[k], a1, arch_regs'[l], a2) => k = l /\ a1 = a2
      BY <1>1, <1>3 DEF BanksApart
    <3>2. \A d, f \in context_ids : \A a1, a2 \in Mapped :
            Clash(CommittedMap(d)', a1, CommittedMap(f)', a2) => d = f /\ a1 = a2
      <4> SUFFICES ASSUME NEW d \in context_ids, NEW f \in context_ids,
                          NEW a1 \in Mapped, NEW a2 \in Mapped,
                          Clash(CommittedMap(d)', a1, CommittedMap(f)', a2)
                   PROVE  d = f /\ a1 = a2
        OBVIOUS
      <4>1. /\ TypeOf(a1) = TypeOf(a2) /\ CommittedMap(d)'[a1] = CommittedMap(f)'[a2]
        BY DEF Clash
      <4>2. CASE d = c /\ a1 = o
        BY <1>3, <1>6, <2>1, <2>6, <4>1, <4>2
      <4>3. CASE f = c /\ a2 = o
        BY <1>3, <1>6, <2>1, <2>6, <4>1, <4>3
      <4>4. CASE ~(d = c /\ a1 = o) /\ ~(f = c /\ a2 = o)
        <5>1. CommittedMap(d)'[a1] = CommittedMap(d)[a1] /\ CommittedMap(f)'[a2] = CommittedMap(f)[a2]
          BY <1>3, <4>4
        <5>2. Clash(CommittedMap(d), a1, CommittedMap(f), a2)
          BY <4>1, <5>1 DEF Clash
        <5> QED
          BY <1>1, <5>2 DEF BanksApart
      <4> QED
        BY <4>2, <4>3, <4>4
    <3>3. \A k \in DOMAIN arch_regs : \A d \in context_ids : \A a1, a2 \in Mapped :
            ~Clash(arch_regs[k], a1, CommittedMap(d)', a2)
      <4> SUFFICES ASSUME NEW k \in DOMAIN arch_regs, NEW d \in context_ids,
                          NEW a1 \in Mapped, NEW a2 \in Mapped, TypeOf(a1) = TypeOf(a2)
                   PROVE  arch_regs[k][a1] # CommittedMap(d)'[a2]
        BY DEF Clash
      <4>1. CASE d = c /\ a2 = o
        BY <1>3, <1>6, <2>1, <2>6, <4>1
      <4>2. CASE ~(d = c /\ a2 = o)
        <5>1. CommittedMap(d)'[a2] = CommittedMap(d)[a2]
          BY <1>3, <4>2
        <5> QED
          BY <1>1, <5>1 DEF BanksApart, Clash
      <4> QED
        BY <4>1, <4>2
    <3> QED
      BY <1>3, <3>1, <3>2, <3>3 DEF BanksApart
  <2>10. BanksArch'
    <3>1. ASSUME NEW k \in DOMAIN arch_regs, NEW a \in Mapped
          PROVE  reg_file'[<<TypeOf(a), arch_regs[k][a]>>] = "ARCH"
      <4>1. TypeOf(a) \in RegTypes /\ arch_regs[k][a] \in PhysRegs
        BY <1>1, MapType
      <4>2. ~(TypeOf(a) = t /\ arch_regs[k][a] = q)
        BY <1>1, <2>1, <2>2 DEF BanksApart, Clash
      <4> QED
        BY <1>1, <2>7, <4>1, <4>2 DEF BanksArch
    <3>2. ASSUME NEW d \in context_ids, NEW a \in Mapped
          PROVE  reg_file'[<<TypeOf(a), CommittedMap(d)'[a]>>] = "ARCH"
      <4>1. CASE d = c /\ a = o
        BY <1>3, <1>6, <2>1, <2>7, <4>1
      <4>2. CASE ~(d = c /\ a = o)
        <5>1. CommittedMap(d)'[a] = CommittedMap(d)[a]
          BY <1>3, <4>2
        <5>2. TypeOf(a) \in RegTypes /\ CommittedMap(d)[a] \in PhysRegs
          BY <1>1, MapType
        <5>3. ~(TypeOf(a) = t /\ CommittedMap(d)[a] = q)
          BY <1>1, <2>1, <2>2, <4>2 DEF BanksApart, Clash
        <5> QED
          BY <1>1, <2>7, <5>1, <5>2, <5>3 DEF BanksArch
      <4> QED
        BY <4>1, <4>2
    <3> QED
      BY <1>3, <3>1, <3>2 DEF BanksArch
  <2>11. Arch!Retire(c, o, p)
    <3>1. Arch!Unused(Arch!TypeOf(o), p)
      BY <2>1, <2>6 DEF Arch!Unused, Arch!TypeOf, TypeOf, Arch!ArchRegs, Mapped
    <3>2. [d \in context_ids' |-> CommittedMap(d)'] =
            [[d \in context_ids |-> CommittedMap(d)] EXCEPT ![c][o] = p]
      BY <1>1, <1>3, <2>8
    <3> QED
      BY <1>1, <1>3, <3>1, <3>2 DEF Arch!Retire
  <2> QED
    BY <2>1, <2>9, <2>10, <2>11 DEF BanksOwned
<1> QED
  BY <1>5, <1>6

-----------------------------------------------------------------------------
(* The destinations in flight stay apart *)

(* When every entry that is in flight after a step was in flight before    *)
(* it, in the same order, only the states of the destinations are left.    *)
LEMMA FlightStep ==
    ASSUME InFlightApart, NEW sh \in [Contexts -> {0, 1}],
           \A c \in Contexts : \A i \in DOMAIN ROB'[c] :
              /\ i \in Int
              /\ ROB'[c][i].physreg # NoReg =>
                  /\ i + sh[c] \in DOMAIN ROB[c]
                  /\ ROB'[c][i].physreg = ROB[c][i + sh[c]].physreg
                  /\ ROB'[c][i].inst = ROB[c][i + sh[c]].inst
                  /\ reg_file'[<<ROB'[c][i].inst.dest, ROB'[c][i].physreg>>]
                        = IF Written(ROB'[c][i]) THEN "WB" ELSE "ALLOC"
    PROVE  InFlightApart'
<1>1. ASSUME NEW c \in Contexts, NEW d \in Contexts,
             NEW i \in DOMAIN ROB'[c], NEW j \in DOMAIN ROB'[d],
             ROB'[c][i].physreg # NoReg, ROB'[d][j].physreg = ROB'[c][i].physreg,
             ROB'[d][j].inst.dest = ROB'[c][i].inst.dest
      PROVE  c = d /\ i = j
  <2>1. /\ i \in Int /\ i + sh[c] \in DOMAIN ROB[c]
        /\ ROB'[c][i].physreg = ROB[c][i + sh[c]].physreg
        /\ ROB'[c][i].inst = ROB[c][i + sh[c]].inst
    BY <1>1
  <2>4. /\ j \in Int /\ j + sh[d] \in DOMAIN ROB[d]
        /\ ROB'[d][j].physreg = ROB[d][j + sh[d]].physreg
        /\ ROB'[d][j].inst = ROB[d][j + sh[d]].inst
    BY <1>1
  <2>2. c = d /\ i + sh[c] = j + sh[d]
    BY <1>1, <2>1, <2>4, SMTT(30) DEF InFlightApart
  <2>3. sh[c] \in Int
    OBVIOUS
  <2> QED
    BY <2>1, <2>2, <2>3, <2>4
<1>2. \A c \in Contexts : \A i \in DOMAIN ROB'[c] : ROB'[c][i].physreg # NoReg =>
        reg_file'[<<ROB'[c][i].inst.dest, ROB'[c][i].physreg>>]
            = IF Written(ROB'[c][i]) THEN "WB" ELSE "ALLOC"
  OBVIOUS
<1>3. \A c, d \in Contexts : \A i \in DOMAIN ROB'[c], j \in DOMAIN ROB'[d] :
        /\ ROB'[c][i].physreg # NoReg
        /\ ROB'[d][j].physreg = ROB'[c][i].physreg
        /\ ROB'[d][j].inst.dest = ROB'[c][i].inst.dest
        => c = d /\ i = j
  BY <1>1
<1> QED
  BY <1>2, <1>3 DEF InFlightApart

(* A squash frees no register of an entry that it keeps.                   *)
LEMMA SquashSpares ==
    ASSUME TypeOK, InFlightApart, NEW c \in Contexts, NEW n \in 0 .. Len(ROB[c])
    PROVE  /\ \A d \in Contexts : \A i \in DOMAIN ROB[d] :
                ROB[d][i].physreg # NoReg /\ (d # c \/ i <= n) =>
                    RegFileAfterSquash(ROB[c], n)[<<ROB[d][i].inst.dest, ROB[d][i].physreg>>]
                        = reg_file[<<ROB[d][i].inst.dest, ROB[d][i].physreg>>]
           /\ \A t \in RegTypes, r \in PhysRegs :
                /\ RegFileAfterSquash(ROB[c], n)[<<t, r>>] \in {reg_file[<<t, r>>], "FREE"}
                /\ reg_file[<<t, r>>] = "ARCH" =>
                        RegFileAfterSquash(ROB[c], n)[<<t, r>>] = "ARCH"
<1>1. ROB[c] \in Seq(Entries) /\ DOMAIN ROB[c] = 1 .. Len(ROB[c]) /\ Len(ROB[c]) \in Nat
  BY DEF TypeOK
<1>2. \A j \in DOMAIN ROB[c] : ROB[c][j].physreg # NoReg =>
        reg_file[<<ROB[c][j].inst.dest, ROB[c][j].physreg>>] # "ARCH"
  BY DEF InFlightApart
<1>3. ASSUME NEW d \in Contexts, NEW i \in DOMAIN ROB[d], ROB[d][i].physreg # NoReg,
             d # c \/ i <= n
      PROVE  RegFileAfterSquash(ROB[c], n)[<<ROB[d][i].inst.dest, ROB[d][i].physreg>>]
                = reg_file[<<ROB[d][i].inst.dest, ROB[d][i].physreg>>]
  <2>1. \A j \in DOMAIN ROB[c] : j > n /\ ROB[c][j].physreg # NoReg =>
          ~(ROB[c][j].inst.dest = ROB[d][i].inst.dest /\ ROB[c][j].physreg = ROB[d][i].physreg)
    <3> SUFFICES ASSUME NEW j \in DOMAIN ROB[c], j > n, ROB[c][j].physreg # NoReg,
                        ROB[c][j].inst.dest = ROB[d][i].inst.dest,
                        ROB[c][j].physreg = ROB[d][i].physreg
                 PROVE  FALSE
      OBVIOUS
    <3>1. d = c /\ i = j
      BY <1>3 DEF InFlightApart
    <3> QED
      BY <1>1, <1>3, <3>1
  <2>2. <<ROB[d][i].inst.dest, ROB[d][i].physreg>> \notin SquashedRegs(ROB[c], n)
    BY <2>1 DEF SquashedRegs
  <2>3. ROB[d][i] \in Entries
    BY DEF TypeOK
  <2>4. <<ROB[d][i].inst.dest, ROB[d][i].physreg>> \in RegTypes \X PhysRegs
    BY <1>3, <2>3, EntryField, InstField
  <2> QED
    BY <2>2, <2>4 DEF RegFileAfterSquash
<1>4. ASSUME NEW t \in RegTypes, NEW r \in PhysRegs
      PROVE  /\ RegFileAfterSquash(ROB[c], n)[<<t, r>>] \in {reg_file[<<t, r>>], "FREE"}
             /\ reg_file[<<t, r>>] = "ARCH" =>
                    RegFileAfterSquash(ROB[c], n)[<<t, r>>] = "ARCH"
  <2>1. reg_file[<<t, r>>] = "ARCH" => <<t, r>> \notin SquashedRegs(ROB[c], n)
    BY <1>2 DEF SquashedRegs
  <2>2. RegFileAfterSquash(ROB[c], n)[<<t, r>>] =
          IF <<t, r>> \in SquashedRegs(ROB[c], n) THEN "FREE" ELSE reg_file[<<t, r>>]
    BY DEF RegFileAfterSquash
  <2> QED
    BY <2>1, <2>2
<1> QED
  BY <1>3, <1>4

LEMMA SameFlight ==
    ASSUME TypeOK, InFlightApart, reg_file' = reg_file,
           \A c \in Contexts : \A i \in DOMAIN ROB'[c] :
              /\ i \in Int
              /\ ROB'[c][i].physreg # NoReg => i \in DOMAIN ROB[c] /\ ROB'[c][i] = ROB[c][i]
    PROVE  InFlightApart' /\ ArchStays
<1> DEFINE sh == [c \in Contexts |-> 0]
<1>1. sh \in [Contexts -> {0, 1}]
  OBVIOUS
<1>2. \A c \in Contexts : \A i \in DOMAIN ROB'[c] :
        /\ i \in Int
        /\ ROB'[c][i].physreg # NoReg =>
            /\ i + sh[c] \in DOMAIN ROB[c]
            /\ ROB'[c][i].physreg = ROB[c][i + sh[c]].physreg
            /\ ROB'[c][i].inst = ROB[c][i + sh[c]].inst
            /\ reg_file'[<<ROB'[c][i].inst.dest, ROB'[c][i].physreg>>]
                = IF Written(ROB'[c][i]) THEN "WB" ELSE "ALLOC"
  BY DEF InFlightApart
<1> HIDE DEF sh
<1> QED
  BY <1>1, <1>2, FlightStep DEF ArchStays

LEMMA EjectFlight ==
    ASSUME TypeOK, InFlightApart, NEW v \in context_ids, FlushAndEject(v),
           \A c \in Contexts : \A i \in DOMAIN ROB'[c] :
              /\ i \in Int
              /\ ROB'[c][i].physreg # NoReg =>
                    c # v /\ i \in DOMAIN ROB[c] /\ ROB'[c][i] = ROB[c][i]
    PROVE  InFlightApart' /\ ArchStays
<1> DEFINE sh == [c \in Contexts |-> 0]
<1>1. sh \in [Contexts -> {0, 1}]
  OBVIOUS
<1>2. v \in Contexts /\ 0 \in 0 .. Len(ROB[v])
  BY DEF TypeOK
<1>3. reg_file' = RegFileAfterSquash(ROB[v], 0)
  BY DEF FlushAndEject
<1>4. \A d \in Contexts : \A i \in DOMAIN ROB[d] :
        ROB[d][i].physreg # NoReg /\ d # v =>
            reg_file'[<<ROB[d][i].inst.dest, ROB[d][i].physreg>>]
                = reg_file[<<ROB[d][i].inst.dest, ROB[d][i].physreg>>]
  BY <1>2, <1>3, SquashSpares
<1>5. ArchStays
  BY <1>2, <1>3, SquashSpares DEF ArchStays
<1>6. \A c \in Contexts : \A i \in DOMAIN ROB'[c] :
        /\ i \in Int
        /\ ROB'[c][i].physreg # NoReg =>
            /\ i + sh[c] \in DOMAIN ROB[c]
            /\ ROB'[c][i].physreg = ROB[c][i + sh[c]].physreg
            /\ ROB'[c][i].inst = ROB[c][i + sh[c]].inst
            /\ reg_file'[<<ROB'[c][i].inst.dest, ROB'[c][i].physreg>>]
                = IF Written(ROB'[c][i]) THEN "WB" ELSE "ALLOC"
  BY <1>4 DEF InFlightApart
<1> HIDE DEF sh
<1> QED
  BY <1>1, <1>5, <1>6, FlightStep

(* A trap adds an entry without a destination.                             *)
LEMMA TrapEntry ==
    ASSUME TypeOK, NEW c \in Contexts, NEW inst \in Insts, inst.kind = "trap",
           CanRename(c, inst), ROB'[c] = Append(ROB[c], NewEntry(c, inst, FALSE))
    PROVE  \A i \in DOMAIN ROB'[c] : i \in Int /\ ROB'[c][i].physreg = NoReg
<1>1. /\ ROB[c] = <<>> /\ NewEntry(c, inst, FALSE) \in Entries
      /\ NewEntry(c, inst, FALSE).physreg = NoReg
  BY TrapType
<1> DEFINE e == NewEntry(c, inst, FALSE)
<1>2. e \in Entries /\ e.physreg = NoReg /\ ROB[c] \in Seq(Entries) /\ Len(ROB[c]) = 0
      /\ ROB'[c] = Append(ROB[c], e)
  BY <1>1 DEF TypeOK
<1> HIDE DEF e
<1>3. /\ DOMAIN Append(ROB[c], e) = 1 .. Len(ROB[c]) + 1
      /\ Append(ROB[c], e)[Len(ROB[c]) + 1] = e
  BY <1>2, AppendFacts
<1>4. \A i \in DOMAIN ROB'[c] : i \in Int /\ ROB'[c][i] = e
  <2>1. Len(ROB[c]) + 1 = 1
    BY <1>2
  <2>2. DOMAIN ROB'[c] = 1 .. 1 /\ ROB'[c][1] = e
    BY <1>2, <1>3, <2>1
  <2> SUFFICES ASSUME NEW i \in DOMAIN ROB'[c]
               PROVE  i \in Int /\ ROB'[c][i] = e
    OBVIOUS
  <2>3. i = 1
    BY <2>2
  <2>4. i \in Int
    BY <2>3
  <2>5. ROB'[c][i] = e
    BY <2>2, <2>3, Zenon
  <2> QED
    BY <2>4, <2>5
<1> QED
  BY <1>2, <1>4

LEMMA KillFlight ==
    ASSUME TypeOK, InFlightApart, NEW k \in Contexts, NEW v \in Contexts,
           NEW inst \in Insts, kill(k, v, inst)
    PROVE  InFlightApart' /\ ArchStays
<1>1. /\ v \in context_ids /\ k # v /\ inst.kind = "trap" /\ CanRename(k, inst)
      /\ FlushAndEject(v)
      /\ ROB' = [ROB EXCEPT ![v] = <<>>, ![k] = Append(@, NewEntry(k, inst, FALSE))]
  BY DEF kill
<1>2. /\ ROB'[v] = <<>> /\ ROB'[k] = Append(ROB[k], NewEntry(k, inst, FALSE))
      /\ \A c \in Contexts : c # v /\ c # k => ROB'[c] = ROB[c]
  BY <1>1 DEF TypeOK
<1>3. \A i \in DOMAIN ROB'[k] : i \in Int /\ ROB'[k][i].physreg = NoReg
  BY <1>1, <1>2, TrapEntry
<1>4. \A c \in Contexts : \A i \in DOMAIN ROB[c] : i \in Int
  BY DEF TypeOK
<1>5. DOMAIN ROB'[v] = {}
  BY <1>2
<1>6. \A c \in Contexts : \A i \in DOMAIN ROB'[c] :
        /\ i \in Int
        /\ ROB'[c][i].physreg # NoReg =>
              c # v /\ i \in DOMAIN ROB[c] /\ ROB'[c][i] = ROB[c][i]
  BY <1>2, <1>3, <1>4, <1>5
<1> QED
  BY <1>1, <1>6, EjectFlight

LEMMA RemoteKillFlight ==
    ASSUME TypeOK, InFlightApart, NEW v \in Contexts, remote_kill(v)
    PROVE  InFlightApart' /\ ArchStays
<1>1. v \in context_ids /\ FlushAndEject(v) /\ ROB' = [ROB EXCEPT ![v] = <<>>]
  BY DEF remote_kill
<1>2. DOMAIN ROB'[v] = {} /\ \A c \in Contexts : c # v => ROB'[c] = ROB[c]
  BY <1>1 DEF TypeOK
<1>3. \A c \in Contexts : \A i \in DOMAIN ROB[c] : i \in Int
  BY DEF TypeOK
<1> QED
  BY <1>1, <1>2, <1>3, EjectFlight

LEMMA ExitFlight ==
    ASSUME TypeOK, InFlightApart, NEW c \in Contexts, NEW inst \in Insts,
           NEW n \in 0 .. MaxStale, exit(c, inst, n)
    PROVE  InFlightApart' /\ ArchStays
<1>1. /\ c \in context_ids /\ inst.kind = "trap" /\ CanRename(c, inst) /\ FlushAndEject(c)
      /\ ROB' = [ROB EXCEPT ![c] = Append(@, NewEntry(c, inst, FALSE))]
  BY DEF exit
<1>2. /\ ROB'[c] = Append(ROB[c], NewEntry(c, inst, FALSE))
      /\ \A d \in Contexts : d # c => ROB'[d] = ROB[d]
  BY <1>1 DEF TypeOK
<1>3. \A i \in DOMAIN ROB'[c] : i \in Int /\ ROB'[c][i].physreg = NoReg
  BY <1>1, <1>2, TrapEntry
<1>4. \A d \in Contexts : \A i \in DOMAIN ROB[d] : i \in Int
  BY DEF TypeOK
<1> QED
  BY <1>1, <1>2, <1>3, <1>4, EjectFlight

LEMMA ForkFlight ==
    ASSUME TypeOK, InFlightApart, NEW p \in Contexts, NEW c \in Contexts,
           NEW inst \in Insts, fork(p, c, inst)
    PROVE  InFlightApart' /\ ArchStays
<1>1. /\ inst.kind = "trap" /\ CanRename(p, inst) /\ reg_file' = reg_file
      /\ ROB' = [ROB EXCEPT ![p] = Append(@, NewEntry(p, inst, FALSE))]
  BY DEF fork
<1>2. /\ ROB'[p] = Append(ROB[p], NewEntry(p, inst, FALSE))
      /\ \A d \in Contexts : d # p => ROB'[d] = ROB[d]
  BY <1>1 DEF TypeOK
<1>3. \A i \in DOMAIN ROB'[p] : i \in Int /\ ROB'[p][i].physreg = NoReg
  BY <1>1, <1>2, TrapEntry
<1>4. \A d \in Contexts : \A i \in DOMAIN ROB[d] : i \in Int
  BY DEF TypeOK
<1> QED
  BY <1>1, <1>2, <1>3, <1>4, SameFlight

LEMMA RenameFlight ==
    ASSUME TypeOK, InFlightApart, NEW c \in Contexts, NEW inst \in Insts, NEW m \in BOOLEAN,
           register_rename(c, inst, m)
    PROVE  InFlightApart' /\ ArchStays
<1> DEFINE e == NewEntry(c, inst, m)
           n == Len(ROB[c]) + 1
<1>1. inst.dest # "NONE" => FreeRegs(inst.dest) # {}
  BY DEF register_rename, CanRename
<1>2. /\ NewEntry(c, inst, m) \in Entries /\ NewEntry(c, inst, m).inst = inst
      /\ NewEntry(c, inst, m).completed = FALSE /\ NewEntry(c, inst, m).mem # "done"
  <2>1. NewEntry(c, inst, m) \in Entries
    BY <1>1, NewEntryType, ZenonT(60)
  <2>2. /\ NewEntry(c, inst, m).inst = inst
        /\ NewEntry(c, inst, m).completed = FALSE /\ NewEntry(c, inst, m).mem # "done"
    BY DEF NewEntry
  <2> QED
    BY <2>1, <2>2
<1>3. ~Written(e)
  BY <1>2 DEF Written
<1>4. ROB' = [ROB EXCEPT ![c] = Append(@, e)]
  BY DEF register_rename
<1>5. ROB[c] \in Seq(Entries)
  BY DEF TypeOK
<1>6. /\ DOMAIN ROB'[c] = DOMAIN ROB[c] \cup {n} /\ n \notin DOMAIN ROB[c]
      /\ ROB'[c][n] = e /\ \A i \in DOMAIN ROB[c] : ROB'[c][i] = ROB[c][i]
      /\ \A d \in Contexts : d # c => ROB'[d] = ROB[d]
  <2>1. ROB'[c] = Append(ROB[c], e) /\ \A d \in Contexts : d # c => ROB'[d] = ROB[d]
    BY <1>4 DEF TypeOK
  <2> HIDE DEF e
  <2> QED
    BY <1>2, <1>5, <2>1, AppendFacts
<1>7. CASE ~Renames(inst)
  <2>1. e.physreg = NoReg /\ reg_file' = reg_file
    BY <1>1, <1>7, NewEntryType DEF register_rename
  <2>2. \A d \in Contexts : \A i \in DOMAIN ROB[d] : i \in Int
    BY DEF TypeOK
  <2>3. n \in Int
    BY <1>5
  <2> HIDE DEF e, n
  <2> QED
    BY <1>6, <2>1, <2>2, <2>3, SameFlight
<1>8. CASE Renames(inst)
  <2> DEFINE t == inst.dest
             r == find_free_physreg(inst.dest)
  <2>1. /\ t \in RegTypes /\ r \in PhysRegs /\ reg_file[<<t, r>>] = "FREE"
    BY <1>1, <1>8, NewEntryType, InstField
  <2>2. e.physreg = r /\ e.inst.dest = t
    BY <1>2, <1>8 DEF NewEntry
  <2>3. reg_file' = [reg_file EXCEPT ![<<t, r>>] = "ALLOC"]
    BY <1>8 DEF register_rename
  <2> HIDE DEF e, n, t, r
  <2>4. /\ reg_file'[<<t, r>>] = "ALLOC"
        /\ \A s \in RegTypes, q \in PhysRegs :
              ~(s = t /\ q = r) => reg_file'[<<s, q>>] = reg_file[<<s, q>>]
    BY <2>1, <2>3 DEF TypeOK
  <2>5. ArchStays
    BY <2>1, <2>4 DEF ArchStays
  <2>6. ASSUME NEW d \in Contexts, NEW i \in DOMAIN ROB[d], ROB[d][i].physreg # NoReg
        PROVE  /\ ~(ROB[d][i].inst.dest = t /\ ROB[d][i].physreg = r)
               /\ reg_file'[<<ROB[d][i].inst.dest, ROB[d][i].physreg>>]
                    = reg_file[<<ROB[d][i].inst.dest, ROB[d][i].physreg>>]
    <3>1. ROB[d][i] \in Entries
      BY DEF TypeOK
    <3>2. ROB[d][i].inst.dest \in RegTypes /\ ROB[d][i].physreg \in PhysRegs
      BY <2>6, <3>1, EntryField, InstField
    <3>3. reg_file[<<ROB[d][i].inst.dest, ROB[d][i].physreg>>] # "FREE"
      BY <2>6 DEF InFlightApart
    <3> QED
      BY <2>1, <2>4, <3>2, <3>3
  <2>7. \A d \in Contexts : \A i \in DOMAIN ROB'[d] :
          \/ d = c /\ i = n /\ ROB'[d][i] = e
          \/ i \in DOMAIN ROB[d] /\ ROB'[d][i] = ROB[d][i] /\ ~(d = c /\ i = n)
    BY <1>6
  <2>8. \A d, f \in Contexts : \A i \in DOMAIN ROB'[d], j \in DOMAIN ROB'[f] :
          /\ ROB'[d][i].physreg # NoReg
          /\ ROB'[f][j].physreg = ROB'[d][i].physreg
          /\ ROB'[f][j].inst.dest = ROB'[d][i].inst.dest
          => d = f /\ i = j
    <3> SUFFICES ASSUME NEW d \in Contexts, NEW f \in Contexts,
                        NEW i \in DOMAIN ROB'[d], NEW j \in DOMAIN ROB'[f],
                        ROB'[d][i].physreg # NoReg,
                        ROB'[f][j].physreg = ROB'[d][i].physreg,
                        ROB'[f][j].inst.dest = ROB'[d][i].inst.dest
                 PROVE  d = f /\ i = j
      OBVIOUS
    <3>1. CASE d = c /\ i = n /\ ROB'[d][i] = e
      <4>1. ROB'[f][j].physreg = r /\ ROB'[f][j].inst.dest = t /\ ROB'[f][j].physreg # NoReg
        BY <2>2, <3>1
      <4>2. ~(j \in DOMAIN ROB[f] /\ ROB'[f][j] = ROB[f][j])
        BY <2>6, <4>1
      <4> QED
        BY <2>7, <3>1, <4>2
    <3>2. CASE i \in DOMAIN ROB[d] /\ ROB'[d][i] = ROB[d][i]
      <4>2. ~(ROB'[d][i].inst.dest = t /\ ROB'[d][i].physreg = r)
        BY <2>6, <3>2
      <4>1. j \in DOMAIN ROB[f] /\ ROB'[f][j] = ROB[f][j]
        BY <2>2, <2>7, <4>2
      <4> QED
        BY <3>2, <4>1 DEF InFlightApart
    <3> QED
      BY <2>7, <3>1, <3>2
  <2>9. \A d \in Contexts : \A i \in DOMAIN ROB'[d] : ROB'[d][i].physreg # NoReg =>
          reg_file'[<<ROB'[d][i].inst.dest, ROB'[d][i].physreg>>]
            = IF Written(ROB'[d][i]) THEN "WB" ELSE "ALLOC"
    BY <1>3, <2>2, <2>4, <2>6, <2>7 DEF InFlightApart
  <2> QED
    BY <2>5, <2>8, <2>9 DEF InFlightApart
<1> QED
  BY <1>7, <1>8

KeepsArch(f) == \A t \in RegTypes, r \in PhysRegs :
                    reg_file[<<t, r>>] = "ARCH" => f[<<t, r>>] = "ARCH"

WritesOnly(c, i, f) ==
    /\ reg_file'[<<ROB[c][i].inst.dest, ROB[c][i].physreg>>] = "WB"
    /\ \A d \in Contexts : \A j \in DOMAIN ROB[d] :
         ROB[d][j].physreg # NoReg /\ ~(d = c /\ j = i) =>
             reg_file'[<<ROB[d][j].inst.dest, ROB[d][j].physreg>>]
                 = f[<<ROB[d][j].inst.dest, ROB[d][j].physreg>>]

(* A destination is written in one of three places; each leaves every      *)
(* other destination, and every architectural register, as it was.         *)
LEMMA WriteFlight ==
    ASSUME TypeOK, InFlightApart, NEW c \in Contexts, NEW i \in DOMAIN ROB[c],
           ROB[c][i].physreg # NoReg,
           NEW f \in [RegTypes \X PhysRegs -> RegStates],
           KeepsArch(f),
           reg_file' = [f EXCEPT ![<<ROB[c][i].inst.dest, ROB[c][i].physreg>>] = "WB"]
    PROVE  ArchStays /\ WritesOnly(c, i, f)
<1> DEFINE t == ROB[c][i].inst.dest
           r == ROB[c][i].physreg
<1>1. ROB[c][i] \in Entries /\ t \in RegTypes /\ r \in PhysRegs
  <2>1. ROB[c][i] \in Entries
    BY DEF TypeOK
  <2> QED
    BY <2>1, EntryField, InstField
<1>2. reg_file[<<t, r>>] # "ARCH"
  BY DEF InFlightApart
<1>3. \A d \in Contexts : \A j \in DOMAIN ROB[d] :
        ROB[d][j].physreg # NoReg /\ ~(d = c /\ j = i) =>
            ~(ROB[d][j].inst.dest = t /\ ROB[d][j].physreg = r)
  BY DEF InFlightApart
<1>4. reg_file' = [f EXCEPT ![<<t, r>>] = "WB"]
  OBVIOUS
<1> HIDE DEF t, r
<1>5. /\ reg_file'[<<t, r>>] = "WB"
      /\ \A s \in RegTypes, q \in PhysRegs : ~(s = t /\ q = r) => reg_file'[<<s, q>>] = f[<<s, q>>]
  BY <1>1, <1>4
<1>6. ArchStays
  BY <1>2, <1>5 DEF ArchStays, KeepsArch
<1>7. \A d \in Contexts : \A j \in DOMAIN ROB[d] :
        ROB[d][j].physreg # NoReg => ROB[d][j].inst.dest \in RegTypes /\ ROB[d][j].physreg \in PhysRegs
  <2> SUFFICES ASSUME NEW d \in Contexts, NEW j \in DOMAIN ROB[d], ROB[d][j].physreg # NoReg
               PROVE  ROB[d][j].inst.dest \in RegTypes /\ ROB[d][j].physreg \in PhysRegs
    OBVIOUS
  <2>1. ROB[d][j] \in Entries
    BY DEF TypeOK
  <2> QED
    BY <2>1, EntryField, InstField
<1> QED
  BY <1>3, <1>5, <1>6, <1>7 DEF t, r, WritesOnly

LEMMA LSQDoneFlight ==
    ASSUME TypeOK, InFlightApart, NEW c \in Contexts, NEW i \in DOMAIN ROB[c],
           ROB[c][i].mem = "pending", LSQDone(c, i)
    PROVE  InFlightApart' /\ ArchStays
<1> DEFINE e == ROB[c][i]
           new == [e EXCEPT !.mem = "done"]
           sh == [d \in Contexts |-> 0]
<1>1. /\ ROB' = [ROB EXCEPT ![c][i].mem = "done"]
      /\ reg_file' = IF e.physreg # NoReg
                       THEN [reg_file EXCEPT ![<<e.inst.dest, e.physreg>>] = "WB"] ELSE reg_file
  BY DEF LSQDone
<1>2. e \in Entries /\ ROB[c] \in Seq(Entries)
  BY DEF TypeOK
<1>3. /\ DOMAIN ROB'[c] = DOMAIN ROB[c] /\ ROB'[c][i] = new
      /\ \A j \in DOMAIN ROB[c] : j # i => ROB'[c][j] = ROB[c][j]
      /\ \A d \in Contexts : d # c => ROB'[d] = ROB[d]
  BY <1>1 DEF TypeOK
<1>4. new.physreg = e.physreg /\ new.inst = e.inst /\ new.mem = "done" /\ Written(new)
  BY <1>2 DEF Entries, Written
<1>5. sh \in [Contexts -> {0, 1}] /\ \A d \in Contexts : sh[d] = 0
  OBVIOUS
<1>6. \A d \in Contexts : \A j \in DOMAIN ROB[d] : j \in Int /\ j + 0 = j
  BY DEF TypeOK
<1>7. CASE e.physreg # NoReg
  <2>1. /\ reg_file \in [RegTypes \X PhysRegs -> RegStates]
        /\ KeepsArch(reg_file)
        /\ reg_file' = [reg_file EXCEPT ![<<ROB[c][i].inst.dest, ROB[c][i].physreg>>] = "WB"]
        /\ ROB[c][i].physreg # NoReg
    BY <1>1, <1>7 DEF TypeOK, KeepsArch
  <2>2. /\ ArchStays
        /\ reg_file'[<<e.inst.dest, e.physreg>>] = "WB"
        /\ \A d \in Contexts : \A j \in DOMAIN ROB[d] :
              ROB[d][j].physreg # NoReg /\ ~(d = c /\ j = i) =>
                  reg_file'[<<ROB[d][j].inst.dest, ROB[d][j].physreg>>]
                      = reg_file[<<ROB[d][j].inst.dest, ROB[d][j].physreg>>]
    <3>1. ArchStays /\ WritesOnly(c, i, reg_file)
      BY <2>1, WriteFlight
    <3> QED
      BY <3>1 DEF WritesOnly
  <2>3. ASSUME NEW d \in Contexts, NEW j \in DOMAIN ROB'[d]
        PROVE  /\ j \in Int
               /\ ROB'[d][j].physreg # NoReg =>
                    /\ j + sh[d] \in DOMAIN ROB[d]
                    /\ ROB'[d][j].physreg = ROB[d][j + sh[d]].physreg
                    /\ ROB'[d][j].inst = ROB[d][j + sh[d]].inst
                    /\ reg_file'[<<ROB'[d][j].inst.dest, ROB'[d][j].physreg>>]
                        = IF Written(ROB'[d][j]) THEN "WB" ELSE "ALLOC"
    <3> HIDE DEF new, sh
    <3>1. CASE d = c /\ j = i
      BY <1>3, <1>4, <1>5, <1>6, <2>2, <3>1
    <3>2. CASE ~(d = c /\ j = i)
      <4>1. j \in DOMAIN ROB[d] /\ ROB'[d][j] = ROB[d][j] /\ j \in Int /\ j + sh[d] = j
        BY <1>3, <1>5, <1>6, <3>2
      <4> QED
        BY <2>2, <3>2, <4>1 DEF InFlightApart
    <3> QED
      BY <3>1, <3>2
  <2> QED
    BY <1>5, <2>2, <2>3, FlightStep
<1>8. CASE e.physreg = NoReg
  <2>1. reg_file' = reg_file
    BY <1>1, <1>8
  <2> HIDE DEF e, new
  <2> QED
    BY <1>3, <1>4, <1>6, <1>8, <2>1, SameFlight
<1> QED
  BY <1>7, <1>8

LEMMA WritebackFlight ==
    ASSUME TypeOK, InFlightApart, NEW c \in Contexts, NEW i \in DOMAIN ROB[c], writeback(c, i)
    PROVE  InFlightApart' /\ ArchStays
<1> DEFINE e == ROB[c][i]
           n == IF e.recover_inst THEN i ELSE Len(ROB[c])
           kept == SubSeq(ROB[c], 1, n)
           new == [kept EXCEPT ![i].completed = TRUE]
           regs == IF e.recover_inst THEN RegFileAfterSquash(ROB[c], i) ELSE reg_file
           sh == [d \in Contexts |-> 0]
<1>1. /\ n \in 0 .. Len(ROB[c]) /\ i \in 1 .. n
      /\ kept \in Seq(Entries) /\ DOMAIN kept = 1 .. n
      /\ \A k \in 1 .. n : kept[k] = ROB[c][k]
      /\ ROB' = [ROB EXCEPT ![c] = new]
  BY WritebackROB
<1>2. ROB[c] \in Seq(Entries) /\ DOMAIN ROB[c] = 1 .. Len(ROB[c]) /\ e \in Entries
      /\ Len(ROB[c]) \in Nat
  BY DEF TypeOK
<1>3. ~e.completed
      /\ reg_file' = IF e.physreg # NoReg /\ e.mem = "none"
                      THEN [regs EXCEPT ![<<e.inst.dest, e.physreg>>] = "WB"] ELSE regs
  BY DEF writeback
<1>4. sh \in [Contexts -> {0, 1}] /\ \A d \in Contexts : sh[d] = 0
  OBVIOUS
<1>5. \A d \in Contexts : \A j \in DOMAIN ROB[d] : j \in Int /\ j + 0 = j
  BY DEF TypeOK
<1>6. /\ new[i] = [e EXCEPT !.completed = TRUE] /\ DOMAIN new = 1 .. n
      /\ \A j \in 1 .. n : j # i => new[j] = ROB[c][j]
  BY <1>1
<1>7. /\ new[i].physreg = e.physreg /\ new[i].inst = e.inst
      /\ Written(new[i]) <=> IF e.mem = "none" THEN TRUE ELSE Written(e)
  BY <1>2, <1>6 DEF Entries, Written
<1>8. ROB'[c] = new /\ \A d \in Contexts : d # c => ROB'[d] = ROB[d]
  BY <1>1 DEF TypeOK
<1>9. /\ regs \in [RegTypes \X PhysRegs -> RegStates] /\ KeepsArch(regs)
      /\ \A d \in Contexts : \A j \in DOMAIN ROB[d] :
            ROB[d][j].physreg # NoReg /\ (d # c \/ j <= n) =>
                regs[<<ROB[d][j].inst.dest, ROB[d][j].physreg>>]
                    = reg_file[<<ROB[d][j].inst.dest, ROB[d][j].physreg>>]
  <2>1. CASE e.recover_inst
    <3>1. n = i /\ regs = RegFileAfterSquash(ROB[c], i) /\ i \in 0 .. Len(ROB[c])
      BY <1>1, <2>1
    <3> HIDE DEF n, regs
    <3> QED
      BY <3>1, SquashedFileType, SquashSpares, ZenonT(30) DEF KeepsArch
  <2>2. CASE ~e.recover_inst
    BY <2>2 DEF TypeOK, KeepsArch
  <2> QED
    BY <2>1, <2>2
<1> HIDE DEF n, kept, new, regs, sh
<1>10. \A d \in Contexts : \A j \in DOMAIN ROB'[d] :
        /\ j \in DOMAIN ROB[d] /\ j \in Int /\ j + sh[d] = j /\ (d # c \/ j <= n)
        /\ ~(d = c /\ j = i) => ROB'[d][j] = ROB[d][j]
  <2> SUFFICES ASSUME NEW d \in Contexts, NEW j \in DOMAIN ROB'[d]
               PROVE  /\ j \in DOMAIN ROB[d] /\ j \in Int /\ j + sh[d] = j /\ (d # c \/ j <= n)
                      /\ ~(d = c /\ j = i) => ROB'[d][j] = ROB[d][j]
    OBVIOUS
  <2>1. CASE d = c
    <3>1. j \in 1 .. n /\ j \in DOMAIN ROB[d] /\ j <= n
      BY <1>1, <1>2, <1>6, <1>8, <2>1
    <3> QED
      BY <1>4, <1>5, <1>6, <1>8, <2>1, <3>1
  <2>2. CASE d # c
    BY <1>4, <1>5, <1>8, <2>2
  <2> QED
    BY <2>1, <2>2
<1>11. SUFFICES
        /\ ArchStays
        /\ \A d \in Contexts : \A j \in DOMAIN ROB'[d] : ROB'[d][j].physreg # NoReg =>
             reg_file'[<<ROB'[d][j].inst.dest, ROB'[d][j].physreg>>]
                = IF Written(ROB'[d][j]) THEN "WB" ELSE "ALLOC"
  <2> SUFFICES ASSUME \A d \in Contexts : \A j \in DOMAIN ROB'[d] : ROB'[d][j].physreg # NoReg =>
                        reg_file'[<<ROB'[d][j].inst.dest, ROB'[d][j].physreg>>]
                            = IF Written(ROB'[d][j]) THEN "WB" ELSE "ALLOC"
               PROVE  InFlightApart'
    OBVIOUS
  <2>1. \A d \in Contexts : \A j \in DOMAIN ROB'[d] :
          ROB'[d][j].physreg = ROB[d][j].physreg /\ ROB'[d][j].inst = ROB[d][j].inst
    BY <1>7, <1>8, <1>10
  <2>2. \A d \in Contexts : \A j \in DOMAIN ROB'[d] :
          /\ j \in Int
          /\ ROB'[d][j].physreg # NoReg =>
                /\ j + sh[d] \in DOMAIN ROB[d]
                /\ ROB'[d][j].physreg = ROB[d][j + sh[d]].physreg
                /\ ROB'[d][j].inst = ROB[d][j + sh[d]].inst
                /\ reg_file'[<<ROB'[d][j].inst.dest, ROB'[d][j].physreg>>]
                    = IF Written(ROB'[d][j]) THEN "WB" ELSE "ALLOC"
    <3> SUFFICES ASSUME NEW d \in Contexts, NEW j \in DOMAIN ROB'[d]
                 PROVE  /\ j \in Int /\ j + sh[d] \in DOMAIN ROB[d]
                        /\ ROB'[d][j].physreg = ROB[d][j + sh[d]].physreg
                        /\ ROB'[d][j].inst = ROB[d][j + sh[d]].inst
      OBVIOUS
    <3>1. j + sh[d] = j /\ j \in Int /\ j \in DOMAIN ROB[d]
      BY <1>10
    <3> QED
      BY <2>1, <3>1
  <2> QED
    BY <1>4, <2>2, FlightStep
<1>12. CASE e.physreg # NoReg /\ e.mem = "none"
  <2>1. /\ ROB[c][i].physreg # NoReg
        /\ reg_file' = [regs EXCEPT ![<<ROB[c][i].inst.dest, ROB[c][i].physreg>>] = "WB"]
    BY <1>3, <1>12
  <2>2. ArchStays /\ WritesOnly(c, i, regs)
    BY <1>9, <2>1, WriteFlight
  <2>3. ASSUME NEW d \in Contexts, NEW j \in DOMAIN ROB'[d], ROB'[d][j].physreg # NoReg
        PROVE  reg_file'[<<ROB'[d][j].inst.dest, ROB'[d][j].physreg>>]
                = IF Written(ROB'[d][j]) THEN "WB" ELSE "ALLOC"
    <3>1. CASE d = c /\ j = i
      <4>1. Written(ROB'[d][j]) /\ ROB'[d][j].inst = e.inst /\ ROB'[d][j].physreg = e.physreg
        BY <1>7, <1>8, <1>12, <3>1
      <4>2. reg_file'[<<e.inst.dest, e.physreg>>] = "WB"
        BY <2>2 DEF WritesOnly
      <4> QED
        BY <4>1, <4>2
    <3>2. CASE ~(d = c /\ j = i)
      <4>1. ROB'[d][j] = ROB[d][j] /\ j \in DOMAIN ROB[d] /\ (d # c \/ j <= n)
        BY <1>10, <3>2
      <4>2. reg_file'[<<ROB[d][j].inst.dest, ROB[d][j].physreg>>]
              = reg_file[<<ROB[d][j].inst.dest, ROB[d][j].physreg>>]
        BY <1>9, <2>2, <2>3, <3>2, <4>1 DEF WritesOnly
      <4> QED
        BY <2>3, <4>1, <4>2 DEF InFlightApart
    <3> QED
      BY <3>1, <3>2
  <2> QED
    BY <2>2, <2>3
<1>13. CASE ~(e.physreg # NoReg /\ e.mem = "none")
  <2>1. reg_file' = regs
    BY <1>3, <1>13
  <2>2. ArchStays
    BY <1>9, <2>1 DEF ArchStays, KeepsArch
  <2>3. ASSUME NEW d \in Contexts, NEW j \in DOMAIN ROB'[d], ROB'[d][j].physreg # NoReg
        PROVE  reg_file'[<<ROB'[d][j].inst.dest, ROB'[d][j].physreg>>]
                = IF Written(ROB'[d][j]) THEN "WB" ELSE "ALLOC"
    <3>1. /\ j \in DOMAIN ROB[d] /\ (d # c \/ j <= n)
          /\ ROB'[d][j].physreg = ROB[d][j].physreg /\ ROB'[d][j].inst = ROB[d][j].inst
      BY <1>7, <1>8, <1>10
    <3>2. Written(ROB'[d][j]) <=> Written(ROB[d][j])
      BY <1>7, <1>8, <1>10, <1>13, <2>3, <3>1
    <3>3. reg_file'[<<ROB[d][j].inst.dest, ROB[d][j].physreg>>]
            = reg_file[<<ROB[d][j].inst.dest, ROB[d][j].physreg>>]
      BY <1>9, <2>1, <2>3, <3>1
    <3> QED
      BY <2>3, <3>1, <3>2, <3>3 DEF InFlightApart
  <2> QED
    BY <2>2, <2>3
<1> QED
  BY <1>12, <1>13

LEMMA CommitFlight ==
    ASSUME TypeOK, SingleOwner, WritesMapped, NEW c \in Contexts, commit(c)
    PROVE  InFlightApart'
<1> DEFINE e == ROB[c][1]
           t == e.inst.dest
           p == e.physreg
           q == e.old_physreg
           sh == [d \in Contexts |-> IF d = c THEN 1 ELSE 0]
<1>1. /\ InFlightApart /\ BanksArch /\ c \in context_ids
      /\ ROB[c] \in Seq(Entries) /\ ROB[c] # <<>>
      /\ ROB' = [ROB EXCEPT ![c] = Tail(@)]
  BY DEF SingleOwner, TypeOK, commit
<1>2. /\ e \in Entries /\ 1 \in DOMAIN ROB[c] /\ Len(ROB[c]) \in Nat
      /\ DOMAIN ROB[c] = 1 .. Len(ROB[c])
      /\ DOMAIN Tail(ROB[c]) = 1 .. Len(ROB[c]) - 1
      /\ \A i \in 1 .. Len(ROB[c]) - 1 : Tail(ROB[c])[i] = ROB[c][i + 1]
  BY <1>1, TailFacts
<1>3. ROB'[c] = Tail(ROB[c]) /\ \A d \in Contexts : d # c => ROB'[d] = ROB[d]
  BY <1>1 DEF TypeOK
<1>4. sh \in [Contexts -> {0, 1}] /\ \A d \in Contexts : sh[d] = IF d = c THEN 1 ELSE 0
  OBVIOUS
<1>5. \A d \in Contexts : \A j \in DOMAIN ROB[d] : j \in Int /\ j + 0 = j
  BY DEF TypeOK
<1> HIDE DEF sh
<1>6. \A d \in Contexts : \A j \in DOMAIN ROB'[d] :
        /\ j \in Int /\ j + sh[d] \in DOMAIN ROB[d]
        /\ ROB'[d][j] = ROB[d][j + sh[d]]
        /\ ~(d = c /\ j + sh[d] = 1)
  <2> SUFFICES ASSUME NEW d \in Contexts, NEW j \in DOMAIN ROB'[d]
               PROVE  /\ j \in Int /\ j + sh[d] \in DOMAIN ROB[d]
                      /\ ROB'[d][j] = ROB[d][j + sh[d]]
                      /\ ~(d = c /\ j + sh[d] = 1)
    OBVIOUS
  <2>1. CASE d = c
    <3>1. j \in 1 .. Len(ROB[c]) - 1 /\ sh[d] = 1 /\ ROB'[d][j] = ROB[c][j + 1]
      BY <1>2, <1>3, <1>4, <2>1
    <3> QED
      BY <1>2, <2>1, <3>1
  <2>2. CASE d # c
    <3>1. sh[d] = 0 /\ j \in DOMAIN ROB[d] /\ j + 0 = j /\ j \in Int
      BY <1>3, <1>4, <1>5, <2>2
    <3> QED
      BY <1>3, <2>2, <3>1
  <2> QED
    BY <2>1, <2>2
<1>7. ASSUME NEW d \in Contexts, NEW j \in DOMAIN ROB[d], ROB[d][j].physreg # NoReg,
             ~(d = c /\ j = 1)
      PROVE  reg_file'[<<ROB[d][j].inst.dest, ROB[d][j].physreg>>]
                = reg_file[<<ROB[d][j].inst.dest, ROB[d][j].physreg>>]
  <2>1. CASE p = NoReg
    BY <2>1 DEF commit
  <2>2. CASE p # NoReg
    <3>1. reg_file' = [reg_file EXCEPT ![<<t, q>>] = "FREE", ![<<t, p>>] = "ARCH"]
      BY <2>2 DEF commit
    <3>2. e.inst.out \in Mapped /\ t = TypeOf(e.inst.out)
      BY <1>2, <2>2, EntryField, InstField DEF WritesMapped
    <3>3. reg_file[<<t, q>>] = "ARCH"
      <4>1. CommittedMap(c)[e.inst.out] = q
        BY <1>1, <2>2, <3>2, HeadMapping DEF CommittedMap
      <4> QED
        BY <1>1, <3>2, <4>1 DEF BanksArch
    <3>4. ROB[d][j].inst.dest \in RegTypes /\ ROB[d][j].physreg \in PhysRegs
      <4>1. ROB[d][j] \in Entries
        BY DEF TypeOK
      <4> QED
        BY <1>7, <4>1, EntryField, InstField
    <3>5. ~(ROB[d][j].inst.dest = t /\ ROB[d][j].physreg = q)
      BY <1>1, <1>7, <3>3 DEF InFlightApart
    <3>6. ~(ROB[d][j].inst.dest = t /\ ROB[d][j].physreg = p)
      BY <1>1, <1>2, <1>7, <2>2 DEF InFlightApart
    <3>7. reg_file \in [RegTypes \X PhysRegs -> RegStates]
      BY DEF TypeOK
    <3> HIDE DEF e, t, p, q
    <3> QED
      BY <3>1, <3>4, <3>5, <3>6, <3>7
  <2> QED
    BY <2>1, <2>2
<1>8. \A d \in Contexts : \A j \in DOMAIN ROB'[d] :
        /\ j \in Int
        /\ ROB'[d][j].physreg # NoReg =>
              /\ j + sh[d] \in DOMAIN ROB[d]
              /\ ROB'[d][j].physreg = ROB[d][j + sh[d]].physreg
              /\ ROB'[d][j].inst = ROB[d][j + sh[d]].inst
              /\ reg_file'[<<ROB'[d][j].inst.dest, ROB'[d][j].physreg>>]
                    = IF Written(ROB'[d][j]) THEN "WB" ELSE "ALLOC"
  <2> SUFFICES ASSUME NEW d \in Contexts, NEW j \in DOMAIN ROB'[d]
               PROVE  /\ j \in Int /\ j + sh[d] \in DOMAIN ROB[d]
                      /\ ROB'[d][j].physreg = ROB[d][j + sh[d]].physreg
                      /\ ROB'[d][j].inst = ROB[d][j + sh[d]].inst
                      /\ ROB'[d][j].physreg # NoReg =>
                            reg_file'[<<ROB'[d][j].inst.dest, ROB'[d][j].physreg>>]
                                = IF Written(ROB'[d][j]) THEN "WB" ELSE "ALLOC"
    OBVIOUS
  <2> DEFINE k == j + sh[d]
  <2>1. j \in Int /\ k \in DOMAIN ROB[d] /\ ROB'[d][j] = ROB[d][k] /\ ~(d = c /\ k = 1)
    BY <1>6
  <2> HIDE DEF k
  <2>2. ROB[d][k].physreg # NoReg =>
          reg_file'[<<ROB[d][k].inst.dest, ROB[d][k].physreg>>]
            = IF Written(ROB[d][k]) THEN "WB" ELSE "ALLOC"
    BY <1>1, <1>7, <2>1 DEF InFlightApart
  <2> QED
    BY <2>1, <2>2 DEF k
<1> QED
  BY <1>1, <1>4, <1>8, FlightStep

-----------------------------------------------------------------------------
(* The theorems *)

(* Initially every bank waits on the core and nothing is in flight.        *)
LEMMA InitOwned == Init => Ownership
<1> SUFFICES ASSUME Init PROVE Ownership
  OBVIOUS
<1>1. TypeOK /\ BankPerPlace
  BY InitType
<1>2. Quiet /\ UndoChains
  BY DEF Init, Quiet, UndoChains
<1>3. InFlightApart
  BY DEF Init, InFlightApart
<1>4. NArch \in Nat \ {0} /\ MaxContexts \in Nat \ {0}
  BY SizesAssumption
<1>5. ASSUME NEW k \in DOMAIN arch_regs, NEW a \in Mapped
      PROVE  LET r == IF a < NArch THEN a ELSE a - NArch
             IN  /\ arch_regs[k][a] = (k - 1) * NArch + r /\ r \in 0 .. NArch - 1
                 /\ k \in 1 .. MaxContexts
  BY <1>4 DEF Init, Mapped
<1>6. BanksArch
  <2>1. ASSUME NEW k \in DOMAIN arch_regs, NEW a \in Mapped
        PROVE  reg_file[<<TypeOf(a), arch_regs[k][a]>>] = "ARCH"
    <3>1. arch_regs[k][a] \in PhysRegs /\ arch_regs[k][a] < NArch * MaxContexts
      BY <1>5, InitialBank
    <3>2. TypeOf(a) \in RegTypes
      BY DEF TypeOf, RegTypes
    <3> QED
      BY <3>1, <3>2 DEF Init
  <2>2. context_ids = {}
    BY DEF Init
  <2> QED
    BY <2>1, <2>2 DEF BanksArch
<1>7. BanksApart
  <2>1. ASSUME NEW k \in DOMAIN arch_regs, NEW l \in DOMAIN arch_regs,
               NEW a1 \in Mapped, NEW a2 \in Mapped, Clash(arch_regs[k], a1, arch_regs[l], a2)
        PROVE  k = l /\ a1 = a2
    <3> DEFINE r1 == IF a1 < NArch THEN a1 ELSE a1 - NArch
               r2 == IF a2 < NArch THEN a2 ELSE a2 - NArch
    <3>1. /\ (k - 1) * NArch + r1 = (l - 1) * NArch + r2
          /\ r1 \in 0 .. NArch - 1 /\ r2 \in 0 .. NArch - 1
          /\ k \in Int /\ l \in Int
      BY <1>5, <2>1 DEF Clash
    <3>2. (a1 < NArch) <=> (a2 < NArch)
      BY <2>1 DEF Clash, TypeOf
    <3> HIDE DEF r1, r2
    <3>3. k = l
      <4>1. ASSUME NEW i \in Int, NEW j \in Int, NEW s \in 0 .. NArch - 1, NEW u \in 0 .. NArch - 1,
                   (i - 1) * NArch + s = (j - 1) * NArch + u
            PROVE  ~(i < j)
        <5> SUFFICES ASSUME i < j PROVE FALSE
          OBVIOUS
        <5>1. (j - 1) * NArch = (i - 1) * NArch + (j - i) * NArch /\ (j - i) * NArch >= NArch
          BY <1>4
        <5>2. (i - 1) * NArch \in Int /\ (j - 1) * NArch \in Int /\ (j - i) * NArch \in Int
          BY <1>4
        <5> QED
          BY <1>4, <4>1, <5>1, <5>2
      <4> QED
        BY <3>1, <4>1
    <3>4. r1 = r2
      <4>1. (k - 1) * NArch \in Int
        BY <1>4, <3>1
      <4> QED
        BY <3>1, <3>3, <4>1
    <3> QED
      BY <1>4, <3>2, <3>3, <3>4 DEF r1, r2, Mapped
  <2>2. context_ids = {}
    BY DEF Init
  <2> QED
    BY <2>1, <2>2 DEF BanksApart
<1> QED
  BY <1>1, <1>2, <1>3, <1>6, <1>7 DEF Ownership, SingleOwner

LEMMA PlacedStep ==
    ASSUME Placed, Quiet', UndoChains', TypeOK', BankPerPlace', BanksOwned', InFlightApart'
    PROVE  Ownership'
BY DEF Placed, Ownership, SingleOwner, BanksOwned

(* Every step keeps the invariant and is a step of the abstract map.       *)
LEMMA OwnedStep ==
    ASSUME WritesMapped, Ownership, TypeOK', BankPerPlace', [Next]_vars
    PROVE  Ownership' /\ [Arch!Next]_(Arch!vars)
<1>1. Placed /\ TypeOK /\ BanksOwned /\ InFlightApart /\ SingleOwner
  BY DEF Ownership, Placed, SingleOwner, BanksOwned
<1>2. ASSUME UNCHANGED vars
      PROVE  Ownership' /\ [Arch!Next]_(Arch!vars)
  <2>1. /\ reg_file' = reg_file /\ arch_regs' = arch_regs /\ created' = created
        /\ context_ids' = context_ids /\ rename_table' = rename_table /\ ROB' = ROB
        /\ stale' = stale /\ loading' = loading
    BY <1>2 DEF vars
  <2>2. Quiet' /\ UndoChains'
    BY <1>1, <2>1 DEF Placed, Quiet, UndoChains
  <2>3. \A d : CommittedMap(d)' = CommittedMap(d)
    BY <2>1 DEF CommittedMap
  <2>4. UNCHANGED Arch!vars
    BY <2>1, <2>3, ArchUnchanged
  <2>5. BanksOwned'
    BY <1>1, <2>1, <2>4, BanksUnchanged DEF ArchStays
  <2>6. InFlightApart'
    BY <1>1, <2>1 DEF InFlightApart
  <2> QED
    BY <1>1, <2>2, <2>4, <2>5, <2>6, PlacedStep
<1>3. CASE sim_main
  <2>1. /\ reg_file' = reg_file /\ arch_regs' = arch_regs /\ created' = created
        /\ context_ids' = context_ids /\ rename_table' = rename_table /\ ROB' = ROB
        /\ stale' = stale /\ loading' = FALSE
    BY <1>3 DEF sim_main
  <2>2. Quiet' /\ UndoChains'
    BY <1>1, <2>1 DEF Placed, Quiet, UndoChains
  <2>3. \A d : CommittedMap(d)' = CommittedMap(d)
    BY <2>1 DEF CommittedMap
  <2>4. UNCHANGED Arch!vars
    BY <2>1, <2>3, ArchUnchanged
  <2>5. BanksOwned'
    BY <1>1, <2>1, <2>4, BanksUnchanged DEF ArchStays
  <2>6. InFlightApart'
    BY <1>1, <2>1 DEF InFlightApart
  <2> QED
    BY <1>1, <2>2, <2>4, <2>5, <2>6, PlacedStep
<1>4. CASE finished
  BY <1>2, <1>4 DEF finished
<1>5. ASSUME NEW c \in Contexts, sim_load_prog(c) \/ remote_fork(c)
      PROVE  Ownership' /\ [Arch!Next]_(Arch!vars)
  <2>1. Quiet' /\ UndoChains' /\ Arch!Attach(c)
    BY <1>1, <1>5, AttachPlaced DEF sim_load_prog, remote_fork
  <2>2. reg_file' = reg_file /\ ROB' = ROB
    BY <1>5 DEF sim_load_prog, remote_fork, Attach
  <2>3. InFlightApart' /\ ArchStays
    BY <1>1, <2>2 DEF InFlightApart, ArchStays
  <2>4. BanksOwned'
    BY <1>1, <2>1, <2>3, BanksAttach
  <2> QED
    BY <1>1, <2>1, <2>3, <2>4, PlacedStep DEF Arch!Next
<1>6. ASSUME NEW v \in Contexts, remote_kill(v)
      PROVE  Ownership' /\ [Arch!Next]_(Arch!vars)
  <2>1. Quiet' /\ UndoChains' /\ Arch!Detach(v)
    BY <1>1, <1>6, RemoteKillPlaced
  <2>2. InFlightApart' /\ ArchStays
    BY <1>1, <1>6, RemoteKillFlight
  <2>3. BanksOwned'
    BY <1>1, <2>1, <2>2, BanksDetach
  <2> QED
    BY <1>1, <2>1, <2>2, <2>3, PlacedStep DEF Arch!Next
<1>7. ASSUME NEW c \in Contexts, commit(c)
      PROVE  Ownership' /\ [Arch!Next]_(Arch!vars)
  <2>1. Quiet' /\ UndoChains'
    BY <1>1, <1>7, CommitPlaced
  <2>2. /\ BanksOwned'
        /\ UNCHANGED Arch!vars \/ \E a \in Mapped, r \in PhysRegs : Arch!Retire(c, a, r)
    BY <1>1, <1>7, BanksCommit
  <2>3. InFlightApart'
    BY <1>1, <1>7, CommitFlight
  <2>4. Mapped = Arch!ArchRegs /\ PhysRegs = Arch!PhysRegs
    BY DEF Mapped, PhysRegs, Arch!ArchRegs, Arch!PhysRegs
  <2>5. [Arch!Next]_(Arch!vars)
    BY <2>2, <2>4 DEF Arch!Next
  <2> QED
    BY <1>1, <2>1, <2>2, <2>3, <2>5, PlacedStep
<1>8. ASSUME NEW c \in Contexts, NEW i \in DOMAIN ROB[c], writeback(c, i)
      PROVE  Ownership' /\ [Arch!Next]_(Arch!vars)
  <2>1. Quiet' /\ UndoChains' /\ UNCHANGED Arch!vars
    BY <1>1, <1>8, WritebackPlaced
  <2>2. InFlightApart' /\ ArchStays
    BY <1>1, <1>8, WritebackFlight
  <2>3. BanksOwned'
    BY <1>1, <2>1, <2>2, BanksUnchanged
  <2> QED
    BY <1>1, <2>1, <2>2, <2>3, PlacedStep
<1>9. ASSUME NEW c \in Contexts, NEW i \in DOMAIN ROB[c], LoadDone(c, i) \/ StoreDone(c, i)
      PROVE  Ownership' /\ [Arch!Next]_(Arch!vars)
  <2>1. LSQDone(c, i) /\ c \in context_ids /\ ROB[c][i].mem = "pending"
    BY <1>9 DEF LoadDone, StoreDone
  <2>2. Quiet' /\ UndoChains' /\ UNCHANGED Arch!vars
    BY <1>1, <2>1, LSQDonePlaced
  <2>3. InFlightApart' /\ ArchStays
    BY <1>1, <2>1, LSQDoneFlight
  <2>4. BanksOwned'
    BY <1>1, <2>2, <2>3, BanksUnchanged
  <2> QED
    BY <1>1, <2>2, <2>3, <2>4, PlacedStep
<1>10. ASSUME NEW c \in Contexts, NEW inst \in Insts, NEW m \in BOOLEAN,
              register_rename(c, inst, m)
       PROVE  Ownership' /\ [Arch!Next]_(Arch!vars)
  <2>1. Quiet' /\ UndoChains' /\ UNCHANGED Arch!vars
    BY <1>1, <1>10, RenamePlaced
  <2>2. InFlightApart' /\ ArchStays
    BY <1>1, <1>10, RenameFlight
  <2>3. BanksOwned'
    BY <1>1, <2>1, <2>2, BanksUnchanged
  <2> QED
    BY <1>1, <2>1, <2>2, <2>3, PlacedStep
<1>11. ASSUME NEW c \in Contexts, NEW inst \in Insts, NEW n \in 0 .. MaxStale, exit(c, inst, n)
       PROVE  Ownership' /\ [Arch!Next]_(Arch!vars)
  <2>1. Quiet' /\ UndoChains' /\ Arch!Detach(c)
    BY <1>1, <1>11, ExitPlaced
  <2>2. InFlightApart' /\ ArchStays
    BY <1>1, <1>11, ExitFlight
  <2>3. BanksOwned'
    BY <1>1, <2>1, <2>2, BanksDetach
  <2> QED
    BY <1>1, <2>1, <2>2, <2>3, PlacedStep DEF Arch!Next
<1>12. ASSUME NEW c \in Contexts, NEW d \in Contexts, NEW inst \in Insts, fork(c, d, inst)
       PROVE  Ownership' /\ [Arch!Next]_(Arch!vars)
  <2>1. Quiet' /\ UndoChains' /\ Arch!Attach(d)
    BY <1>1, <1>12, ForkPlaced
  <2>2. InFlightApart' /\ ArchStays
    BY <1>1, <1>12, ForkFlight
  <2>3. BanksOwned'
    BY <1>1, <2>1, <2>2, BanksAttach
  <2> QED
    BY <1>1, <2>1, <2>2, <2>3, PlacedStep DEF Arch!Next
<1>13. ASSUME NEW c \in Contexts, NEW d \in Contexts, NEW inst \in Insts, kill(c, d, inst)
       PROVE  Ownership' /\ [Arch!Next]_(Arch!vars)
  <2>1. Quiet' /\ UndoChains' /\ Arch!Detach(d)
    BY <1>1, <1>13, KillPlaced
  <2>2. InFlightApart' /\ ArchStays
    BY <1>1, <1>13, KillFlight
  <2>3. BanksOwned'
    BY <1>1, <2>1, <2>2, BanksDetach
  <2> QED
    BY <1>1, <2>1, <2>2, <2>3, PlacedStep DEF Arch!Next
<1> QED
  BY <1>2, <1>3, <1>4, <1>5, <1>6, <1>7, <1>8, <1>9, <1>10, <1>11, <1>12, <1>13 DEF Next

(* The two assertions of commit follow from the ownership of registers.    *)
LEMMA OwnedCommit ==
    ASSUME WritesMapped, Ownership
    PROVE  CommitSafe
<1> SUFFICES ASSUME NEW c \in context_ids, ROB[c] # <<>>, Committable(ROB[c][1]),
                    ROB[c][1].physreg # NoReg
             PROVE  /\ reg_file[<<ROB[c][1].inst.dest, ROB[c][1].old_physreg>>] = "ARCH"
                    /\ reg_file[<<ROB[c][1].inst.dest, ROB[c][1].physreg>>] = "WB"
  BY DEF CommitSafe
<1>1. ROB[c] \in Seq(Entries) /\ c \in Contexts /\ BanksArch /\ InFlightApart
  BY DEF Ownership, TypeOK, SingleOwner
<1>2. ROB[c][1] \in Entries /\ 1 \in DOMAIN ROB[c]
  BY <1>1, TailFacts
<1>3. ROB[c][1].inst.out \in Mapped /\ ROB[c][1].inst.dest = TypeOf(ROB[c][1].inst.out)
  BY <1>2, EntryField, InstField DEF WritesMapped
<1>4. CommittedMap(c)[ROB[c][1].inst.out] = ROB[c][1].old_physreg
  BY <1>1, <1>3, HeadMapping DEF CommittedMap
<1>5. reg_file[<<ROB[c][1].inst.dest, ROB[c][1].old_physreg>>] = "ARCH"
  BY <1>1, <1>3, <1>4 DEF BanksArch
<1>6. Written(ROB[c][1])
  <2>1. ROB[c][1].mem \in {"none", "pending", "done"}
    BY <1>2, EntryField
  <2> QED
    BY <2>1 DEF Written, Committable
<1>7. reg_file[<<ROB[c][1].inst.dest, ROB[c][1].physreg>>] = "WB"
  BY <1>1, <1>2, <1>6 DEF InFlightApart
<1> QED
  BY <1>5, <1>7

LEMMA InitArch == Init => Arch!Init
<1> SUFFICES ASSUME Init PROVE Arch!Init
  OBVIOUS
<1>1. context_ids = {} /\ Mapped = Arch!ArchRegs
  BY DEF Init, Mapped, Arch!ArchRegs
<1>2. [c \in context_ids |-> CommittedMap(c)] = [c \in {} |-> 0]
  BY <1>1
<1> QED
  BY <1>1, <1>2 DEF Init, Arch!Init

(* What is known of the places of contexts, banks and registers is an      *)
(* invariant: the inductive strengthening of the two properties below.     *)
THEOREM OwnershipInvariant ==
    ASSUME WritesMapped
    PROVE  Spec => []Ownership
<1>1. Ownership /\ (TypeOK /\ BankPerPlace)' /\ [Next]_vars => Ownership'
  BY OwnedStep
<1> QED
  BY InitOwned, TypeCorrect, <1>1, PTL DEF Spec

(* No physical register ever has two owners, whatever the interleaving of  *)
(* renaming, squashes, commits, forks, kills and exits.                    *)
THEOREM OwnershipCorrect ==
    ASSUME WritesMapped
    PROVE  Spec => []SingleOwner
<1>1. Ownership => SingleOwner
  BY DEF Ownership
<1> QED
  BY OwnershipInvariant, <1>1, PTL

(* The assertions of commit on the states of the two registers hold.       *)
THEOREM CommitCorrect ==
    ASSUME WritesMapped
    PROVE  Spec => []CommitSafe
<1>1. Ownership => CommitSafe
  BY OwnedCommit
<1> QED
  BY OwnershipInvariant, <1>1, PTL

(* Renaming implements the abstract map: what a program sees changes only  *)
(* when one of its instructions commits.                                   *)
THEOREM MapImplemented ==
    ASSUME WritesMapped
    PROVE  Spec => CommittedState
<1>1. Ownership /\ (TypeOK /\ BankPerPlace)' /\ [Next]_vars => Ownership' /\ [Arch!Next]_(Arch!vars)
  BY OwnedStep
<1> QED
  BY InitOwned, InitArch, TypeCorrect, <1>1, PTL DEF Spec, CommittedState, Arch!Spec

-----------------------------------------------------------------------------
(* Program order: sources and replaced mappings are those of the newest    *)
(* older writer (MappingsInOrder), and the wrong path is exactly what is   *)
(* younger than the one unresolved branch (SpecBracket).                   *)
(*                                                                         *)
(* The mapping of a register before an instruction is what undoing it and  *)
(* everything younger would leave in the rename table.  Written that way,  *)
(* no step of the pipeline changes it for an instruction that stays.       *)

-----------------------------------------------------------------------------
(* Undoing part of a reorder buffer that has changed *)

(* A new youngest entry is undone first, and restores the old table.       *)
LEMMA UndoAppend ==
    ASSUME NEW rob \in Seq(Entries), NEW e \in Entries, NEW table, NEW table2,
           e.physreg # NoReg => e.old_physreg = table[e.inst.out],
           \A a \in ArchRegs : e.physreg = NoReg \/ a # e.inst.out => table2[a] = table[a],
           NEW n \in 0 .. Len(rob)
    PROVE  TableAfterSquash(Append(rob, e), table2, n) = TableAfterSquash(rob, table, n)
<1> DEFINE rob2 == Append(rob, e)
<1> SUFFICES ASSUME NEW a \in ArchRegs
             PROVE  TableAfterSquash(rob2, table2, n)[a] = TableAfterSquash(rob, table, n)[a]
  BY DEF TableAfterSquash
<1>1. /\ rob2 \in Seq(Entries) /\ Len(rob) \in Nat /\ n \in Nat
      /\ \A i \in 1 .. Len(rob) : rob2[i] = rob[i]
      /\ rob2[Len(rob) + 1] = e
  BY AppendFacts
<1>2. Writers(rob, a) \subseteq 1 .. Len(rob)
  BY WritersNat
<1>3. CASE \A i \in Writers(rob, a) : i <= n
  <2>1. TableAfterSquash(rob, table, n)[a] = table[a]
    BY <1>1, <1>3, TableOfKept
  <2>2. CASE e.physreg # NoReg /\ e.inst.out = a
    <3>1. Writers(rob2, a) = Writers(rob, a) \cup {Len(rob) + 1}
      BY <2>2, WritersAppend
    <3>2. /\ Len(rob) + 1 \in Writers(rob2, a) /\ Len(rob) + 1 > n
          /\ \A j \in Writers(rob2, a) : j > n => Len(rob) + 1 <= j
      BY <1>1, <1>2, <1>3, <3>1
    <3> HIDE DEF rob2
    <3>3. TableAfterSquash(rob2, table2, n)[a] = rob2[Len(rob) + 1].old_physreg
      BY <1>1, <3>2, TableOfUndone
    <3> QED
      BY <1>1, <2>1, <2>2, <3>3
  <2>3. CASE ~(e.physreg # NoReg /\ e.inst.out = a)
    <3>1. Writers(rob2, a) = Writers(rob, a) /\ table2[a] = table[a]
      BY <2>3, WritersAppendOther
    <3> HIDE DEF rob2
    <3> QED
      BY <1>1, <1>3, <2>1, <3>1, TableOfKept
  <2> QED
    BY <2>2, <2>3
<1>4. CASE ~ \A i \in Writers(rob, a) : i <= n
  <2> DEFINE undone == {k \in Writers(rob, a) : k > n}
  <2>1. undone # {} /\ undone \in SUBSET Nat
    BY <1>1, <1>2, <1>4
  <2>2. PICK i \in undone : \A k \in undone : i <= k
    BY <2>1, LeastNat
  <2>3. i \in Writers(rob, a) /\ i > n /\ \A k \in Writers(rob, a) : k > n => i <= k
    BY <2>2
  <2>4. TableAfterSquash(rob, table, n)[a] = rob[i].old_physreg
    BY <1>1, <2>3, TableOfUndone
  <2>5. /\ i \in Writers(rob2, a)
        /\ \A k \in Writers(rob2, a) : k > n => i <= k
    <3>1. Writers(rob2, a) = Writers(rob, a) \cup
              IF e.physreg # NoReg /\ e.inst.out = a THEN {Len(rob) + 1} ELSE {}
      BY WritersAppend
    <3> QED
      BY <1>1, <1>2, <2>3, <3>1
  <2> HIDE DEF rob2
  <2>6. TableAfterSquash(rob2, table2, n)[a] = rob2[i].old_physreg
    BY <1>1, <2>3, <2>5, TableOfUndone
  <2>7. i \in 1 .. Len(rob)
    BY <1>2, <2>3
  <2>8. rob2[i] = rob[i]
    BY <1>1, <2>7
  <2> QED
    BY <2>4, <2>6, <2>8
<1> QED
  BY <1>3, <1>4

(* Undoing down to the n-th entry and then further down is undoing at once.*)
LEMMA UndoSquash ==
    ASSUME NEW rob \in Seq(Entries), NEW table, NEW n \in 0 .. Len(rob), NEW m \in 0 .. n
    PROVE  TableAfterSquash(SubSeq(rob, 1, n), TableAfterSquash(rob, table, n), m)
               = TableAfterSquash(rob, table, m)
<1> DEFINE rob2 == SubSeq(rob, 1, n)
           table2 == TableAfterSquash(rob, table, n)
<1> SUFFICES ASSUME NEW a \in ArchRegs
             PROVE  TableAfterSquash(rob2, table2, m)[a] = TableAfterSquash(rob, table, m)[a]
  BY DEF TableAfterSquash
<1>1. /\ rob2 \in Seq(Entries) /\ Len(rob) \in Nat /\ n \in Nat /\ m \in Nat /\ m <= n
      /\ \A i \in 1 .. n : rob2[i] = rob[i]
  BY SquashFacts
<1>2. Writers(rob2, a) = {i \in Writers(rob, a) : i <= n}
  BY WritersSquash
<1>3. Writers(rob, a) \subseteq 1 .. Len(rob)
  BY WritersNat
<1> HIDE DEF rob2
<1>4. CASE \A i \in Writers(rob, a) : i <= m
  <2>1. /\ \A i \in Writers(rob2, a) : i <= m
        /\ \A i \in Writers(rob, a) : i <= n
    BY <1>1, <1>2, <1>3, <1>4
  <2>2. TableAfterSquash(rob2, table2, m)[a] = table2[a]
    BY <1>1, <2>1, TableOfKept
  <2>3. table2[a] = table[a] /\ TableAfterSquash(rob, table, m)[a] = table[a]
    BY <1>1, <1>4, <2>1, TableOfKept
  <2> QED
    BY <2>2, <2>3
<1>5. CASE ~ \A i \in Writers(rob, a) : i <= m
  <2> DEFINE undone == {k \in Writers(rob, a) : k > m}
  <2>1. undone # {} /\ undone \in SUBSET Nat
    BY <1>1, <1>3, <1>5
  <2>2. PICK i \in undone : \A k \in undone : i <= k
    BY <2>1, LeastNat
  <2>3. i \in Writers(rob, a) /\ i > m /\ \A k \in Writers(rob, a) : k > m => i <= k
    BY <2>2
  <2>4. TableAfterSquash(rob, table, m)[a] = rob[i].old_physreg
    BY <1>1, <2>3, TableOfUndone
  <2>5. i \in 1 .. Len(rob)
    BY <1>3, <2>3
  <2>6. CASE i <= n
    <3>1. i \in Writers(rob2, a) /\ \A k \in Writers(rob2, a) : k > m => i <= k
      BY <1>2, <2>3, <2>6
    <3> HIDE DEF table2
    <3>2. TableAfterSquash(rob2, table2, m)[a] = rob2[i].old_physreg
      BY <1>1, <2>3, <3>1, TableOfUndone
    <3> QED
      BY <1>1, <2>4, <2>5, <2>6, <3>2
  <2>7. CASE i > n
    <3>1. \A k \in Writers(rob2, a) : k <= m
      BY <1>1, <1>2, <1>3, <2>3, <2>5, <2>7
    <3>2. \A k \in Writers(rob, a) : k > n => i <= k
      BY <1>1, <1>3, <2>3
    <3>3. table2[a] = rob[i].old_physreg
      BY <1>1, <2>3, <2>7, <3>2, TableOfUndone
    <3> HIDE DEF table2
    <3>4. TableAfterSquash(rob2, table2, m)[a] = table2[a]
      BY <1>1, <3>1, TableOfKept
    <3> QED
      BY <2>4, <3>3, <3>4
  <2> QED
    BY <1>1, <2>5, <2>6, <2>7
<1> QED
  BY <1>4, <1>5

(* Completing an entry does not change what undoing leaves.                *)
LEMMA UndoSame ==
    ASSUME NEW rob \in Seq(Entries), NEW rob2 \in Seq(Entries), NEW table, NEW n \in Nat,
           SameMappings(rob, rob2)
    PROVE  TableAfterSquash(rob2, table, n) = TableAfterSquash(rob, table, n)
<1> SUFFICES ASSUME NEW a \in ArchRegs
             PROVE  TableAfterSquash(rob2, table, n)[a] = TableAfterSquash(rob, table, n)[a]
  BY DEF TableAfterSquash
<1>1. Writers(rob2, a) = Writers(rob, a) /\ Writers(rob, a) \in SUBSET Nat
  BY WritersSame, WritersNat
<1>2. CASE \A i \in Writers(rob, a) : i <= n
  BY <1>1, <1>2, TableOfKept
<1>3. CASE ~ \A i \in Writers(rob, a) : i <= n
  <2> DEFINE undone == {k \in Writers(rob, a) : k > n}
  <2>1. undone # {} /\ undone \in SUBSET Nat
    BY <1>1, <1>3
  <2>2. PICK i \in undone : \A k \in undone : i <= k
    BY <2>1, LeastNat
  <2>3. i \in Writers(rob, a) /\ i > n /\ \A k \in Writers(rob, a) : k > n => i <= k
    BY <2>2
  <2>4. TableAfterSquash(rob, table, n)[a] = rob[i].old_physreg
    BY <2>3, TableOfUndone
  <2>5. TableAfterSquash(rob2, table, n)[a] = rob2[i].old_physreg
    BY <1>1, <2>3, TableOfUndone
  <2>6. rob2[i].old_physreg = rob[i].old_physreg
    BY <2>3 DEF SameMappings, Writers
  <2> QED
    BY <2>4, <2>5, <2>6
<1> QED
  BY <1>2, <1>3

(* Removing the head only renumbers the entries.                           *)
LEMMA UndoTail ==
    ASSUME NEW rob \in Seq(Entries), rob # <<>>, NEW table, NEW n \in Nat
    PROVE  TableAfterSquash(Tail(rob), table, n) = TableAfterSquash(rob, table, n + 1)
<1> DEFINE rob2 == Tail(rob)
<1> SUFFICES ASSUME NEW a \in ArchRegs
             PROVE  TableAfterSquash(rob2, table, n)[a] = TableAfterSquash(rob, table, n + 1)[a]
  BY DEF TableAfterSquash
<1>1. rob2 \in Seq(Entries) /\ Writers(rob, a) \in SUBSET Nat /\ Writers(rob2, a) \in SUBSET Nat
  BY TailFacts, WritersNat
<1>2. \A i \in Nat : i \in Writers(rob2, a) <=> i >= 1 /\ i + 1 \in Writers(rob, a)
  BY WritersTail
<1>3. CASE \A i \in Writers(rob, a) : i <= n + 1
  <2>1. \A i \in Writers(rob2, a) : i <= n
    BY <1>1, <1>2, <1>3
  <2>2. TableAfterSquash(rob2, table, n)[a] = table[a]
    BY <1>1, <2>1, TableOfKept
  <2>3. TableAfterSquash(rob, table, n + 1)[a] = table[a]
    BY <1>3, TableOfKept
  <2> QED
    BY <2>2, <2>3
<1>4. CASE ~ \A i \in Writers(rob, a) : i <= n + 1
  <2> DEFINE undone == {k \in Writers(rob, a) : k > n + 1}
  <2>1. undone # {} /\ undone \in SUBSET Nat
    BY <1>1, <1>4
  <2>2. PICK i \in undone : \A k \in undone : i <= k
    BY <2>1, LeastNat
  <2>3. /\ i \in Writers(rob, a) /\ i > n + 1 /\ i \in Nat
        /\ \A k \in Writers(rob, a) : k > n + 1 => i <= k
    BY <2>1, <2>2
  <2>4. TableAfterSquash(rob, table, n + 1)[a] = rob[i].old_physreg
    BY <2>3, TableOfUndone
  <2>5. i - 1 \in Writers(rob2, a) /\ rob2[i - 1] = rob[i]
    <3>1. i # 1
      BY <2>3
    <3> QED
      BY <2>3, <3>1, WriterShift
  <2>6. i - 1 > n /\ \A k \in Writers(rob2, a) : k > n => i - 1 <= k
    <3>1. \A k \in Writers(rob2, a) : k \in Nat /\ k + 1 \in Writers(rob, a)
      BY <1>1, <1>2
    <3> QED
      BY <2>3, <3>1
  <2> HIDE DEF rob2
  <2>7. TableAfterSquash(rob2, table, n)[a] = rob2[i - 1].old_physreg
    BY <1>1, <2>5, <2>6, TableOfUndone
  <2> QED
    BY <2>4, <2>5, <2>7
<1> QED
  BY <1>3, <1>4

(* In a chain, what undoing the n-th entry and everything younger leaves   *)
(* is the mapping that the n-th entry finds in program order.              *)
LEMMA UndoIsBefore ==
    ASSUME NEW c \in Contexts, ROB[c] \in Seq(Entries), UndoChain(ROB[c], rename_table[c]),
           NEW n \in 0 .. Len(ROB[c]), NEW a \in ArchRegs
    PROVE  TableAfterSquash(ROB[c], rename_table[c], n)[a] = MappingBefore(c, n + 1, a)
<1> DEFINE rob == ROB[c]
           table == rename_table[c]
           W == Writers(rob, a)
           older == {j \in W : j < n + 1}
           undone == {j \in W : j > n}
<1>1. W \in SUBSET Nat /\ n \in Nat /\ Len(rob) \in Nat /\ W \subseteq 1 .. Len(rob)
  BY WritersNat
<1>2. MappingBefore(c, n + 1, a) = IF older = {} THEN CommittedReg(rob, table, a)
                                   ELSE rob[Newest(older)].physreg
  BY DEF MappingBefore
<1>3. CASE older = {}
  <2>1. undone = W
    BY <1>1, <1>3
  <2> QED
    BY <1>2, <1>3, <2>1 DEF TableAfterSquash, CommittedReg
<1>4. CASE older # {}
  <2>1. Newest(older) \in older /\ \A j \in older : j <= Newest(older)
    <3>1. \E i \in older : \A j \in older : j <= i
      <4> DEFINE gap == {m \in 0 .. n : \E i \in older : i = n - m}
      <4>1. PICK i \in older : TRUE
        BY <1>4
      <4>2. n - i \in gap /\ gap \in SUBSET Nat
        BY <1>1, <4>1
      <4>3. PICK m \in gap : \A k \in gap : m <= k
        BY <4>2, LeastNat
      <4>4. PICK j \in older : j = n - m
        BY <4>3
      <4>5. ASSUME NEW k \in older PROVE k <= j
        <5>1. n - k \in gap /\ k \in Nat /\ m \in Nat
          BY <1>1, <4>3
        <5>2. m <= n - k
          BY <4>3, <5>1
        <5> QED
          BY <1>1, <4>4, <5>1, <5>2
      <4> QED
        BY <4>4, <4>5
    <3> QED
      BY <3>1 DEF Newest
  <2> DEFINE i == Newest(older)
  <2>2. i \in W /\ i <= n /\ i \in Nat /\ \A j \in W : j <= n => j <= i
    BY <1>1, <2>1
  <2> HIDE DEF i
  <2>3. CASE undone = {}
    <3>1. \A j \in W : j <= n /\ j <= i
      BY <1>1, <2>2, <2>3
    <3>2. table[a] = rob[i].physreg
      BY <2>2, <3>1 DEF UndoChain
    <3>3. TableAfterSquash(rob, table, n)[a] = table[a]
      BY <1>1, <3>1, TableOfKept
    <3> QED
      BY <1>2, <1>4, <3>2, <3>3 DEF i
  <2>4. CASE undone # {}
    <3>1. PICK j \in undone : \A k \in undone : j <= k
      BY <1>1, <2>4, LeastNat
    <3>2. j \in W /\ j > n /\ j \in Nat /\ \A k \in W : k > n => j <= k
      BY <1>1, <3>1
    <3>3. i < j /\ \A k \in W : k <= i \/ j <= k
      BY <1>1, <2>2, <3>2
    <3>4. rob[j].old_physreg = rob[i].physreg
      BY <2>2, <3>2, <3>3 DEF UndoChain
    <3>5. TableAfterSquash(rob, table, n)[a] = rob[j].old_physreg
      BY <1>1, <3>2, TableOfUndone, SMTT(30)
    <3> QED
      BY <1>2, <1>4, <3>4, <3>5 DEF i
  <2> QED
    BY <2>3, <2>4
<1> QED
  BY <1>3, <1>4

-----------------------------------------------------------------------------
(* What a step does to a context that is attached after it *)

Resting(d) ==
    ROB'[d] = ROB[d] /\ rename_table'[d] = rename_table[d] /\ spec_mode'[d] = spec_mode[d]

Renamed(d) ==
    \E inst \in Insts, m \in BOOLEAN :
        /\ CanRename(d, inst) /\ (m => inst.kind = "branch")
        /\ ROB'[d] = Append(ROB[d], NewEntry(d, inst, m))
        /\ rename_table'[d] = IF Renames(inst)
                                THEN [rename_table[d] EXCEPT ![inst.out] = find_free_physreg(inst.dest)]
                                ELSE rename_table[d]
        /\ spec_mode'[d] = (spec_mode[d] \/ m)

Finishing(d) == \E i \in DOMAIN ROB[d] : writeback(d, i) \/ LSQDone(d, i)

Arriving(d) == d \notin created /\ ROB'[d] = <<>> /\ spec_mode'[d] = spec_mode[d]

Progress(d) == d \in context_ids /\ (Resting(d) \/ Renamed(d) \/ Finishing(d) \/ commit(d))

(* A trap renames no destination. *)
LEMMA TrapRenames ==
    ASSUME NEW inst \in Insts, inst.kind = "trap"
    PROVE  ~Renames(inst)
BY InstsAssumption DEF Renames

LEMMA AttachProgress ==
    ASSUME TypeOK, Quiet, NEW c \in Contexts, Attach(c), NEW d \in context_ids'
    PROVE  Progress(d) \/ Arriving(d)
<1>1. /\ context_ids' = context_ids \cup {c} /\ c \notin created /\ ROB' = ROB
      /\ spec_mode' = spec_mode /\ \A e \in Contexts : e # c => rename_table'[e] = rename_table[e]
  BY DEF Attach, addcontext, TypeOK
<1>2. context_ids \subseteq Contexts
  BY DEF TypeOK
<1>3. CASE d = c
  BY <1>1, <1>3 DEF Quiet, Arriving
<1>4. CASE d # c
  BY <1>1, <1>2, <1>4 DEF Progress, Resting
<1> QED
  BY <1>3, <1>4

LEMMA ForkProgress ==
    ASSUME TypeOK, Quiet, NEW p \in Contexts, NEW c \in Contexts, NEW inst \in Insts,
           fork(p, c, inst), NEW d \in context_ids'
    PROVE  Progress(d) \/ Arriving(d)
<1>1. /\ context_ids' = context_ids \cup {c} /\ c \notin created /\ CanRename(p, inst)
      /\ inst.kind = "trap"
      /\ \A e \in Contexts : e # c => rename_table'[e] = rename_table[e]
      /\ spec_mode' = spec_mode
      /\ ROB' = [ROB EXCEPT ![p] = Append(@, NewEntry(p, inst, FALSE))]
  BY DEF fork, addcontext, TypeOK
<1>2. /\ context_ids \subseteq Contexts /\ p \in created
      /\ ROB \in [Contexts -> Seq(Entries)] /\ spec_mode \in [Contexts -> BOOLEAN]
  BY <1>1 DEF TypeOK, CanRename, Quiet
<1>3. CASE d = c
  BY <1>1, <1>2, <1>3 DEF Quiet, Arriving
<1>4. CASE d # c /\ d # p
  BY <1>1, <1>2, <1>4 DEF Progress, Resting
<1>5. CASE d # c /\ d = p
  <2>1. ~Renames(inst)
    BY <1>1, TrapRenames
  <2>2. ROB'[d] = Append(ROB[d], NewEntry(d, inst, FALSE)) /\ rename_table'[d] = rename_table[d]
    BY <1>1, <1>2, <1>5
  <2>3. spec_mode'[d] = (spec_mode[d] \/ FALSE)
    BY <1>1, <1>2, <1>5
  <2>4. Renamed(d)
    BY <1>1, <1>5, <2>1, <2>2, <2>3, Zenon DEF Renamed
  <2> QED
    BY <1>1, <1>5, <2>4 DEF Progress
<1> QED
  BY <1>3, <1>4, <1>5

LEMMA KillProgress ==
    ASSUME TypeOK, NEW k \in Contexts, NEW v \in Contexts, NEW inst \in Insts,
           kill(k, v, inst), NEW d \in context_ids'
    PROVE  Progress(d)
<1>1. /\ context_ids' = context_ids \ {v} /\ k # v /\ CanRename(k, inst) /\ inst.kind = "trap"
      /\ \A e \in Contexts : e # v => /\ rename_table'[e] = rename_table[e]
                                      /\ spec_mode'[e] = spec_mode[e]
      /\ ROB' = [ROB EXCEPT ![v] = <<>>, ![k] = Append(@, NewEntry(k, inst, FALSE))]
  BY DEF kill, FlushAndEject, TypeOK
<1>2. /\ d \in Contexts /\ d \in context_ids /\ d # v
      /\ ROB \in [Contexts -> Seq(Entries)] /\ spec_mode \in [Contexts -> BOOLEAN]
  BY <1>1 DEF TypeOK
<1>3. CASE d # k
  BY <1>1, <1>2, <1>3 DEF Progress, Resting
<1>4. CASE d = k
  <2>1. ~Renames(inst)
    BY <1>1, TrapRenames
  <2>2. ROB'[d] = Append(ROB[d], NewEntry(d, inst, FALSE)) /\ rename_table'[d] = rename_table[d]
    BY <1>1, <1>2, <1>4
  <2>3. spec_mode'[d] = (spec_mode[d] \/ FALSE)
    BY <1>1, <1>2
  <2>4. Renamed(d)
    BY <1>1, <1>4, <2>1, <2>2, <2>3, Zenon DEF Renamed
  <2> QED
    BY <1>2, <2>4 DEF Progress
<1> QED
  BY <1>3, <1>4

LEMMA RenameProgress ==
    ASSUME TypeOK, NEW c \in Contexts, NEW inst \in Insts, NEW m \in BOOLEAN,
           register_rename(c, inst, m), NEW d \in context_ids'
    PROVE  Progress(d)
<1>1. /\ context_ids' = context_ids /\ CanRename(c, inst) /\ (m => inst.kind = "branch")
      /\ ROB' = [ROB EXCEPT ![c] = Append(@, NewEntry(c, inst, m))]
      /\ spec_mode' = [spec_mode EXCEPT ![c] = @ \/ m]
      /\ Renames(inst) => rename_table' =
            [rename_table EXCEPT ![c][inst.out] = find_free_physreg(inst.dest)]
      /\ ~Renames(inst) => rename_table' = rename_table
  BY DEF register_rename
<1>2. /\ d \in Contexts /\ d \in context_ids /\ ROB \in [Contexts -> Seq(Entries)]
      /\ spec_mode \in [Contexts -> BOOLEAN]
      /\ rename_table \in [Contexts -> [ArchRegs -> PhysRegs]]
  BY <1>1 DEF TypeOK
<1>3. CASE d # c
  BY <1>1, <1>2, <1>3 DEF Progress, Resting
<1>4. CASE d = c
  <2>1. ROB'[d] = Append(ROB[d], NewEntry(d, inst, m))
    BY <1>1, <1>2, <1>4
  <2>2. rename_table'[d] = IF Renames(inst)
                             THEN [rename_table[d] EXCEPT ![inst.out] = find_free_physreg(inst.dest)]
                             ELSE rename_table[d]
    BY <1>1, <1>2, <1>4
  <2>3. spec_mode'[d] = (spec_mode[d] \/ m)
    BY <1>1, <1>2, <1>4
  <2>4. Renamed(d)
    BY <1>1, <1>4, <2>1, <2>2, <2>3, Zenon DEF Renamed
  <2> QED
    BY <1>2, <2>4 DEF Progress
<1> QED
  BY <1>3, <1>4

(* Every step of the core, seen from one context.                          *)
LEMMA ContextStep ==
    ASSUME TypeOK, Quiet, [Next]_vars, NEW d \in context_ids'
    PROVE  Progress(d) \/ Arriving(d)
<1>1. context_ids \subseteq Contexts
  BY DEF TypeOK
<1>2. CASE sim_main \/ finished \/ UNCHANGED vars
  BY <1>1, <1>2 DEF sim_main, finished, vars, Progress, Resting
<1>3. ASSUME NEW c \in Contexts, sim_load_prog(c) \/ remote_fork(c)
      PROVE  Progress(d) \/ Arriving(d)
  BY <1>3, AttachProgress DEF sim_load_prog, remote_fork
<1>4. ASSUME NEW v \in Contexts, remote_kill(v)
      PROVE  Progress(d)
  BY <1>1, <1>4 DEF remote_kill, FlushAndEject, TypeOK, Progress, Resting
<1>5. ASSUME NEW c \in Contexts, commit(c)
      PROVE  Progress(d)
  BY <1>1, <1>5 DEF commit, TypeOK, Progress, Resting
<1>6. ASSUME NEW c \in Contexts, NEW i \in DOMAIN ROB[c], writeback(c, i)
      PROVE  Progress(d)
  <2>1. CASE d = c
    <3>1. context_ids' = context_ids
      BY <1>6 DEF writeback
    <3> QED
      BY <1>6, <2>1, <3>1 DEF Progress, Finishing
  <2>2. CASE d # c
    BY <1>1, <1>6, <2>2 DEF writeback, TypeOK, Progress, Resting
  <2> QED
    BY <2>1, <2>2
<1>7. ASSUME NEW c \in Contexts, NEW i \in DOMAIN ROB[c], LoadDone(c, i) \/ StoreDone(c, i)
      PROVE  Progress(d)
  <2>1. LSQDone(c, i) /\ context_ids' = context_ids
    BY <1>7 DEF LoadDone, StoreDone, LSQDone
  <2>2. CASE d = c
    BY <2>1, <2>2 DEF Progress, Finishing
  <2>3. CASE d # c
    BY <1>1, <2>1, <2>3 DEF LSQDone, TypeOK, Progress, Resting
  <2> QED
    BY <2>2, <2>3
<1>8. ASSUME NEW c \in Contexts, NEW inst \in Insts, NEW m \in BOOLEAN,
             register_rename(c, inst, m)
      PROVE  Progress(d)
  BY <1>8, RenameProgress
<1>9. ASSUME NEW c \in Contexts, NEW inst \in Insts, NEW n \in 0 .. MaxStale, exit(c, inst, n)
      PROVE  Progress(d)
  BY <1>1, <1>9 DEF exit, FlushAndEject, TypeOK, Progress, Resting
<1>10. ASSUME NEW p \in Contexts, NEW c \in Contexts, NEW inst \in Insts, fork(p, c, inst)
       PROVE  Progress(d) \/ Arriving(d)
  BY <1>10, ForkProgress
<1>11. ASSUME NEW k \in Contexts, NEW v \in Contexts, NEW inst \in Insts, kill(k, v, inst)
       PROVE  Progress(d)
  BY <1>11, KillProgress
<1> QED
  BY <1>2, <1>3, <1>4, <1>5, <1>6, <1>7, <1>8, <1>9, <1>10, <1>11 DEF Next

-----------------------------------------------------------------------------
(* The invariant *)

(* The sources of an instruction are what undoing it and everything        *)
(* younger would leave.                                                    *)
SourcesKept(rob, table) ==
    \A i \in DOMAIN rob, k \in 1 .. 2 :
        rob[i].src_physreg[k] = TableAfterSquash(rob, table, i - 1)[rob[i].inst.in[k]]

OrderInv ==
    /\ Placed
    /\ \A d \in Contexts \ created : ~spec_mode[d]
    /\ \A d \in context_ids : Bracketed(ROB[d], spec_mode[d]) /\ SourcesKept(ROB[d], rename_table[d])

LEMMA PlacedKept ==
    ASSUME Placed, TypeOK', BankPerPlace', [Next]_vars
    PROVE  Placed'
<1>1. ASSUME UNCHANGED vars PROVE Quiet' /\ UndoChains'
  BY <1>1 DEF vars, Placed, Quiet, UndoChains
<1>2. CASE sim_main
  BY <1>2 DEF sim_main, Placed, Quiet, UndoChains
<1>3. CASE finished
  BY <1>1, <1>3 DEF finished, Placed
<1>4. ASSUME NEW c \in Contexts, sim_load_prog(c) \/ remote_fork(c)
      PROVE  Quiet' /\ UndoChains'
  BY <1>4, AttachPlaced DEF sim_load_prog, remote_fork
<1>5. ASSUME NEW v \in Contexts, remote_kill(v)
      PROVE  Quiet' /\ UndoChains'
  BY <1>5, RemoteKillPlaced
<1>6. ASSUME NEW c \in Contexts, commit(c)
      PROVE  Quiet' /\ UndoChains'
  BY <1>6, CommitPlaced
<1>7. ASSUME NEW c \in Contexts, NEW i \in DOMAIN ROB[c], writeback(c, i)
      PROVE  Quiet' /\ UndoChains'
  BY <1>7, WritebackPlaced
<1>8. ASSUME NEW c \in Contexts, NEW i \in DOMAIN ROB[c], LoadDone(c, i) \/ StoreDone(c, i)
      PROVE  Quiet' /\ UndoChains'
  BY <1>8, LSQDonePlaced DEF LoadDone, StoreDone
<1>9. ASSUME NEW c \in Contexts, NEW inst \in Insts, NEW m \in BOOLEAN,
             register_rename(c, inst, m)
      PROVE  Quiet' /\ UndoChains'
  BY <1>9, RenamePlaced
<1>10. ASSUME NEW c \in Contexts, NEW inst \in Insts, NEW n \in 0 .. MaxStale, exit(c, inst, n)
       PROVE  Quiet' /\ UndoChains'
  BY <1>10, ExitPlaced
<1>11. ASSUME NEW p \in Contexts, NEW c \in Contexts, NEW inst \in Insts, fork(p, c, inst)
       PROVE  Quiet' /\ UndoChains'
  BY <1>11, ForkPlaced
<1>12. ASSUME NEW k \in Contexts, NEW v \in Contexts, NEW inst \in Insts, kill(k, v, inst)
       PROVE  Quiet' /\ UndoChains'
  BY <1>12, KillPlaced
<1> QED
  BY <1>1, <1>2, <1>3, <1>4, <1>5, <1>6, <1>7, <1>8, <1>9, <1>10, <1>11, <1>12
     DEF Next, Placed

(* A context that has never been attached has never been on a wrong path.  *)
LEMMA UncreatedStep ==
    ASSUME TypeOK, Quiet, [Next]_vars, NEW d \in Contexts, d \notin created'
    PROVE  d \notin created /\ spec_mode'[d] = spec_mode[d]
<1>1. context_ids \subseteq created /\ spec_mode \in [Contexts -> BOOLEAN]
  BY DEF TypeOK
<1>2. CASE sim_main \/ finished \/ UNCHANGED vars
  BY <1>2 DEF sim_main, finished, vars
<1>3. ASSUME NEW c \in Contexts, sim_load_prog(c) \/ remote_fork(c) \/ remote_kill(c) \/ commit(c)
      PROVE  d \notin created /\ spec_mode'[d] = spec_mode[d]
  BY <1>1, <1>3 DEF sim_load_prog, remote_fork, Attach, addcontext, remote_kill, FlushAndEject, commit
<1>4. ASSUME NEW c \in Contexts, NEW i \in DOMAIN ROB[c], writeback(c, i)
      PROVE  d \notin created /\ spec_mode'[d] = spec_mode[d]
  BY <1>1, <1>4 DEF writeback
<1>5. ASSUME NEW c \in Contexts, NEW i \in DOMAIN ROB[c], LoadDone(c, i) \/ StoreDone(c, i)
      PROVE  d \notin created /\ spec_mode'[d] = spec_mode[d]
  BY <1>1, <1>5 DEF LoadDone, StoreDone, LSQDone
<1>6. ASSUME NEW c \in Contexts, NEW inst \in Insts, NEW m \in BOOLEAN,
             register_rename(c, inst, m)
      PROVE  d \notin created /\ spec_mode'[d] = spec_mode[d]
  <2>1. created' = created /\ spec_mode' = [spec_mode EXCEPT ![c] = @ \/ m] /\ CanRename(c, inst)
    BY <1>6 DEF register_rename
  <2>2. c # d
    BY <1>1, <2>1 DEF CanRename, Quiet
  <2> QED
    BY <1>1, <2>1, <2>2
<1>7. ASSUME NEW c \in Contexts, NEW inst \in Insts, NEW n \in 0 .. MaxStale, exit(c, inst, n)
      PROVE  d \notin created /\ spec_mode'[d] = spec_mode[d]
  BY <1>1, <1>7 DEF exit, FlushAndEject
<1>8. ASSUME NEW c \in Contexts, NEW e \in Contexts, NEW inst \in Insts,
             fork(c, e, inst) \/ kill(c, e, inst)
      PROVE  d \notin created /\ spec_mode'[d] = spec_mode[d]
  BY <1>1, <1>8 DEF fork, addcontext, kill, FlushAndEject
<1> QED
  BY <1>2, <1>3, <1>4, <1>5, <1>6, <1>7, <1>8 DEF Next

-----------------------------------------------------------------------------
(* Sources *)

(* What NewEntry records, when its destination can be renamed.             *)
LEMMA NewEntryFacts ==
    ASSUME TypeOK, NEW c \in Contexts, NEW inst \in Insts, NEW m \in BOOLEAN, CanRename(c, inst)
    PROVE  /\ NewEntry(c, inst, m) \in Entries /\ NewEntry(c, inst, m).inst = inst
           /\ Renames(inst) => /\ NewEntry(c, inst, m).physreg = find_free_physreg(inst.dest)
                               /\ NewEntry(c, inst, m).old_physreg = rename_table[c][inst.out]
                               /\ find_free_physreg(inst.dest) \in PhysRegs
           /\ ~Renames(inst) => NewEntry(c, inst, m).physreg = NoReg
           /\ \A k \in 1 .. 2 : NewEntry(c, inst, m).src_physreg[k] = rename_table[c][inst.in[k]]
<1>1. inst.dest # "NONE" => FreeRegs(inst.dest) # {}
  BY DEF CanRename
<1>2. NewEntry(c, inst, m) \in Entries
  BY <1>1, NewEntryType, ZenonT(60)
<1>3. Renames(inst) => find_free_physreg(inst.dest) \in PhysRegs
  BY <1>1, FreeFound, SizesAssumption DEF Renames
<1> QED
  BY <1>2, <1>3 DEF NewEntry

LEMMA SourcesAppend ==
    ASSUME TypeOK, NEW c \in Contexts, Renamed(c), SourcesKept(ROB[c], rename_table[c])
    PROVE  SourcesKept(ROB'[c], rename_table'[c])
<1> DEFINE rob == ROB[c]
           rob2 == ROB'[c]
           table == rename_table[c]
           table2 == rename_table'[c]
<1>1. PICK inst \in Insts, m \in BOOLEAN :
        /\ CanRename(c, inst) /\ rob2 = Append(rob, NewEntry(c, inst, m))
        /\ table2 = IF Renames(inst) THEN [table EXCEPT ![inst.out] = find_free_physreg(inst.dest)]
                    ELSE table
  BY DEF Renamed
<1> DEFINE e == NewEntry(c, inst, m)
           last == Len(rob) + 1
<1>2. rob \in Seq(Entries) /\ table \in [ArchRegs -> PhysRegs]
  BY DEF TypeOK
<1>3. /\ e \in Entries /\ e.inst = inst
      /\ Renames(inst) => /\ e.physreg = find_free_physreg(inst.dest) /\ e.old_physreg = table[inst.out]
                          /\ e.physreg \in PhysRegs
      /\ ~Renames(inst) => e.physreg = NoReg
      /\ \A k \in 1 .. 2 : e.src_physreg[k] = table[inst.in[k]]
  BY <1>1, NewEntryFacts
<1>4. inst.out \in ArchRegs /\ \A k \in 1 .. 2 : inst.in[k] \in ArchRegs
  BY InstsAssumption DEF InstType
<1> HIDE DEF e
<1>5. /\ e.physreg # NoReg => e.old_physreg = table[e.inst.out]
      /\ \A a \in ArchRegs : e.physreg = NoReg \/ a # e.inst.out => table2[a] = table[a]
  <2>1. \A r \in PhysRegs : r # NoReg
    BY DEF PhysRegs, NoReg
  <2> QED
    BY <1>1, <1>2, <1>3, <1>4, <2>1
<1>6. rob2 = Append(rob, e)
  BY <1>1 DEF e
<1>7. /\ Len(rob) \in Nat /\ DOMAIN rob = 1 .. Len(rob) /\ DOMAIN rob2 = 1 .. last
      /\ \A i \in 1 .. Len(rob) : rob2[i] = rob[i]
      /\ rob2[last] = e
  BY <1>2, <1>3, <1>6, AppendFacts
<1> HIDE DEF rob, rob2, table, table2
<1>8. \A n \in 0 .. Len(rob) : TableAfterSquash(rob2, table2, n) = TableAfterSquash(rob, table, n)
  BY <1>2, <1>3, <1>5, <1>6, UndoAppend
<1>9. ASSUME NEW i \in 1 .. last, NEW k \in 1 .. 2
      PROVE  rob2[i].src_physreg[k] = TableAfterSquash(rob2, table2, i - 1)[rob2[i].inst.in[k]]
  <2>1. CASE i = last
    <3>1. \A a \in ArchRegs : TableAfterSquash(rob, table, Len(rob))[a] = table[a]
      BY <1>2, <1>7, WritersNat, TableOfKept
    <3>2. i - 1 = Len(rob) /\ Len(rob) \in 0 .. Len(rob)
      BY <1>7, <2>1
    <3>3. TableAfterSquash(rob2, table2, i - 1)[inst.in[k]] = table[inst.in[k]]
      BY <1>4, <1>8, <3>1, <3>2
    <3> QED
      BY <1>3, <1>7, <2>1, <3>3
  <2>2. CASE i # last
    <3>1. i \in DOMAIN rob /\ rob2[i] = rob[i] /\ i - 1 \in 0 .. Len(rob)
      BY <1>7, <2>2
    <3>2. rob[i].src_physreg[k] = TableAfterSquash(rob, table, i - 1)[rob[i].inst.in[k]]
      BY <3>1 DEF SourcesKept, rob, table
    <3> QED
      BY <1>8, <3>1, <3>2
  <2> QED
    BY <2>1, <2>2
<1>10. SourcesKept(rob2, table2)
  BY <1>7, <1>9 DEF SourcesKept
<1> QED
  BY <1>10 DEF rob2, table2

(* Completing an entry leaves the sources of every entry.                  *)
LEMMA SourcesSame ==
    ASSUME NEW rob \in Seq(Entries), NEW rob2 \in Seq(Entries), NEW table, SameMappings(rob, rob2),
           \A i \in DOMAIN rob : rob2[i].src_physreg = rob[i].src_physreg,
           SourcesKept(rob, table)
    PROVE  SourcesKept(rob2, table)
<1> SUFFICES ASSUME NEW i \in DOMAIN rob2, NEW k \in 1 .. 2
             PROVE  rob2[i].src_physreg[k] = TableAfterSquash(rob2, table, i - 1)[rob2[i].inst.in[k]]
  BY DEF SourcesKept
<1>1. i \in DOMAIN rob /\ rob2[i].inst = rob[i].inst
  BY DEF SameMappings
<1>2. i - 1 \in Nat
  BY <1>1
<1>3. rob[i].src_physreg[k] = TableAfterSquash(rob, table, i - 1)[rob[i].inst.in[k]]
  BY <1>1 DEF SourcesKept
<1>4. TableAfterSquash(rob2, table, i - 1) = TableAfterSquash(rob, table, i - 1)
  BY <1>2, UndoSame
<1> QED
  BY <1>1, <1>3, <1>4

LEMMA SourcesSquash ==
    ASSUME NEW rob \in Seq(Entries), NEW table, NEW n \in 0 .. Len(rob), SourcesKept(rob, table)
    PROVE  SourcesKept(SubSeq(rob, 1, n), TableAfterSquash(rob, table, n))
<1> DEFINE rob2 == SubSeq(rob, 1, n)
           table2 == TableAfterSquash(rob, table, n)
<1>1. /\ DOMAIN rob = 1 .. Len(rob) /\ DOMAIN rob2 = 1 .. n /\ Len(rob) \in Nat
      /\ \A i \in 1 .. n : rob2[i] = rob[i]
  BY SquashFacts
<1>2. \A m \in 0 .. n : TableAfterSquash(rob2, table2, m) = TableAfterSquash(rob, table, m)
  BY UndoSquash
<1> HIDE DEF rob2, table2
<1>3. ASSUME NEW i \in 1 .. n, NEW k \in 1 .. 2
      PROVE  rob2[i].src_physreg[k] = TableAfterSquash(rob2, table2, i - 1)[rob2[i].inst.in[k]]
  <2>1. i \in DOMAIN rob /\ i - 1 \in 0 .. n
    BY <1>1
  <2>2. rob[i].src_physreg[k] = TableAfterSquash(rob, table, i - 1)[rob[i].inst.in[k]]
    BY <2>1 DEF SourcesKept
  <2> QED
    BY <1>1, <1>2, <2>1, <2>2
<1> QED
  BY <1>1, <1>3 DEF SourcesKept, rob2, table2

LEMMA SourcesTail ==
    ASSUME NEW rob \in Seq(Entries), rob # <<>>, NEW table, SourcesKept(rob, table)
    PROVE  SourcesKept(Tail(rob), table)
<1> DEFINE rob2 == Tail(rob)
<1>1. /\ DOMAIN rob = 1 .. Len(rob) /\ DOMAIN rob2 = 1 .. Len(rob) - 1 /\ Len(rob) \in Nat
      /\ \A i \in 1 .. Len(rob) - 1 : rob2[i] = rob[i + 1]
  BY TailFacts
<1>2. \A m \in Nat : TableAfterSquash(rob2, table, m) = TableAfterSquash(rob, table, m + 1)
  BY UndoTail
<1> HIDE DEF rob2
<1>3. ASSUME NEW i \in 1 .. Len(rob) - 1, NEW k \in 1 .. 2
      PROVE  rob2[i].src_physreg[k] = TableAfterSquash(rob2, table, i - 1)[rob2[i].inst.in[k]]
  <2>1. i + 1 \in DOMAIN rob /\ i - 1 \in Nat /\ (i - 1) + 1 = i /\ (i + 1) - 1 = i
    BY <1>1
  <2>2. rob[i + 1].src_physreg[k] = TableAfterSquash(rob, table, i)[rob[i + 1].inst.in[k]]
    BY <2>1 DEF SourcesKept
  <2>3. TableAfterSquash(rob2, table, i - 1) = TableAfterSquash(rob, table, i)
    BY <1>2, <2>1
  <2>4. rob2[i] = rob[i + 1]
    BY <1>1
  <2> QED
    BY <2>2, <2>3, <2>4
<1> QED
  BY <1>1, <1>3 DEF SourcesKept, rob2

LEMMA SourcesFinish ==
    ASSUME TypeOK, NEW c \in Contexts, Finishing(c), SourcesKept(ROB[c], rename_table[c])
    PROVE  SourcesKept(ROB'[c], rename_table'[c])
<1>1. ROB[c] \in Seq(Entries) /\ ROB \in [Contexts -> Seq(Entries)]
      /\ rename_table \in [Contexts -> [ArchRegs -> PhysRegs]]
  BY DEF TypeOK
<1>2. ASSUME NEW i \in DOMAIN ROB[c], writeback(c, i)
      PROVE  SourcesKept(ROB'[c], rename_table'[c])
  <2> DEFINE n == IF ROB[c][i].recover_inst THEN i ELSE Len(ROB[c])
             kept == SubSeq(ROB[c], 1, n)
             new == [kept EXCEPT ![i].completed = TRUE]
  <2>1. /\ n \in 0 .. Len(ROB[c]) /\ i \in 1 .. n /\ kept \in Seq(Entries) /\ new \in Seq(Entries)
        /\ DOMAIN kept = 1 .. n
        /\ SameMappings(kept, new) /\ ROB' = [ROB EXCEPT ![c] = new]
    BY <1>2, WritebackROB
  <2>2. \A j \in DOMAIN kept : new[j].src_physreg = kept[j].src_physreg
    <3> HIDE DEF kept
    <3> QED
      BY <2>1
  <2>3. ROB'[c] = new
    BY <1>1, <2>1
  <2>4. SourcesKept(kept, rename_table'[c])
    <3>1. CASE ROB[c][i].recover_inst
      <4>1. rename_table'[c] = TableAfterSquash(ROB[c], rename_table[c], n)
        BY <1>1, <1>2, <3>1 DEF writeback
      <4> HIDE DEF n
      <4> QED
        BY <1>1, <2>1, <4>1, SourcesSquash
    <3>2. CASE ~ROB[c][i].recover_inst
      <4>1. rename_table'[c] = rename_table[c]
        BY <1>2, <3>2 DEF writeback
      <4>2. kept = ROB[c]
        BY <1>1, <3>2
      <4> QED
        BY <4>1, <4>2
    <3> QED
      BY <3>1, <3>2
  <2> HIDE DEF kept, new, n
  <2> QED
    BY <2>1, <2>2, <2>3, <2>4, SourcesSame
<1>3. ASSUME NEW i \in DOMAIN ROB[c], LSQDone(c, i)
      PROVE  SourcesKept(ROB'[c], rename_table'[c])
  <2> DEFINE new == [ROB[c] EXCEPT ![i].mem = "done"]
  <2>1. ROB'[c] = new /\ rename_table'[c] = rename_table[c]
    BY <1>1, <1>3 DEF LSQDone
  <2>2. new \in Seq(Entries) /\ SameMappings(ROB[c], new)
    BY <1>1, CompleteType
  <2>3. \A j \in DOMAIN ROB[c] : new[j].src_physreg = ROB[c][j].src_physreg
    BY <1>1
  <2> HIDE DEF new
  <2> QED
    BY <1>1, <2>1, <2>2, <2>3, SourcesSame
<1> QED
  BY <1>2, <1>3 DEF Finishing

(* Whatever a step does to a context, its sources stay those of its        *)
(* program order.                                                          *)
LEMMA SourcesStep ==
    ASSUME TypeOK, NEW c \in Contexts, Progress(c) \/ Arriving(c),
           c \in context_ids => SourcesKept(ROB[c], rename_table[c])
    PROVE  SourcesKept(ROB'[c], rename_table'[c])
<1>1. CASE Arriving(c)
  BY <1>1 DEF Arriving, SourcesKept
<1>2. CASE Progress(c) /\ Resting(c)
  BY <1>2 DEF Progress, Resting
<1>3. CASE Progress(c) /\ Renamed(c)
  BY <1>3, SourcesAppend DEF Progress
<1>4. CASE Progress(c) /\ Finishing(c)
  BY <1>4, SourcesFinish DEF Progress
<1>5. CASE Progress(c) /\ commit(c)
  <2>1. ROB[c] \in Seq(Entries) /\ ROB[c] # <<>> /\ ROB'[c] = Tail(ROB[c]) /\ rename_table' = rename_table
    BY <1>5 DEF commit, TypeOK
  <2> QED
    BY <1>5, <2>1, SourcesTail DEF Progress
<1> QED
  BY <1>1, <1>2, <1>3, <1>4, <1>5 DEF Progress

-----------------------------------------------------------------------------
(* The wrong path *)

LEMMA BracketAppend ==
    ASSUME TypeOK, NEW c \in Contexts, Renamed(c), Bracketed(ROB[c], spec_mode[c])
    PROVE  Bracketed(ROB'[c], spec_mode'[c])
<1> DEFINE rob == ROB[c]
           rob2 == ROB'[c]
           last == Len(rob) + 1
<1>1. PICK inst \in Insts, m \in BOOLEAN :
        /\ CanRename(c, inst) /\ rob2 = Append(rob, NewEntry(c, inst, m))
        /\ spec_mode'[c] = (spec_mode[c] \/ m)
  BY DEF Renamed
<1> DEFINE e == NewEntry(c, inst, m)
<1>2. rob \in Seq(Entries) /\ spec_mode[c] \in BOOLEAN
  BY DEF TypeOK
<1>3. /\ e \in Entries /\ e.completed = FALSE
      /\ e.recover_inst = (m /\ ~spec_mode[c]) /\ e.spec_mode = spec_mode[c]
  BY <1>1, NewEntryFacts DEF NewEntry
<1>4. /\ Len(rob) \in Nat /\ DOMAIN rob = 1 .. Len(rob) /\ DOMAIN rob2 = 1 .. last
      /\ \A i \in 1 .. Len(rob) : rob2[i] = rob[i]
      /\ rob2[last] = e
  BY <1>1, <1>2, <1>3, AppendFacts
<1>5. \A i \in DOMAIN rob2 : i = last \/ (i \in DOMAIN rob /\ rob2[i] = rob[i] /\ i < last)
  BY <1>4
<1> HIDE DEF rob, rob2, e
<1>6. Bracketed(rob, spec_mode[c])
  BY DEF rob
<1>7. CASE spec_mode[c]
  <2>1. PICK b \in DOMAIN rob : /\ rob[b].recover_inst /\ ~rob[b].completed
                                /\ \A i \in DOMAIN rob :
                                    /\ rob[i].spec_mode <=> i > b
                                    /\ rob[i].recover_inst /\ ~rob[i].completed => i = b
    BY <1>6, <1>7 DEF Bracketed
  <2>2. b \in DOMAIN rob2 /\ rob2[b] = rob[b] /\ b < last
    BY <1>4
  <2>3. ASSUME NEW i \in DOMAIN rob2
        PROVE  /\ rob2[i].spec_mode <=> i > b
               /\ rob2[i].recover_inst /\ ~rob2[i].completed => i = b
    BY <1>3, <1>4, <1>5, <1>7, <2>1, <2>2
  <2>4. spec_mode'[c]
    BY <1>1, <1>7
  <2> QED
    BY <2>1, <2>2, <2>3, <2>4 DEF Bracketed, rob2
<1>8. CASE ~spec_mode[c] /\ m
  <2>1. spec_mode'[c]
    BY <1>1, <1>8
  <2>5. last \in DOMAIN rob2
    BY <1>4
  <2>2. rob2[last].recover_inst /\ ~rob2[last].completed
    BY <1>3, <1>4, <1>8
  <2>3. \A i \in DOMAIN rob : ~rob[i].spec_mode /\ (rob[i].recover_inst => rob[i].completed)
    BY <1>6, <1>8 DEF Bracketed
  <2>4. ASSUME NEW i \in DOMAIN rob2
        PROVE  /\ rob2[i].spec_mode <=> i > last
               /\ rob2[i].recover_inst /\ ~rob2[i].completed => i = last
    BY <1>3, <1>4, <1>5, <1>8, <2>3
  <2> QED
    BY <2>1, <2>2, <2>4, <2>5 DEF Bracketed, rob2
<1>9. CASE ~spec_mode[c] /\ ~m
  <2>1. ~spec_mode'[c]
    BY <1>1, <1>9
  <2>2. \A i \in DOMAIN rob : ~rob[i].spec_mode /\ (rob[i].recover_inst => rob[i].completed)
    BY <1>6, <1>9 DEF Bracketed
  <2>3. ASSUME NEW i \in DOMAIN rob2
        PROVE  ~rob2[i].spec_mode /\ (rob2[i].recover_inst => rob2[i].completed)
    BY <1>3, <1>4, <1>5, <1>9, <2>2
  <2> QED
    BY <2>1, <2>3 DEF Bracketed, rob2
<1> QED
  BY <1>7, <1>8, <1>9

(* A branch that turns out mispredicted takes the wrong path away; another *)
(* completion leaves the branch that opened it.                            *)
LEMMA BracketWriteback ==
    ASSUME TypeOK, NEW c \in Contexts, NEW i \in DOMAIN ROB[c], writeback(c, i),
           Bracketed(ROB[c], spec_mode[c])
    PROVE  Bracketed(ROB'[c], spec_mode'[c])
<1> DEFINE rob == ROB[c]
           rob2 == ROB'[c]
           n == IF ROB[c][i].recover_inst THEN i ELSE Len(ROB[c])
           kept == SubSeq(ROB[c], 1, n)
           new == [kept EXCEPT ![i].completed = TRUE]
<1>1. rob \in Seq(Entries) /\ spec_mode \in [Contexts -> BOOLEAN] /\ rob[i] \in Entries
  BY DEF TypeOK
<1>2. /\ n \in 0 .. Len(ROB[c]) /\ i \in 1 .. n /\ kept \in Seq(Entries)
      /\ DOMAIN kept = 1 .. n /\ \A k \in 1 .. n : kept[k] = ROB[c][k]
      /\ ROB' = [ROB EXCEPT ![c] = new]
  BY WritebackROB
<1>3. rob2 = new
  BY <1>2 DEF TypeOK
<1>4. ~rob[i].completed
  BY DEF writeback
<1>5. /\ DOMAIN new = 1 .. n
      /\ \A j \in 1 .. n : /\ new[j].spec_mode = kept[j].spec_mode
                           /\ new[j].recover_inst = kept[j].recover_inst
                           /\ j # i => new[j].completed = kept[j].completed
      /\ new[i].completed = TRUE
  <2> HIDE DEF kept, n
  <2>1. kept[i] \in Entries
    BY <1>2
  <2>2. new[i] = [kept[i] EXCEPT !.completed = TRUE]
    BY <1>2
  <2>3. /\ new[i].spec_mode = kept[i].spec_mode /\ new[i].recover_inst = kept[i].recover_inst
        /\ new[i].completed = TRUE
    BY <2>1, <2>2 DEF Entries
  <2>4. DOMAIN new = 1 .. n /\ \A j \in 1 .. n : j # i => new[j] = kept[j]
    BY <1>2
  <2> QED
    BY <2>3, <2>4
<1> HIDE DEF new, kept
<1>6. /\ DOMAIN rob2 = 1 .. n /\ 1 .. n \subseteq DOMAIN rob
      /\ \A j \in 1 .. n : /\ rob2[j].spec_mode = rob[j].spec_mode
                           /\ rob2[j].recover_inst = rob[j].recover_inst
                           /\ j # i => rob2[j].completed = rob[j].completed
      /\ rob2[i].completed = TRUE
      /\ i \in 1 .. n
  BY <1>1, <1>2, <1>3, <1>5
<1>7. Bracketed(rob, spec_mode[c])
  OBVIOUS
<1>8. CASE rob[i].recover_inst
  <2>1. n = i /\ ~spec_mode'[c]
    BY <1>1, <1>8 DEF writeback
  <2>2. spec_mode[c]
    BY <1>4, <1>7, <1>8 DEF Bracketed
  <2>3. \A j \in DOMAIN rob : /\ rob[j].spec_mode <=> j > i
                              /\ rob[j].recover_inst /\ ~rob[j].completed => j = i
    BY <1>4, <1>7, <1>8, <2>2 DEF Bracketed
  <2> HIDE DEF rob, rob2, n
  <2>4. ASSUME NEW j \in DOMAIN rob2
        PROVE  ~rob2[j].spec_mode /\ (rob2[j].recover_inst => rob2[j].completed)
    <3>1. j \in 1 .. n /\ j \in DOMAIN rob /\ ~(j > i)
      BY <1>6, <2>1
    <3> QED
      BY <1>6, <2>3, <3>1
  <2> QED
    BY <2>1, <2>4 DEF Bracketed, rob2
<1>9. CASE ~rob[i].recover_inst
  <2>1. n = Len(rob) /\ DOMAIN rob2 = DOMAIN rob
    BY <1>1, <1>6, <1>9
  <2>2. spec_mode' = spec_mode
    BY <1>9 DEF writeback
  <2> HIDE DEF rob, rob2, n
  <2>3. CASE spec_mode[c]
    <3>1. PICK b \in DOMAIN rob : /\ rob[b].recover_inst /\ ~rob[b].completed
                                  /\ \A j \in DOMAIN rob :
                                      /\ rob[j].spec_mode <=> j > b
                                      /\ rob[j].recover_inst /\ ~rob[j].completed => j = b
      BY <1>7, <2>3 DEF Bracketed
    <3>2. b # i /\ b \in DOMAIN rob2 /\ rob2[b].recover_inst /\ ~rob2[b].completed
      BY <1>6, <1>9, <2>1, <3>1
    <3>3. ASSUME NEW j \in DOMAIN rob2
          PROVE  /\ rob2[j].spec_mode <=> j > b
                 /\ rob2[j].recover_inst /\ ~rob2[j].completed => j = b
      BY <1>6, <1>9, <2>1, <3>1
    <3> QED
      BY <2>2, <2>3, <3>2, <3>3 DEF Bracketed, rob2
  <2>4. CASE ~spec_mode[c]
    <3>1. \A j \in DOMAIN rob : ~rob[j].spec_mode /\ (rob[j].recover_inst => rob[j].completed)
      BY <1>7, <2>4 DEF Bracketed
    <3>2. ASSUME NEW j \in DOMAIN rob2
          PROVE  ~rob2[j].spec_mode /\ (rob2[j].recover_inst => rob2[j].completed)
      BY <1>6, <2>1, <3>1
    <3> QED
      BY <2>2, <2>4, <3>2 DEF Bracketed, rob2
  <2> QED
    BY <2>3, <2>4
<1> QED
  BY <1>8, <1>9

LEMMA BracketLSQ ==
    ASSUME TypeOK, NEW c \in Contexts, NEW i \in DOMAIN ROB[c], LSQDone(c, i),
           Bracketed(ROB[c], spec_mode[c])
    PROVE  Bracketed(ROB'[c], spec_mode'[c])
<1> DEFINE rob == ROB[c]
           rob2 == ROB'[c]
<1>1. rob2 = [rob EXCEPT ![i].mem = "done"] /\ rob \in Seq(Entries) /\ spec_mode' = spec_mode
  BY DEF LSQDone, TypeOK
<1>2. /\ DOMAIN rob2 = DOMAIN rob
      /\ \A j \in DOMAIN rob : /\ rob2[j].spec_mode = rob[j].spec_mode
                                /\ rob2[j].recover_inst = rob[j].recover_inst
                                /\ rob2[j].completed = rob[j].completed
  <2> HIDE DEF rob, rob2
  <2>1. i \in DOMAIN rob
    BY DEF rob
  <2>2. rob[i] \in Entries /\ rob2[i] = [rob[i] EXCEPT !.mem = "done"]
    BY <1>1, <2>1
  <2>3. /\ rob2[i].spec_mode = rob[i].spec_mode /\ rob2[i].recover_inst = rob[i].recover_inst
        /\ rob2[i].completed = rob[i].completed
    BY <2>2 DEF Entries
  <2>4. DOMAIN rob2 = DOMAIN rob /\ \A j \in DOMAIN rob : j # i => rob2[j] = rob[j]
    BY <1>1
  <2> QED
    BY <2>3, <2>4
<1> HIDE DEF rob2
<1> QED
  BY <1>1, <1>2 DEF Bracketed, rob2

LEMMA BracketCommit ==
    ASSUME TypeOK, NEW c \in Contexts, commit(c), Bracketed(ROB[c], spec_mode[c])
    PROVE  Bracketed(ROB'[c], spec_mode'[c])
<1> DEFINE rob == ROB[c]
           rob2 == ROB'[c]
<1>1. /\ rob \in Seq(Entries) /\ rob # <<>> /\ rob2 = Tail(rob) /\ spec_mode' = spec_mode
      /\ rob[1].completed
  BY DEF commit, Committable, TypeOK
<1> HIDE DEF rob, rob2
<1>2. /\ DOMAIN rob = 1 .. Len(rob) /\ DOMAIN rob2 = 1 .. Len(rob) - 1 /\ Len(rob) \in Nat
      /\ \A i \in 1 .. Len(rob) - 1 : rob2[i] = rob[i + 1]
  BY <1>1, TailFacts
<1>3. \A i \in DOMAIN rob2 : i + 1 \in DOMAIN rob /\ rob2[i] = rob[i + 1] /\ i \in Nat
  BY <1>2
<1>4. Bracketed(rob, spec_mode[c])
  BY DEF rob
<1>5. CASE spec_mode[c]
  <2>1. PICK b \in DOMAIN rob : /\ rob[b].recover_inst /\ ~rob[b].completed
                                /\ \A j \in DOMAIN rob :
                                    /\ rob[j].spec_mode <=> j > b
                                    /\ rob[j].recover_inst /\ ~rob[j].completed => j = b
    BY <1>4, <1>5 DEF Bracketed
  <2>2. b # 1
    BY <1>1, <2>1
  <2>3. b - 1 \in DOMAIN rob2 /\ (b - 1) + 1 = b /\ b \in Nat
    BY <1>2, <2>2
  <2>4. rob2[b - 1] = rob[b]
    BY <1>3, <2>3
  <2>5. ASSUME NEW i \in DOMAIN rob2
        PROVE  /\ rob2[i].spec_mode <=> i > b - 1
               /\ rob2[i].recover_inst /\ ~rob2[i].completed => i = b - 1
    <3>1. i + 1 \in DOMAIN rob /\ rob2[i] = rob[i + 1] /\ i \in Nat
      BY <1>3
    <3>2. /\ rob[i + 1].spec_mode <=> i + 1 > b
          /\ rob[i + 1].recover_inst /\ ~rob[i + 1].completed => i + 1 = b
      BY <2>1, <3>1
    <3>3. (i + 1 > b <=> i > b - 1) /\ (i + 1 = b => i = b - 1)
      BY <2>3, <3>1
    <3> QED
      BY <3>1, <3>2, <3>3
  <2> QED
    BY <1>1, <1>5, <2>1, <2>3, <2>4, <2>5 DEF Bracketed, rob2
<1>6. CASE ~spec_mode[c]
  BY <1>1, <1>3, <1>4, <1>6 DEF Bracketed, rob2
<1> QED
  BY <1>5, <1>6

LEMMA BracketStep ==
    ASSUME TypeOK, NEW c \in Contexts, Progress(c) \/ Arriving(c),
           c \in context_ids => Bracketed(ROB[c], spec_mode[c]),
           c \notin created => ~spec_mode[c]
    PROVE  Bracketed(ROB'[c], spec_mode'[c])
<1>1. CASE Arriving(c)
  BY <1>1 DEF Arriving, Bracketed
<1>2. CASE Progress(c) /\ Resting(c)
  BY <1>2 DEF Progress, Resting
<1>3. CASE Progress(c) /\ Renamed(c)
  BY <1>3, BracketAppend DEF Progress
<1>4. CASE Progress(c) /\ Finishing(c)
  BY <1>4, BracketWriteback, BracketLSQ DEF Progress, Finishing
<1>5. CASE Progress(c) /\ commit(c)
  BY <1>5, BracketCommit DEF Progress
<1> QED
  BY <1>1, <1>2, <1>3, <1>4, <1>5 DEF Progress

-----------------------------------------------------------------------------
(* The theorems *)

LEMMA InitOrder == Init => OrderInv
<1> SUFFICES ASSUME Init PROVE OrderInv
  OBVIOUS
<1>1. Placed
  BY InitOwned DEF Ownership, Placed
<1>2. context_ids = {} /\ \A d \in Contexts : ~spec_mode[d]
  BY DEF Init
<1> QED
  BY <1>1, <1>2 DEF OrderInv

LEMMA OrderStep ==
    ASSUME OrderInv, TypeOK', BankPerPlace', [Next]_vars
    PROVE  OrderInv'
<1>1. Placed /\ TypeOK /\ Quiet /\ context_ids \subseteq Contexts
  BY DEF OrderInv, Placed, TypeOK
<1>2. Placed'
  BY <1>1, PlacedKept
<1>3. \A d \in Contexts \ created' : ~spec_mode'[d]
  BY <1>1, UncreatedStep DEF OrderInv
<1>4. ASSUME NEW d \in context_ids'
      PROVE  Bracketed(ROB'[d], spec_mode'[d]) /\ SourcesKept(ROB'[d], rename_table'[d])
  <2>1. d \in Contexts /\ (Progress(d) \/ Arriving(d))
    BY <1>1, ContextStep DEF TypeOK
  <2>2. /\ d \in context_ids => Bracketed(ROB[d], spec_mode[d]) /\ SourcesKept(ROB[d], rename_table[d])
        /\ d \notin created => ~spec_mode[d]
    BY <2>1 DEF OrderInv
  <2> QED
    BY <1>1, <2>1, <2>2, SourcesStep, BracketStep
<1> QED
  BY <1>2, <1>3, <1>4 DEF OrderInv

(* Whatever a context renames, squashes and commits, a chain of kept       *)
(* sources is one in which every mapping is that of program order.         *)
LEMMA KeptInOrder == OrderInv => MappingsInOrder
<1> SUFFICES ASSUME OrderInv, NEW c \in context_ids
             PROVE  /\ \A i \in DOMAIN ROB[c] :
                        LET e == ROB[c][i]
                        IN  /\ \A k \in 1 .. 2 : e.inst.src[k] # "NONE" =>
                                e.src_physreg[k] = MappingBefore(c, i, e.inst.in[k])
                            /\ e.physreg # NoReg =>
                                e.old_physreg = MappingBefore(c, i, e.inst.out)
                    /\ \A a \in ArchRegs :
                        rename_table[c][a] = MappingBefore(c, Len(ROB[c]) + 1, a)
  BY DEF MappingsInOrder
<1>1. /\ c \in Contexts /\ ROB[c] \in Seq(Entries) /\ UndoChain(ROB[c], rename_table[c])
      /\ SourcesKept(ROB[c], rename_table[c])
  BY DEF OrderInv, Placed, TypeOK, UndoChains
<1>2. \A n \in 0 .. Len(ROB[c]), a \in ArchRegs :
        TableAfterSquash(ROB[c], rename_table[c], n)[a] = MappingBefore(c, n + 1, a)
  BY <1>1, UndoIsBefore
<1>3. ASSUME NEW i \in DOMAIN ROB[c]
      PROVE  /\ i - 1 \in 0 .. Len(ROB[c]) /\ (i - 1) + 1 = i /\ i \in Nat
             /\ ROB[c][i] \in Entries
             /\ ROB[c][i].inst.out \in ArchRegs /\ \A k \in 1 .. 2 : ROB[c][i].inst.in[k] \in ArchRegs
  <2>1. i \in 1 .. Len(ROB[c]) /\ Len(ROB[c]) \in Nat /\ ROB[c][i] \in Entries
    BY <1>1
  <2>2. ROB[c][i].inst \in InstType
    BY <2>1, InstsAssumption DEF Entries
  <2> QED
    BY <2>1, <2>2 DEF InstType
<1>4. ASSUME NEW i \in DOMAIN ROB[c], NEW k \in 1 .. 2
      PROVE  ROB[c][i].src_physreg[k] = MappingBefore(c, i, ROB[c][i].inst.in[k])
  <2>1. ROB[c][i].src_physreg[k] = TableAfterSquash(ROB[c], rename_table[c], i - 1)[ROB[c][i].inst.in[k]]
    BY <1>1 DEF SourcesKept
  <2> QED
    BY <1>2, <1>3, <2>1
<1>5. ASSUME NEW i \in DOMAIN ROB[c], ROB[c][i].physreg # NoReg
      PROVE  ROB[c][i].old_physreg = MappingBefore(c, i, ROB[c][i].inst.out)
  <2> DEFINE a == ROB[c][i].inst.out
  <2>1. i \in Writers(ROB[c], a) /\ Writers(ROB[c], a) \in SUBSET Nat
    BY <1>1, <1>5, WritersNat DEF Writers
  <2>2. i > i - 1 /\ i - 1 \in Nat /\ \A j \in Writers(ROB[c], a) : j > i - 1 => i <= j
    BY <1>3, <2>1
  <2>3. a \in ArchRegs /\ i - 1 \in 0 .. Len(ROB[c]) /\ (i - 1) + 1 = i
    BY <1>3
  <2>4. TableAfterSquash(ROB[c], rename_table[c], i - 1)[a] = MappingBefore(c, i, a)
    BY <1>2, <2>3
  <2> HIDE DEF a
  <2>5. TableAfterSquash(ROB[c], rename_table[c], i - 1)[a] = ROB[c][i].old_physreg
    BY <1>1, <2>1, <2>2, <2>3, TableOfUndone
  <2> QED
    BY <2>4, <2>5 DEF a
<1>6. ASSUME NEW a \in ArchRegs
      PROVE  rename_table[c][a] = MappingBefore(c, Len(ROB[c]) + 1, a)
  <2>1. Len(ROB[c]) \in Nat /\ \A j \in Writers(ROB[c], a) : j <= Len(ROB[c])
    BY <1>1, WritersNat
  <2>2. TableAfterSquash(ROB[c], rename_table[c], Len(ROB[c]))[a] = rename_table[c][a]
    BY <1>1, <2>1, TableOfKept
  <2>3. Len(ROB[c]) \in 0 .. Len(ROB[c])
    BY <2>1
  <2> QED
    BY <1>2, <2>2, <2>3
<1> QED
  BY <1>4, <1>5, <1>6

(* Every source is the destination of the newest older writer, every       *)
(* replaced mapping the one found, through any squash, fork and exit.      *)
THEOREM OrderCorrect == Spec => []MappingsInOrder
<1>1. OrderInv /\ (TypeOK /\ BankPerPlace)' /\ [Next]_vars => OrderInv'
  BY OrderStep
<1> QED
  BY InitOrder, TypeCorrect, <1>1, KeptInOrder, PTL DEF Spec

(* The wrong path is what is younger than the one mispredicted branch in   *)
(* flight; with no such branch nothing in flight is on a wrong path.       *)
THEOREM BracketCorrect == Spec => []SpecBracket
<1>1. OrderInv /\ (TypeOK /\ BankPerPlace)' /\ [Next]_vars => OrderInv'
  BY OrderStep
<1>2. OrderInv => SpecBracket
  BY DEF OrderInv, SpecBracket
<1> QED
  BY InitOrder, TypeCorrect, <1>1, <1>2, PTL DEF Spec
-----------------------------------------------------------------------------
(***************************************************************************)
(* Physical registers are conserved, for every value of the constants:     *)
(* what is free and what is in flight always add up to the same number     *)
(* (RegBudget), and a register is lost only through an instruction that is *)
(* renamed after the exit of its context (LostOnlyAfterExit), so none ever *)
(* is where no such instruction exists (NoLeak).                           *)
(*                                                                         *)
(* All steps but commit move registers only between the free ones and the  *)
(* destinations in flight.  A commit takes one register out of these two   *)
(* sets and puts another one in.  As for ownership, the three hold for     *)
(* programs that do not write DFPCR.                                       *)
(***************************************************************************)

(* The register r of type t is the destination of an entry of c.           *)
InFlightOf(c, t, r) ==
    \E i \in DOMAIN ROB[c] : ROB[c][i].inst.dest = t /\ ROB[c][i].physreg = r

Free(t, r) == reg_file[<<t, r>>] = "FREE"

(* What a step does to the free registers and to those in flight: each     *)
(* stays one or the other, nothing joins them, and a register leaves the   *)
(* attached contexts only through a context that has exited.               *)
GivenBack ==
    \A t \in RegTypes, r \in PhysRegs :
        /\ Free(t, r) => \/ Free(t, r)'
                         \/ \E c \in Contexts : /\ InFlightOf(c, t, r)'
                                                /\ c \in context_ids' \/ stale'[c] < stale[c]
        /\ \A c \in Contexts : InFlightOf(c, t, r) =>
              Free(t, r)' \/ (InFlightOf(c, t, r)' /\ (c \in context_ids => c \in context_ids'))
        /\ Free(t, r)' => Free(t, r) \/ \E c \in Contexts : InFlightOf(c, t, r)
        /\ \A c \in Contexts : InFlightOf(c, t, r)' => Free(t, r) \/ InFlightOf(c, t, r)

(* Nothing changes hands.                                                  *)
LEMMA SameGivesBack ==
    ASSUME context_ids \subseteq context_ids', reg_file' = reg_file,
           \A c \in Contexts, t \in RegTypes, r \in PhysRegs :
              InFlightOf(c, t, r)' <=> InFlightOf(c, t, r)
    PROVE  GivenBack
BY DEF GivenBack, Free

(* The destinations of the entries after the n-th of c become free, the    *)
(* others stay in flight.                                                  *)
LEMMA SquashGivesBack ==
    ASSUME TypeOK, NEW c \in Contexts, NEW n \in 0 .. Len(ROB[c]),
           \A d \in Contexts, t \in RegTypes, r \in PhysRegs :
              d # c => (InFlightOf(d, t, r)' <=> InFlightOf(d, t, r)),
           \A t \in RegTypes, r \in PhysRegs :
              InFlightOf(c, t, r)' <=>
                  \E i \in 1 .. n : ROB[c][i].inst.dest = t /\ ROB[c][i].physreg = r,
           \A t \in RegTypes, r \in PhysRegs :
              Free(t, r)' <=> Free(t, r) \/ <<t, r>> \in SquashedRegs(ROB[c], n),
           context_ids \ {c} \subseteq context_ids', n = 0 \/ context_ids' = context_ids
    PROVE  GivenBack
<1>1. ROB[c] \in Seq(Entries) /\ DOMAIN ROB[c] = 1 .. Len(ROB[c]) /\ Len(ROB[c]) \in Nat
  BY DEF TypeOK
<1> SUFFICES ASSUME NEW t \in RegTypes, NEW r \in PhysRegs
             PROVE  /\ Free(t, r) => Free(t, r)'
                    /\ \A d \in Contexts : InFlightOf(d, t, r) =>
                          Free(t, r)' \/ (InFlightOf(d, t, r)' /\ (d \in context_ids => d \in context_ids'))
                    /\ Free(t, r)' => Free(t, r) \/ \E d \in Contexts : InFlightOf(d, t, r)
                    /\ \A d \in Contexts : InFlightOf(d, t, r)' => Free(t, r) \/ InFlightOf(d, t, r)
  BY DEF GivenBack
<1>2. r # NoReg
  BY DEF PhysRegs, NoReg
<1>3. <<t, r>> \in SquashedRegs(ROB[c], n) <=>
        \E i \in DOMAIN ROB[c] : i > n /\ ROB[c][i].inst.dest = t /\ ROB[c][i].physreg = r
  BY <1>2 DEF SquashedRegs
<1>4. InFlightOf(c, t, r) <=>
        InFlightOf(c, t, r)' \/ <<t, r>> \in SquashedRegs(ROB[c], n)
  <2>1. \A i : i \in DOMAIN ROB[c] <=> i \in 1 .. n \/ (i \in DOMAIN ROB[c] /\ i > n)
    BY <1>1
  <2>2. InFlightOf(c, t, r)' <=>
          \E i \in 1 .. n : ROB[c][i].inst.dest = t /\ ROB[c][i].physreg = r
    OBVIOUS
  <2>3. InFlightOf(c, t, r) <=> \E i \in DOMAIN ROB[c] : ROB[c][i].inst.dest = t /\ ROB[c][i].physreg = r
    BY DEF InFlightOf
  <2> QED
    BY <1>3, <2>1, <2>2, <2>3
<1>5. InFlightOf(c, t, r)' => n # 0
  OBVIOUS
<1>6. Free(t, r)' <=> Free(t, r) \/ <<t, r>> \in SquashedRegs(ROB[c], n)
  OBVIOUS
<1>7. \A d \in Contexts : d # c => (InFlightOf(d, t, r)' <=> InFlightOf(d, t, r))
  OBVIOUS
<1> QED
  BY <1>4, <1>5, <1>6, <1>7

(* The entry of a trap has no destination.                                 *)
LEMMA TrapFlight ==
    ASSUME TypeOK, NEW c \in Contexts, NEW inst \in Insts, inst.kind = "trap",
           CanRename(c, inst), ROB'[c] = Append(ROB[c], NewEntry(c, inst, FALSE)),
           NEW t \in RegTypes, NEW r \in PhysRegs
    PROVE  ~InFlightOf(c, t, r)' /\ ROB[c] = <<>>
<1>1. \A i \in DOMAIN ROB'[c] : ROB'[c][i].physreg = NoReg
  BY TrapEntry
<1>2. r # NoReg
  BY DEF PhysRegs, NoReg
<1> QED
  BY <1>1, <1>2 DEF InFlightOf, CanRename

LEMMA AttachGivesBack ==
    ASSUME NEW c \in Contexts, Attach(c)
    PROVE  GivenBack
<1>1. context_ids \subseteq context_ids' /\ reg_file' = reg_file /\ ROB' = ROB
  BY DEF Attach, addcontext
<1> QED
  BY <1>1, SameGivesBack DEF InFlightOf

LEMMA ForkGivesBack ==
    ASSUME TypeOK, NEW p \in Contexts, NEW c \in Contexts, NEW inst \in Insts, fork(p, c, inst)
    PROVE  GivenBack
<1>1. /\ inst.kind = "trap" /\ CanRename(p, inst) /\ reg_file' = reg_file
      /\ context_ids \subseteq context_ids'
      /\ ROB' = [ROB EXCEPT ![p] = Append(@, NewEntry(p, inst, FALSE))]
  BY DEF fork, addcontext
<1>2. /\ ROB'[p] = Append(ROB[p], NewEntry(p, inst, FALSE))
      /\ \A d \in Contexts : d # p => ROB'[d] = ROB[d]
  BY <1>1 DEF TypeOK
<1>3. \A t \in RegTypes, r \in PhysRegs : ~InFlightOf(p, t, r)' /\ ~InFlightOf(p, t, r)
  <2> SUFFICES ASSUME NEW t \in RegTypes, NEW r \in PhysRegs
               PROVE  ~InFlightOf(p, t, r)' /\ ~InFlightOf(p, t, r)
    OBVIOUS
  <2>1. ~InFlightOf(p, t, r)' /\ ROB[p] = <<>>
    BY <1>1, <1>2, TrapFlight
  <2> QED
    BY <2>1 DEF InFlightOf
<1>4. \A d \in Contexts, t \in RegTypes, r \in PhysRegs :
        InFlightOf(d, t, r)' <=> InFlightOf(d, t, r)
  <2>1. ASSUME NEW d \in Contexts, d # p, NEW t \in RegTypes, NEW r \in PhysRegs
        PROVE  InFlightOf(d, t, r)' <=> InFlightOf(d, t, r)
    BY <1>2, <2>1 DEF InFlightOf
  <2> QED
    BY <1>3, <2>1
<1> QED
  BY <1>1, <1>4, SameGivesBack

(* A flush frees the destinations of its context.                          *)
LEMMA EjectGivesBack ==
    ASSUME TypeOK, NEW v \in context_ids, FlushAndEject(v),
           \A t \in RegTypes, r \in PhysRegs : ~InFlightOf(v, t, r)',
           \A d \in Contexts, t \in RegTypes, r \in PhysRegs :
              d # v => (InFlightOf(d, t, r)' <=> InFlightOf(d, t, r))
    PROVE  GivenBack
<1>1. v \in Contexts /\ 0 \in 0 .. Len(ROB[v])
  BY DEF TypeOK
<1>2. reg_file' = RegFileAfterSquash(ROB[v], 0) /\ context_ids' = context_ids \ {v}
  BY DEF FlushAndEject
<1>3. \A t \in RegTypes, r \in PhysRegs :
        Free(t, r)' <=> Free(t, r) \/ <<t, r>> \in SquashedRegs(ROB[v], 0)
  BY <1>2 DEF RegFileAfterSquash, Free
<1>4. \A t \in RegTypes, r \in PhysRegs :
        InFlightOf(v, t, r)' <=>
            \E i \in 1 .. 0 : ROB[v][i].inst.dest = t /\ ROB[v][i].physreg = r
  OBVIOUS
<1>5. context_ids \ {v} \subseteq context_ids'
  BY <1>2
<1> QED
  BY <1>1, <1>3, <1>4, <1>5, SquashGivesBack

LEMMA KillGivesBack ==
    ASSUME TypeOK, NEW k \in Contexts, NEW v \in Contexts, NEW inst \in Insts, kill(k, v, inst)
    PROVE  GivenBack
<1>1. /\ v \in context_ids /\ k # v /\ inst.kind = "trap" /\ CanRename(k, inst)
      /\ FlushAndEject(v)
      /\ ROB' = [ROB EXCEPT ![v] = <<>>, ![k] = Append(@, NewEntry(k, inst, FALSE))]
  BY DEF kill
<1>2. /\ ROB'[v] = <<>> /\ ROB'[k] = Append(ROB[k], NewEntry(k, inst, FALSE))
      /\ \A c \in Contexts : c # v /\ c # k => ROB'[c] = ROB[c]
  BY <1>1 DEF TypeOK
<1>3. \A t \in RegTypes, r \in PhysRegs : ~InFlightOf(k, t, r)' /\ ~InFlightOf(k, t, r)
  <2> SUFFICES ASSUME NEW t \in RegTypes, NEW r \in PhysRegs
               PROVE  ~InFlightOf(k, t, r)' /\ ~InFlightOf(k, t, r)
    OBVIOUS
  <2>1. ~InFlightOf(k, t, r)' /\ ROB[k] = <<>>
    BY <1>1, <1>2, TrapFlight
  <2> QED
    BY <2>1 DEF InFlightOf
<1>4. \A d \in Contexts, t \in RegTypes, r \in PhysRegs :
        d # v => (InFlightOf(d, t, r)' <=> InFlightOf(d, t, r))
  <2>1. ASSUME NEW d \in Contexts, d # k, d # v, NEW t \in RegTypes, NEW r \in PhysRegs
        PROVE  InFlightOf(d, t, r)' <=> InFlightOf(d, t, r)
    BY <1>2, <2>1 DEF InFlightOf
  <2> QED
    BY <1>3, <2>1
<1>5. \A t \in RegTypes, r \in PhysRegs : ~InFlightOf(v, t, r)'
  BY <1>2 DEF InFlightOf
<1> QED
  BY <1>1, <1>4, <1>5, EjectGivesBack

LEMMA RemoteKillGivesBack ==
    ASSUME TypeOK, NEW v \in Contexts, remote_kill(v)
    PROVE  GivenBack
<1>1. v \in context_ids /\ FlushAndEject(v) /\ ROB' = [ROB EXCEPT ![v] = <<>>]
  BY DEF remote_kill
<1>2. ROB'[v] = <<>> /\ \A c \in Contexts : c # v => ROB'[c] = ROB[c]
  BY <1>1 DEF TypeOK
<1>3. /\ \A d \in Contexts, t \in RegTypes, r \in PhysRegs :
            d # v => (InFlightOf(d, t, r)' <=> InFlightOf(d, t, r))
      /\ \A t \in RegTypes, r \in PhysRegs : ~InFlightOf(v, t, r)'
  BY <1>2 DEF InFlightOf
<1> QED
  BY <1>1, <1>3, EjectGivesBack

LEMMA ExitGivesBack ==
    ASSUME TypeOK, NEW c \in Contexts, NEW inst \in Insts, NEW n \in 0 .. MaxStale, exit(c, inst, n)
    PROVE  GivenBack
<1>1. /\ c \in context_ids /\ inst.kind = "trap" /\ CanRename(c, inst) /\ FlushAndEject(c)
      /\ ROB' = [ROB EXCEPT ![c] = Append(@, NewEntry(c, inst, FALSE))]
  BY DEF exit
<1>2. /\ ROB'[c] = Append(ROB[c], NewEntry(c, inst, FALSE))
      /\ \A d \in Contexts : d # c => ROB'[d] = ROB[d]
  BY <1>1 DEF TypeOK
<1>3. \A t \in RegTypes, r \in PhysRegs : ~InFlightOf(c, t, r)'
  BY <1>1, <1>2, TrapFlight
<1>4. \A d \in Contexts, t \in RegTypes, r \in PhysRegs :
        d # c => (InFlightOf(d, t, r)' <=> InFlightOf(d, t, r))
  BY <1>2 DEF InFlightOf
<1> QED
  BY <1>1, <1>3, <1>4, EjectGivesBack

(* Rename moves a free register to its entry.                              *)
LEMMA RenameGivesBack ==
    ASSUME TypeOK, NEW c \in Contexts, NEW inst \in Insts, NEW m \in BOOLEAN,
           register_rename(c, inst, m)
    PROVE  GivenBack
<1> DEFINE e == NewEntry(c, inst, m)
           r0 == find_free_physreg(inst.dest)
<1>1. /\ CanRename(c, inst) /\ context_ids' = context_ids
      /\ ROB' = [ROB EXCEPT ![c] = Append(@, e)]
      /\ stale' = [stale EXCEPT ![c] = IF c \in context_ids THEN @ ELSE @ - 1]
  BY DEF register_rename
<1>2. /\ e \in Entries /\ e.inst = inst
      /\ Renames(inst) => e.physreg = r0 /\ r0 \in PhysRegs
      /\ ~Renames(inst) => e.physreg = NoReg
  BY <1>1, NewEntryFacts
<1>3. /\ ROB'[c] = Append(ROB[c], e) /\ ROB[c] \in Seq(Entries)
      /\ \A d \in Contexts : d # c => ROB'[d] = ROB[d]
  BY <1>1 DEF TypeOK
<1>4. /\ DOMAIN ROB[c] = 1 .. Len(ROB[c]) /\ DOMAIN ROB'[c] = 1 .. Len(ROB[c]) + 1
      /\ Len(ROB[c]) \in Nat
      /\ \A i \in 1 .. Len(ROB[c]) : ROB'[c][i] = ROB[c][i]
      /\ ROB'[c][Len(ROB[c]) + 1] = e
  <2> HIDE DEF e
  <2> QED
    BY <1>2, <1>3, AppendFacts
<1>5. c \in context_ids' \/ stale'[c] < stale[c]
  <2>1. stale[c] \in Int /\ stale'[c] = IF c \in context_ids THEN stale[c] ELSE stale[c] - 1
    BY <1>1, SizesAssumption DEF TypeOK
  <2> QED
    BY <1>1, <2>1
<1> HIDE DEF e
<1>6. \A t \in RegTypes, r \in PhysRegs :
        InFlightOf(c, t, r)' <=> InFlightOf(c, t, r) \/ (e.inst.dest = t /\ e.physreg = r)
  <2> SUFFICES ASSUME NEW t \in RegTypes, NEW r \in PhysRegs
               PROVE  InFlightOf(c, t, r)' <=>
                        InFlightOf(c, t, r) \/ (e.inst.dest = t /\ e.physreg = r)
    OBVIOUS
  <2>1. \A i : i \in DOMAIN ROB'[c] <=> i \in DOMAIN ROB[c] \/ i = Len(ROB[c]) + 1
    BY <1>4
  <2> QED
    BY <1>4, <2>1 DEF InFlightOf
<1>7. \A d \in Contexts, t \in RegTypes, r \in PhysRegs :
        d # c => (InFlightOf(d, t, r)' <=> InFlightOf(d, t, r))
  BY <1>3 DEF InFlightOf
<1>8. CASE Renames(inst)
  <2>1. inst.dest \in RegTypes /\ FreeRegs(inst.dest) # {}
    BY <1>1, <1>8, InstField DEF CanRename, Renames
  <2>2. r0 \in PhysRegs /\ reg_file[<<inst.dest, r0>>] = "FREE"
    BY <2>1, FreeFound, SizesAssumption
  <2>3. reg_file' = [reg_file EXCEPT ![<<inst.dest, r0>>] = "ALLOC"]
    BY <1>8 DEF register_rename
  <2> HIDE DEF r0
  <2>4. \A t \in RegTypes, r \in PhysRegs :
          reg_file'[<<t, r>>] = IF t = inst.dest /\ r = r0 THEN "ALLOC" ELSE reg_file[<<t, r>>]
    BY <2>1, <2>2, <2>3 DEF TypeOK
  <2>5. \A t \in RegTypes, r \in PhysRegs : e.inst.dest = t /\ e.physreg = r <=> t = inst.dest /\ r = r0
    BY <1>2, <1>8
  <2> SUFFICES ASSUME NEW t \in RegTypes, NEW r \in PhysRegs
               PROVE  /\ Free(t, r) => \/ Free(t, r)'
                                       \/ \E d \in Contexts : /\ InFlightOf(d, t, r)'
                                                              /\ d \in context_ids' \/ stale'[d] < stale[d]
                      /\ \A d \in Contexts : InFlightOf(d, t, r) =>
                            Free(t, r)' \/ (InFlightOf(d, t, r)' /\ (d \in context_ids => d \in context_ids'))
                      /\ Free(t, r)' => Free(t, r) \/ \E d \in Contexts : InFlightOf(d, t, r)
                      /\ \A d \in Contexts : InFlightOf(d, t, r)' => Free(t, r) \/ InFlightOf(d, t, r)
    BY DEF GivenBack
  <2>6. Free(t, r)' <=> Free(t, r) /\ ~(t = inst.dest /\ r = r0)
    BY <2>2, <2>4 DEF Free
  <2>7. t = inst.dest /\ r = r0 => Free(t, r)
    BY <2>2 DEF Free
  <2>8. InFlightOf(c, t, r)' <=> InFlightOf(c, t, r) \/ (t = inst.dest /\ r = r0)
    BY <1>6, <2>5
  <2> QED
    BY <1>1, <1>5, <1>7, <2>6, <2>7, <2>8
<1>9. CASE ~Renames(inst)
  <2>1. reg_file' = reg_file
    BY <1>9 DEF register_rename
  <2>2. \A r \in PhysRegs : e.physreg # r
    BY <1>2, <1>9 DEF PhysRegs, NoReg
  <2> QED
    BY <1>1, <1>6, <1>7, <2>1, <2>2, SameGivesBack
<1> QED
  BY <1>8, <1>9

(* The register that a result is written to was not free and is not among  *)
(* those that the squash, if there is one, frees.                          *)
LEMMA WriteFrees ==
    ASSUME TypeOK, InFlightApart, NEW c \in Contexts, NEW n \in 0 .. Len(ROB[c]), NEW i \in 1 .. n,
           NEW f \in [RegTypes \X PhysRegs -> RegStates],
           \A t \in RegTypes, r \in PhysRegs :
              f[<<t, r>>] = "FREE" <=> Free(t, r) \/ <<t, r>> \in SquashedRegs(ROB[c], n),
           \/ reg_file' = f
           \/ /\ ROB[c][i].physreg # NoReg
              /\ reg_file' = [f EXCEPT ![<<ROB[c][i].inst.dest, ROB[c][i].physreg>>] = "WB"],
           NEW t \in RegTypes, NEW r \in PhysRegs
    PROVE  Free(t, r)' <=> Free(t, r) \/ <<t, r>> \in SquashedRegs(ROB[c], n)
<1>1. CASE reg_file' = f
  BY <1>1 DEF Free
<1>2. CASE /\ ROB[c][i].physreg # NoReg
           /\ reg_file' = [f EXCEPT ![<<ROB[c][i].inst.dest, ROB[c][i].physreg>>] = "WB"]
  <2> DEFINE t0 == ROB[c][i].inst.dest
             r0 == ROB[c][i].physreg
  <2>1. i \in DOMAIN ROB[c] /\ DOMAIN ROB[c] = 1 .. Len(ROB[c]) /\ n \in Nat
    BY DEF TypeOK
  <2>2. ROB[c][i] \in Entries
    BY <2>1 DEF TypeOK
  <2>3. t0 \in RegTypes /\ r0 \in PhysRegs
    BY <1>2, <2>2, EntryField, InstField
  <2>4. reg_file[<<t0, r0>>] # "FREE"
    BY <1>2, <2>1 DEF InFlightApart
  <2>5. <<t0, r0>> \notin SquashedRegs(ROB[c], n)
    <3> SUFFICES ASSUME NEW j \in DOMAIN ROB[c], j > n,
                        ROB[c][j].inst.dest = t0, ROB[c][j].physreg = r0
                 PROVE  FALSE
      BY DEF SquashedRegs
    <3>1. j = i
      BY <1>2, <2>1 DEF InFlightApart
    <3> QED
      BY <2>1, <3>1
  <2>6. reg_file' = [f EXCEPT ![<<t0, r0>>] = "WB"]
    BY <1>2
  <2> HIDE DEF t0, r0
  <2>7. CASE t = t0 /\ r = r0
    <3>1. reg_file'[<<t, r>>] = "WB"
      BY <2>3, <2>6, <2>7
    <3> QED
      BY <2>4, <2>5, <2>7, <3>1 DEF Free
  <2>8. CASE ~(t = t0 /\ r = r0)
    <3>1. reg_file'[<<t, r>>] = f[<<t, r>>]
      BY <2>3, <2>6, <2>8
    <3> QED
      BY <3>1 DEF Free
  <2> QED
    BY <2>7, <2>8
<1> QED
  BY <1>1, <1>2

(* A result frees no register but those of the entries that it squashes.   *)
LEMMA WritebackGivesBack ==
    ASSUME TypeOK, InFlightApart, NEW c \in Contexts, NEW i \in DOMAIN ROB[c], writeback(c, i)
    PROVE  GivenBack
<1> DEFINE e == ROB[c][i]
           n == IF e.recover_inst THEN i ELSE Len(ROB[c])
           kept == SubSeq(ROB[c], 1, n)
           new == [kept EXCEPT ![i].completed = TRUE]
           regs == IF e.recover_inst THEN RegFileAfterSquash(ROB[c], i) ELSE reg_file
<1>1. /\ n \in 0 .. Len(ROB[c]) /\ i \in 1 .. n
      /\ kept \in Seq(Entries) /\ DOMAIN kept = 1 .. n
      /\ \A k \in 1 .. n : kept[k] = ROB[c][k]
      /\ ROB' = [ROB EXCEPT ![c] = new]
  BY WritebackROB
<1>2. ROB[c] \in Seq(Entries) /\ DOMAIN ROB[c] = 1 .. Len(ROB[c]) /\ e \in Entries
      /\ Len(ROB[c]) \in Nat
  BY DEF TypeOK
<1>3. /\ reg_file' = IF e.physreg # NoReg /\ e.mem = "none"
                      THEN [regs EXCEPT ![<<e.inst.dest, e.physreg>>] = "WB"] ELSE regs
      /\ context_ids' = context_ids
  BY DEF writeback
<1>4. /\ new[i] = [e EXCEPT !.completed = TRUE] /\ DOMAIN new = 1 .. n
      /\ \A j \in 1 .. n : j # i => new[j] = ROB[c][j]
  BY <1>1
<1>5. new[i].physreg = e.physreg /\ new[i].inst = e.inst
  BY <1>2, <1>4 DEF Entries
<1>6. ROB'[c] = new /\ \A d \in Contexts : d # c => ROB'[d] = ROB[d]
  BY <1>1 DEF TypeOK
<1>7. /\ regs \in [RegTypes \X PhysRegs -> RegStates]
      /\ \A t \in RegTypes, r \in PhysRegs :
            regs[<<t, r>>] = "FREE" <=> Free(t, r) \/ <<t, r>> \in SquashedRegs(ROB[c], n)
  <2>1. CASE e.recover_inst
    <3>1. n = i /\ regs = RegFileAfterSquash(ROB[c], i) /\ i \in 0 .. Len(ROB[c])
      BY <1>1, <2>1
    <3> HIDE DEF n, regs
    <3>2. regs \in [RegTypes \X PhysRegs -> RegStates]
      BY <3>1, SquashedFileType DEF TypeOK
    <3> QED
      BY <3>1, <3>2 DEF RegFileAfterSquash, Free
  <2>2. CASE ~e.recover_inst
    <3>1. SquashedRegs(ROB[c], n) = {}
      BY <1>2, <2>2 DEF SquashedRegs
    <3> QED
      BY <2>2, <3>1 DEF TypeOK, Free
  <2> QED
    BY <2>1, <2>2
<1> HIDE DEF n, kept, new, regs
<1>8. \/ reg_file' = regs
      \/ /\ ROB[c][i].physreg # NoReg
         /\ reg_file' = [regs EXCEPT ![<<ROB[c][i].inst.dest, ROB[c][i].physreg>>] = "WB"]
  BY <1>3
<1>9. \A t \in RegTypes, r \in PhysRegs :
        Free(t, r)' <=> Free(t, r) \/ <<t, r>> \in SquashedRegs(ROB[c], n)
  BY <1>1, <1>7, <1>8, WriteFrees, ZenonT(30)
<1>10. \A t \in RegTypes, r \in PhysRegs :
        InFlightOf(c, t, r)' <=>
            \E j \in 1 .. n : ROB[c][j].inst.dest = t /\ ROB[c][j].physreg = r
  <2>1. \A j \in 1 .. n : new[j].inst = ROB[c][j].inst /\ new[j].physreg = ROB[c][j].physreg
    BY <1>4, <1>5
  <2> QED
    BY <1>4, <1>6, <2>1 DEF InFlightOf
<1>11. \A d \in Contexts, t \in RegTypes, r \in PhysRegs :
        d # c => (InFlightOf(d, t, r)' <=> InFlightOf(d, t, r))
  BY <1>6 DEF InFlightOf
<1>12. context_ids \ {c} \subseteq context_ids'
  BY <1>3
<1> QED
  BY <1>1, <1>3, <1>9, <1>10, <1>11, <1>12, SquashGivesBack

LEMMA LSQDoneGivesBack ==
    ASSUME TypeOK, InFlightApart, NEW c \in Contexts, NEW i \in DOMAIN ROB[c], LSQDone(c, i)
    PROVE  GivenBack
<1> DEFINE e == ROB[c][i]
           new == [e EXCEPT !.mem = "done"]
           n == Len(ROB[c])
<1>1. /\ ROB' = [ROB EXCEPT ![c][i].mem = "done"] /\ context_ids' = context_ids
      /\ reg_file' = IF e.physreg # NoReg
                       THEN [reg_file EXCEPT ![<<e.inst.dest, e.physreg>>] = "WB"] ELSE reg_file
  BY DEF LSQDone
<1>2. e \in Entries /\ ROB[c] \in Seq(Entries) /\ DOMAIN ROB[c] = 1 .. n /\ n \in 0 .. n
  BY DEF TypeOK
<1>3. /\ DOMAIN ROB'[c] = DOMAIN ROB[c] /\ ROB'[c][i] = new
      /\ \A j \in DOMAIN ROB[c] : j # i => ROB'[c][j] = ROB[c][j]
      /\ \A d \in Contexts : d # c => ROB'[d] = ROB[d]
  BY <1>1 DEF TypeOK
<1>4. new.physreg = e.physreg /\ new.inst = e.inst
  BY <1>2 DEF Entries
<1>5. SquashedRegs(ROB[c], n) = {}
  BY <1>2 DEF SquashedRegs
<1>6. /\ reg_file \in [RegTypes \X PhysRegs -> RegStates]
      /\ \/ reg_file' = reg_file
         \/ /\ ROB[c][i].physreg # NoReg
            /\ reg_file' = [reg_file EXCEPT ![<<ROB[c][i].inst.dest, ROB[c][i].physreg>>] = "WB"]
  BY <1>1 DEF TypeOK
<1> HIDE DEF n, new
<1>7. \A t \in RegTypes, r \in PhysRegs :
        reg_file[<<t, r>>] = "FREE" <=> Free(t, r) \/ <<t, r>> \in SquashedRegs(ROB[c], n)
  BY <1>5 DEF Free
<1>8. \A t \in RegTypes, r \in PhysRegs :
        Free(t, r)' <=> Free(t, r) \/ <<t, r>> \in SquashedRegs(ROB[c], n)
  BY <1>2, <1>6, <1>7, WriteFrees DEF n
<1>9. \A t \in RegTypes, r \in PhysRegs :
        InFlightOf(c, t, r)' <=>
            \E j \in 1 .. n : ROB[c][j].inst.dest = t /\ ROB[c][j].physreg = r
  <2>1. \A j \in 1 .. n :
            ROB'[c][j].inst = ROB[c][j].inst /\ ROB'[c][j].physreg = ROB[c][j].physreg
    BY <1>2, <1>3, <1>4
  <2> QED
    BY <1>2, <1>3, <2>1 DEF InFlightOf
<1>10. \A d \in Contexts, t \in RegTypes, r \in PhysRegs :
        d # c => (InFlightOf(d, t, r)' <=> InFlightOf(d, t, r))
  BY <1>3 DEF InFlightOf
<1> QED
  BY <1>1, <1>2, <1>8, <1>9, <1>10, SquashGivesBack DEF n

-----------------------------------------------------------------------------
(* Banks are handed over whole *)

(* The register r of type t is in a bank, of the core or of a context.     *)
Banked(t, r) ==
    \/ \E k \in DOMAIN arch_regs : \E a \in Mapped : TypeOf(a) = t /\ arch_regs[k][a] = r
    \/ \E c \in context_ids : \E a \in Mapped : TypeOf(a) = t /\ CommittedMap(c)[a] = r

(* No hand-over loses a bank.                                              *)
HandOver ==
    UNCHANGED Arch!vars \/ \E c \in Contexts : Arch!Attach(c) \/ Arch!Detach(c)

LEMMA BankedKept ==
    ASSUME TypeOK, HandOver, NEW t, NEW r, Banked(t, r)
    PROVE  Banked(t, r)'
<1>1. CASE UNCHANGED Arch!vars
  <2>1. /\ context_ids' = context_ids /\ arch_regs' = arch_regs
        /\ [d \in context_ids' |-> CommittedMap(d)'] = [d \in context_ids |-> CommittedMap(d)]
    BY <1>1 DEF Arch!vars
  <2>2. \A d \in context_ids : CommittedMap(d)' = CommittedMap(d)
    BY <2>1
  <2> QED
    BY <2>1, <2>2 DEF Banked
<1>2. ASSUME NEW c \in Contexts, Arch!Attach(c)
      PROVE  Banked(t, r)'
  <2> DEFINE n == Len(arch_regs)
  <2>1. /\ arch_regs # <<>> /\ context_ids' = context_ids \cup {c} /\ c \notin context_ids
        /\ arch_regs' = SubSeq(arch_regs, 1, n - 1)
        /\ [d \in context_ids' |-> CommittedMap(d)'] =
              [d \in context_ids' |-> IF d = c THEN arch_regs[n]
                                      ELSE [e \in context_ids |-> CommittedMap(e)][d]]
    BY <1>2 DEF Arch!Attach
  <2>2. /\ CommittedMap(c)' = arch_regs[n]
        /\ \A d \in context_ids : CommittedMap(d)' = CommittedMap(d)
    BY <2>1
  <2>3. \A k \in DOMAIN arch_regs : k = n \/ (k \in DOMAIN arch_regs' /\ arch_regs'[k] = arch_regs[k])
    <3>1. arch_regs \in Seq(Banks) /\ n \in Nat /\ n - 1 \in 0 .. n
      BY <2>1 DEF TypeOK
    <3>2. DOMAIN arch_regs' = 1 .. n - 1 /\ \A k \in 1 .. n - 1 : arch_regs'[k] = arch_regs[k]
      BY <2>1, <3>1, PrefixFacts
    <3> QED
      BY <3>1, <3>2
  <2> HIDE DEF n
  <2>4. c \in context_ids' /\ \A d \in context_ids : d \in context_ids'
    BY <2>1
  <2>5. ASSUME NEW k \in DOMAIN arch_regs, NEW a \in Mapped, TypeOf(a) = t, arch_regs[k][a] = r
        PROVE  Banked(t, r)'
    <3>1. CASE k = n
      BY <2>2, <2>4, <2>5, <3>1 DEF Banked
    <3>2. CASE k # n
      BY <2>3, <2>5, <3>2 DEF Banked
    <3> QED
      BY <3>1, <3>2
  <2>6. ASSUME NEW d \in context_ids, NEW a \in Mapped, TypeOf(a) = t, CommittedMap(d)[a] = r
        PROVE  Banked(t, r)'
    BY <2>2, <2>4, <2>6 DEF Banked
  <2> QED
    BY <2>5, <2>6 DEF Banked
<1>3. ASSUME NEW v \in Contexts, Arch!Detach(v)
      PROVE  Banked(t, r)'
  <2> DEFINE n == Len(arch_regs) + 1
  <2>1. /\ v \in context_ids /\ context_ids' = context_ids \ {v}
        /\ arch_regs' = Append(arch_regs, [e \in context_ids |-> CommittedMap(e)][v])
        /\ [d \in context_ids' |-> CommittedMap(d)'] =
              [d \in context_ids' |-> [e \in context_ids |-> CommittedMap(e)][d]]
    BY <1>3 DEF Arch!Detach
  <2>2. \A d \in context_ids : d # v => d \in context_ids' /\ CommittedMap(d)' = CommittedMap(d)
    BY <2>1
  <2>3. /\ n \in DOMAIN arch_regs' /\ arch_regs'[n] = CommittedMap(v)
        /\ \A k \in DOMAIN arch_regs : k \in DOMAIN arch_regs' /\ arch_regs'[k] = arch_regs[k]
    <3>1. arch_regs \in Seq(Banks) /\ CommittedMap(v) \in Banks
          /\ arch_regs' = Append(arch_regs, CommittedMap(v))
      BY <2>1, MapType DEF TypeOK
    <3> QED
      BY <3>1
  <2> HIDE DEF n
  <2> QED
    BY <2>1, <2>2, <2>3 DEF Banked
<1> QED
  BY <1>1, <1>2, <1>3 DEF HandOver

(* Every step but commit moves registers only between the free ones and    *)
(* those in flight, and banks only as a whole.                             *)
LEMMA OtherStep ==
    ASSUME Ownership, [Next]_vars, \A c \in Contexts : ~commit(c)
    PROVE  GivenBack /\ HandOver
<1>1. Placed /\ TypeOK /\ Quiet /\ InFlightApart
  BY DEF Ownership, Placed, SingleOwner
<1>2. ASSUME UNCHANGED vars \/ sim_main \/ finished
      PROVE  GivenBack /\ HandOver
  <2>1. /\ reg_file' = reg_file /\ arch_regs' = arch_regs /\ context_ids' = context_ids
        /\ rename_table' = rename_table /\ ROB' = ROB
    BY <1>2 DEF vars, sim_main, finished
  <2>2. GivenBack
    BY <2>1, SameGivesBack DEF InFlightOf
  <2>3. \A d : CommittedMap(d)' = CommittedMap(d)
    BY <2>1 DEF CommittedMap
  <2> QED
    BY <2>1, <2>2, <2>3, ArchUnchanged DEF HandOver
<1>3. ASSUME NEW c \in Contexts, sim_load_prog(c) \/ remote_fork(c)
      PROVE  GivenBack /\ HandOver
  <2>1. Attach(c)
    BY <1>3 DEF sim_load_prog, remote_fork
  <2> QED
    BY <1>1, <2>1, AttachGivesBack, AttachPlaced DEF HandOver
<1>4. ASSUME NEW v \in Contexts, remote_kill(v)
      PROVE  GivenBack /\ HandOver
  BY <1>1, <1>4, RemoteKillGivesBack, RemoteKillPlaced DEF HandOver
<1>5. ASSUME NEW c \in Contexts, NEW i \in DOMAIN ROB[c], writeback(c, i)
      PROVE  GivenBack /\ HandOver
  BY <1>1, <1>5, WritebackGivesBack, WritebackPlaced DEF HandOver
<1>6. ASSUME NEW c \in Contexts, NEW i \in DOMAIN ROB[c], LoadDone(c, i) \/ StoreDone(c, i)
      PROVE  GivenBack /\ HandOver
  <2>1. LSQDone(c, i) /\ c \in context_ids
    BY <1>6 DEF LoadDone, StoreDone
  <2> QED
    BY <1>1, <2>1, LSQDoneGivesBack, LSQDonePlaced DEF HandOver
<1>7. ASSUME NEW c \in Contexts, NEW inst \in Insts, NEW m \in BOOLEAN, register_rename(c, inst, m)
      PROVE  GivenBack /\ HandOver
  BY <1>1, <1>7, RenameGivesBack, RenamePlaced DEF HandOver
<1>8. ASSUME NEW c \in Contexts, NEW inst \in Insts, NEW n \in 0 .. MaxStale, exit(c, inst, n)
      PROVE  GivenBack /\ HandOver
  BY <1>1, <1>8, ExitGivesBack, ExitPlaced DEF HandOver
<1>9. ASSUME NEW c \in Contexts, NEW d \in Contexts, NEW inst \in Insts, fork(c, d, inst)
      PROVE  GivenBack /\ HandOver
  BY <1>1, <1>9, ForkGivesBack, ForkPlaced DEF HandOver
<1>10. ASSUME NEW c \in Contexts, NEW d \in Contexts, NEW inst \in Insts, kill(c, d, inst)
       PROVE  GivenBack /\ HandOver
  BY <1>1, <1>10, KillGivesBack, KillPlaced DEF HandOver
<1> QED
  BY <1>2, <1>3, <1>4, <1>5, <1>6, <1>7, <1>8, <1>9, <1>10 DEF Next

(* Commit puts the destination of the head in the place of the register    *)
(* that it replaced, which becomes free; all other registers stay.         *)
LEMMA CommitExchange ==
    ASSUME WritesMapped, Ownership, NEW c \in Contexts, commit(c)
    PROVE  LET e == ROB[c][1]
               taken(t, r) == e.inst.dest = t /\ e.physreg = r
               given(t, r) == e.physreg # NoReg /\ e.inst.dest = t /\ e.old_physreg = r
           IN  /\ context_ids' = context_ids
               /\ e.physreg # NoReg => /\ e.inst.dest \in RegTypes
                                       /\ e.physreg \in PhysRegs /\ e.old_physreg \in PhysRegs
                                       /\ e.inst.out \in Mapped /\ TypeOf(e.inst.out) = e.inst.dest
               /\ \A t \in RegTypes, r \in PhysRegs :
                    /\ taken(t, r) => /\ e.physreg # NoReg /\ InFlightOf(c, t, r) /\ ~Free(t, r)
                                      /\ ~given(t, r) /\ ~Free(t, r)'
                    /\ given(t, r) => ~Free(t, r) /\ \A d \in Contexts : ~InFlightOf(d, t, r)
                    /\ Free(t, r)' <=> Free(t, r) \/ given(t, r)
                    /\ \A d \in Contexts :
                          InFlightOf(d, t, r)' <=> InFlightOf(d, t, r) /\ ~taken(t, r)
<1> DEFINE e == ROB[c][1]
           taken(t, r) == e.inst.dest = t /\ e.physreg = r
           given(t, r) == e.physreg # NoReg /\ e.inst.dest = t /\ e.old_physreg = r
<1>1. /\ c \in context_ids /\ context_ids' = context_ids /\ ROB[c] # <<>> /\ Committable(e)
      /\ ROB' = [ROB EXCEPT ![c] = Tail(@)]
      /\ reg_file' = IF e.physreg = NoReg THEN reg_file
                     ELSE [reg_file EXCEPT ![<<e.inst.dest, e.old_physreg>>] = "FREE",
                                           ![<<e.inst.dest, e.physreg>>] = "ARCH"]
  BY DEF commit
<1>2. /\ TypeOK /\ InFlightApart /\ CommitSafe
      /\ reg_file \in [RegTypes \X PhysRegs -> RegStates]
  BY OwnedCommit DEF Ownership, SingleOwner, TypeOK
<1>3. /\ ROB[c] \in Seq(Entries) /\ ROB'[c] = Tail(ROB[c])
      /\ \A d \in Contexts : d # c => ROB'[d] = ROB[d]
  BY <1>1, <1>2 DEF TypeOK
<1>4. /\ Len(ROB[c]) \in Nat /\ 1 \in DOMAIN ROB[c] /\ DOMAIN ROB[c] = 1 .. Len(ROB[c])
      /\ DOMAIN ROB'[c] = 1 .. Len(ROB[c]) - 1
      /\ \A i \in 1 .. Len(ROB[c]) - 1 : ROB'[c][i] = ROB[c][i + 1]
      /\ e \in Entries
  BY <1>1, <1>3, TailFacts, ZenonT(30)
<1>5. e.physreg # NoReg => /\ e.inst.dest \in RegTypes
                           /\ e.physreg \in PhysRegs /\ e.old_physreg \in PhysRegs
                           /\ e.inst.out \in Mapped /\ TypeOf(e.inst.out) = e.inst.dest
  BY <1>4, EntryField, InstField DEF WritesMapped
<1>6. e.physreg # NoReg => /\ reg_file[<<e.inst.dest, e.old_physreg>>] = "ARCH"
                           /\ reg_file[<<e.inst.dest, e.physreg>>] = "WB"
  BY <1>1, <1>2 DEF CommitSafe
<1>7. \A r \in PhysRegs : r # NoReg
  BY DEF PhysRegs, NoReg
<1>8. \A t \in RegTypes, r \in PhysRegs :
        reg_file'[<<t, r>>] = IF taken(t, r) THEN "ARCH"
                              ELSE IF given(t, r) THEN "FREE" ELSE reg_file[<<t, r>>]
  <2> HIDE DEF e
  <2>1. CASE e.physreg = NoReg
    BY <1>1, <1>7, <2>1
  <2>2. CASE e.physreg # NoReg
    BY <1>1, <1>2, <1>5, <2>2
  <2> QED
    BY <2>1, <2>2
<1>9. ASSUME NEW t \in RegTypes, NEW r \in PhysRegs
      PROVE  InFlightOf(c, t, r)' <=> \E i \in DOMAIN ROB[c] :
                i # 1 /\ ROB[c][i].inst.dest = t /\ ROB[c][i].physreg = r
  <2>1. ASSUME NEW i \in DOMAIN ROB'[c], ROB'[c][i].inst.dest = t, ROB'[c][i].physreg = r
        PROVE  \E j \in DOMAIN ROB[c] : j # 1 /\ ROB[c][j].inst.dest = t /\ ROB[c][j].physreg = r
    <3>1. i + 1 \in DOMAIN ROB[c] /\ i + 1 # 1 /\ ROB'[c][i] = ROB[c][i + 1]
      BY <1>4
    <3> QED
      BY <2>1, <3>1
  <2>2. ASSUME NEW j \in DOMAIN ROB[c], j # 1, ROB[c][j].inst.dest = t, ROB[c][j].physreg = r
        PROVE  \E i \in DOMAIN ROB'[c] : ROB'[c][i].inst.dest = t /\ ROB'[c][i].physreg = r
    <3>1. j - 1 \in DOMAIN ROB'[c] /\ ROB'[c][j - 1] = ROB[c][(j - 1) + 1] /\ (j - 1) + 1 = j
      BY <1>4, <2>2
    <3> QED
      BY <2>2, <3>1
  <2> QED
    BY <2>1, <2>2 DEF InFlightOf
<1>10. ASSUME NEW t \in RegTypes, NEW r \in PhysRegs
       PROVE  /\ taken(t, r) => /\ e.physreg # NoReg /\ InFlightOf(c, t, r) /\ ~Free(t, r)
                                /\ ~given(t, r) /\ ~Free(t, r)'
              /\ given(t, r) => ~Free(t, r) /\ \A d \in Contexts : ~InFlightOf(d, t, r)
              /\ Free(t, r)' <=> Free(t, r) \/ given(t, r)
              /\ \A d \in Contexts :
                    InFlightOf(d, t, r)' <=> InFlightOf(d, t, r) /\ ~taken(t, r)
  <2>1. taken(t, r) => /\ e.physreg # NoReg /\ InFlightOf(c, t, r) /\ ~Free(t, r) /\ ~given(t, r)
    BY <1>4, <1>6, <1>7 DEF InFlightOf, Free
  <2>2. given(t, r) => ~Free(t, r)
    BY <1>6 DEF Free
  <2>3. given(t, r) => \A d \in Contexts : ~InFlightOf(d, t, r)
    <3> SUFFICES ASSUME given(t, r), NEW d \in Contexts, NEW i \in DOMAIN ROB[d],
                        ROB[d][i].inst.dest = t, ROB[d][i].physreg = r
                 PROVE  FALSE
      BY DEF InFlightOf
    <3>1. reg_file[<<t, r>>] # "ARCH"
      BY <1>2, <1>7 DEF InFlightApart
    <3> QED
      BY <1>6, <3>1
  <2>4. Free(t, r)' <=> Free(t, r) \/ given(t, r)
    <3> HIDE DEF taken, given
    <3> QED
      BY <1>8, <2>1 DEF Free
  <2>5. ASSUME NEW d \in Contexts
        PROVE  InFlightOf(d, t, r)' <=> InFlightOf(d, t, r) /\ ~taken(t, r)
    <3>1. CASE d # c
      <4>1. InFlightOf(d, t, r)' <=> InFlightOf(d, t, r)
        BY <1>3, <3>1 DEF InFlightOf
      <4>2. taken(t, r) => ~InFlightOf(d, t, r)
        <5> SUFFICES ASSUME taken(t, r), NEW i \in DOMAIN ROB[d],
                            ROB[d][i].inst.dest = t, ROB[d][i].physreg = r
                     PROVE  FALSE
          BY DEF InFlightOf
        <5> QED
          BY <1>2, <1>4, <1>7, <3>1 DEF InFlightApart
      <4> QED
        BY <4>1, <4>2
    <3>2. CASE d = c
      <4>1. ASSUME taken(t, r), NEW i \in DOMAIN ROB[c], i # 1,
                   ROB[c][i].inst.dest = t, ROB[c][i].physreg = r
            PROVE  FALSE
        <5>1. ROB[c][1].inst.dest = t /\ ROB[c][1].physreg = r /\ 1 \in DOMAIN ROB[c] /\ r # NoReg
          BY <1>4, <1>7, <4>1
        <5>2. \A j \in DOMAIN ROB[c], k \in DOMAIN ROB[c] :
                ROB[c][j].physreg # NoReg /\ ROB[c][k].physreg = ROB[c][j].physreg
                    /\ ROB[c][k].inst.dest = ROB[c][j].inst.dest => j = k
          BY <1>2 DEF InFlightApart
        <5> HIDE DEF taken, given, e
        <5> QED
          BY <4>1, <5>1, <5>2
      <4>2. InFlightOf(c, t, r) <=> taken(t, r) \/ \E i \in DOMAIN ROB[c] :
                i # 1 /\ ROB[c][i].inst.dest = t /\ ROB[c][i].physreg = r
        BY <1>4 DEF InFlightOf
      <4> HIDE DEF taken
      <4> QED
        BY <1>9, <3>2, <4>1, <4>2
    <3> QED
      BY <3>1, <3>2
  <2> HIDE DEF taken, given, e
  <2> QED
    BY <2>1, <2>2, <2>3, <2>4, <2>5
<1> QED
  BY <1>1, <1>5, <1>10

-----------------------------------------------------------------------------
(* The budget *)

(* The registers that are free or in flight.                               *)
Spare(t) == {r \in PhysRegs : Free(t, r) \/ \E c \in Contexts : InFlightOf(c, t, r)}

InFlightRegs(t) == {r \in PhysRegs : \E c \in Contexts : InFlightOf(c, t, r)}

Bounded == \A c \in Contexts : Len(ROB[c]) <= ROBSize

(* Their number is an invariant, and so is the bound on reorder buffers    *)
(* that makes the set of entries finite.                                   *)
BudgetInv ==
    /\ Ownership /\ Bounded
    /\ \A t \in RegTypes : Cardinality(Spare(t)) = RFSize - NArch * MaxContexts

LEMMA SpareFinite ==
    ASSUME NEW t
    PROVE  IsFiniteSet(PhysRegs) /\ IsFiniteSet(Spare(t))
<1>1. IsFiniteSet(PhysRegs)
  BY SizesAssumption, FS_Interval DEF PhysRegs
<1> QED
  BY <1>1, FS_Subset DEF Spare

LEMMA SpareStep ==
    ASSUME WritesMapped, Ownership, [Next]_vars, NEW t \in RegTypes
    PROVE  Cardinality(Spare(t)') = Cardinality(Spare(t))
<1>1. CASE \A c \in Contexts : ~commit(c)
  <2>1. GivenBack
    BY <1>1, OtherStep
  <2>2. \A r \in PhysRegs : Free(t, r) => Free(t, r)' \/ \E c \in Contexts : InFlightOf(c, t, r)'
    BY <2>1 DEF GivenBack
  <2>3. \A r \in PhysRegs, c \in Contexts : InFlightOf(c, t, r) => Free(t, r)' \/ InFlightOf(c, t, r)'
    BY <2>1 DEF GivenBack
  <2>4. \A r \in PhysRegs : Free(t, r)' => Free(t, r) \/ \E c \in Contexts : InFlightOf(c, t, r)
    BY <2>1 DEF GivenBack
  <2>5. \A r \in PhysRegs, c \in Contexts : InFlightOf(c, t, r)' => Free(t, r) \/ InFlightOf(c, t, r)
    BY <2>1 DEF GivenBack
  <2>6. Spare(t)' = Spare(t)
    BY <2>2, <2>3, <2>4, <2>5 DEF Spare
  <2> QED
    BY <2>6
<1>2. ASSUME NEW c \in Contexts, commit(c)
      PROVE  Cardinality(Spare(t)') = Cardinality(Spare(t))
  <2> DEFINE e == ROB[c][1]
             taken(r) == e.inst.dest = t /\ e.physreg = r
             given(r) == e.physreg # NoReg /\ e.inst.dest = t /\ e.old_physreg = r
  <2>1. \A r \in PhysRegs :
          /\ taken(r) => /\ e.physreg # NoReg /\ InFlightOf(c, t, r) /\ ~given(r) /\ ~Free(t, r)'
          /\ given(r) => ~Free(t, r) /\ \A d \in Contexts : ~InFlightOf(d, t, r)
          /\ Free(t, r)' <=> Free(t, r) \/ given(r)
          /\ \A d \in Contexts : InFlightOf(d, t, r)' <=> InFlightOf(d, t, r) /\ ~taken(r)
    BY <1>2, CommitExchange
  <2>2. e.physreg # NoReg => e.physreg \in PhysRegs /\ e.old_physreg \in PhysRegs
    BY <1>2, CommitExchange
  <2>3. CASE ~(e.physreg # NoReg /\ e.inst.dest = t)
    <3>1. \A r \in PhysRegs : ~taken(r) /\ ~given(r)
      BY <2>1, <2>3
    <3> HIDE DEF taken, given
    <3>2. Spare(t)' = Spare(t)
      BY <2>1, <3>1 DEF Spare
    <3> QED
      BY <3>2
  <2>4. CASE e.physreg # NoReg /\ e.inst.dest = t
    <3> DEFINE q == e.physreg
               o == e.old_physreg
    <3>1. /\ q \in PhysRegs /\ o \in PhysRegs
          /\ \A r \in PhysRegs : (taken(r) <=> r = q) /\ (given(r) <=> r = o)
      BY <2>2, <2>4
    <3> HIDE DEF taken, given, q, o
    <3>2. q \in Spare(t) /\ o \notin Spare(t)
      BY <2>1, <3>1 DEF Spare
    <3>3. Spare(t)' = (Spare(t) \ {q}) \cup {o}
      BY <2>1, <3>1 DEF Spare
    <3>4. IsFiniteSet(Spare(t)) /\ Cardinality(Spare(t)) \in Nat
      BY SpareFinite, FS_CardinalityType
    <3>5. /\ IsFiniteSet(Spare(t) \ {q})
          /\ Cardinality(Spare(t) \ {q}) = Cardinality(Spare(t)) - 1
      BY <3>2, <3>4, FS_RemoveElement
    <3>6. Cardinality((Spare(t) \ {q}) \cup {o}) = Cardinality(Spare(t) \ {q}) + 1
      BY <3>2, <3>5, FS_AddElement
    <3> QED
      BY <3>3, <3>4, <3>5, <3>6
  <2> QED
    BY <2>3, <2>4
<1> QED
  BY <1>1, <1>2

(* Rename is the only step that lengthens a reorder buffer, and it checks. *)
LEMMA BoundedStep ==
    ASSUME TypeOK, Bounded, [Next]_vars
    PROVE  Bounded'
<1> SUFFICES ASSUME NEW d \in Contexts PROVE Len(ROB'[d]) <= ROBSize
  BY DEF Bounded
<1>1. /\ ROB[d] \in Seq(Entries) /\ Len(ROB[d]) \in Nat /\ Len(ROB[d]) <= ROBSize
      /\ ROBSize \in Nat /\ Len(<<>>) = 0
  BY SizesAssumption DEF TypeOK, Bounded
<1>2. ASSUME NEW inst \in Insts, NEW m \in BOOLEAN, CanRename(d, inst),
             ROB'[d] = Append(ROB[d], NewEntry(d, inst, m))
      PROVE  Len(ROB'[d]) <= ROBSize
  <2>1. NewEntry(d, inst, m) \in Entries
    BY <1>2, NewEntryFacts
  <2>2. Len(ROB'[d]) = Len(ROB[d]) + 1
    BY <1>1, <1>2, <2>1, AppendFacts
  <2> QED
    BY <1>1, <1>2, <2>2 DEF CanRename
<1>3. ASSUME UNCHANGED vars \/ sim_main \/ finished \/ \E c \in Contexts : sim_load_prog(c) \/ remote_fork(c)
      PROVE  Len(ROB'[d]) <= ROBSize
  BY <1>1, <1>3 DEF vars, sim_main, finished, sim_load_prog, remote_fork, Attach
<1>4. ASSUME NEW v \in Contexts, remote_kill(v)
      PROVE  Len(ROB'[d]) <= ROBSize
  BY <1>1, <1>4 DEF remote_kill, TypeOK
<1>5. ASSUME NEW c \in Contexts, commit(c)
      PROVE  Len(ROB'[d]) <= ROBSize
  <2>1. ROB' = [ROB EXCEPT ![c] = Tail(@)] /\ ROB[c] # <<>>
    BY <1>5 DEF commit
  <2>2. CASE d = c
    <3>1. ROB'[d] = Tail(ROB[d]) /\ ROB[d] # <<>>
      BY <2>1, <2>2 DEF TypeOK
    <3>2. Len(ROB'[d]) = Len(ROB[d]) - 1
      BY <1>1, <3>1
    <3> QED
      BY <1>1, <3>2
  <2> QED
    BY <1>1, <2>1, <2>2 DEF TypeOK
<1>6. ASSUME NEW c \in Contexts, NEW i \in DOMAIN ROB[c], writeback(c, i)
      PROVE  Len(ROB'[d]) <= ROBSize
  <2> DEFINE n == IF ROB[c][i].recover_inst THEN i ELSE Len(ROB[c])
             new == [SubSeq(ROB[c], 1, n) EXCEPT ![i].completed = TRUE]
  <2>1. /\ n \in 0 .. Len(ROB[c]) /\ DOMAIN SubSeq(ROB[c], 1, n) = 1 .. n
        /\ ROB' = [ROB EXCEPT ![c] = new] /\ new \in Seq(Entries)
    BY <1>6, WritebackROB
  <2>2. DOMAIN new = 1 .. n
    BY <2>1
  <2> HIDE DEF n, new
  <2>3. CASE d = c
    <3>1. ROB'[d] = new /\ n \in Nat /\ n <= Len(ROB[d])
      BY <1>1, <2>1, <2>3 DEF TypeOK
    <3>2. Len(new) = n
      BY <2>1, <2>2, <3>1
    <3> QED
      BY <1>1, <3>1, <3>2
  <2>4. CASE d # c
    BY <1>1, <2>1, <2>4 DEF TypeOK
  <2> QED
    BY <2>3, <2>4
<1>7. ASSUME NEW c \in Contexts, NEW i \in DOMAIN ROB[c], LoadDone(c, i) \/ StoreDone(c, i)
      PROVE  Len(ROB'[d]) <= ROBSize
  <2>1. ROB' = [ROB EXCEPT ![c][i].mem = "done"]
    BY <1>7 DEF LoadDone, StoreDone, LSQDone
  <2>2. CASE d = c
    <3>1. ROB'[d] = [ROB[d] EXCEPT ![i].mem = "done"]
      BY <2>1, <2>2 DEF TypeOK
    <3>2. Len(ROB'[d]) = Len(ROB[d])
      BY <1>1, <3>1
    <3> QED
      BY <1>1, <3>2
  <2> QED
    BY <1>1, <2>1, <2>2 DEF TypeOK
<1>8. ASSUME NEW c \in Contexts, NEW inst \in Insts, NEW m \in BOOLEAN, register_rename(c, inst, m)
      PROVE  Len(ROB'[d]) <= ROBSize
  <2>1. CanRename(c, inst) /\ ROB' = [ROB EXCEPT ![c] = Append(@, NewEntry(c, inst, m))]
    BY <1>8 DEF register_rename
  <2> QED
    BY <1>1, <1>2, <2>1 DEF TypeOK
<1>9. ASSUME NEW c \in Contexts, NEW inst \in Insts, NEW n \in 0 .. MaxStale, exit(c, inst, n)
      PROVE  Len(ROB'[d]) <= ROBSize
  <2>1. CanRename(c, inst) /\ ROB' = [ROB EXCEPT ![c] = Append(@, NewEntry(c, inst, FALSE))]
    BY <1>9 DEF exit
  <2> QED
    BY <1>1, <1>2, <2>1 DEF TypeOK
<1>10. ASSUME NEW p \in Contexts, NEW c \in Contexts, NEW inst \in Insts, fork(p, c, inst)
       PROVE  Len(ROB'[d]) <= ROBSize
  <2>1. CanRename(p, inst) /\ ROB' = [ROB EXCEPT ![p] = Append(@, NewEntry(p, inst, FALSE))]
    BY <1>10 DEF fork
  <2> QED
    BY <1>1, <1>2, <2>1 DEF TypeOK
<1>11. ASSUME NEW k \in Contexts, NEW v \in Contexts, NEW inst \in Insts, kill(k, v, inst)
       PROVE  Len(ROB'[d]) <= ROBSize
  <2>1. /\ CanRename(k, inst) /\ k # v
        /\ ROB' = [ROB EXCEPT ![v] = <<>>, ![k] = Append(@, NewEntry(k, inst, FALSE))]
    BY <1>11 DEF kill
  <2>2. /\ ROB'[v] = <<>> /\ ROB'[k] = Append(ROB[k], NewEntry(k, inst, FALSE))
        /\ d # v /\ d # k => ROB'[d] = ROB[d]
    BY <2>1 DEF TypeOK
  <2>3. CASE d = k
    <3>1. ROB'[d] = Append(ROB[d], NewEntry(d, inst, FALSE)) /\ CanRename(d, inst)
      BY <2>1, <2>2, <2>3
    <3> QED
      BY <1>2, <3>1
  <2>4. CASE d = v
    BY <1>1, <2>2, <2>4
  <2> QED
    BY <1>1, <2>2, <2>3, <2>4
<1> QED
  BY <1>3, <1>4, <1>5, <1>6, <1>7, <1>8, <1>9, <1>10, <1>11 DEF Next

LEMMA InitBudget == Init => BudgetInv
<1> SUFFICES ASSUME Init PROVE BudgetInv
  OBVIOUS
<1>1. Ownership /\ \A c \in Contexts : ROB[c] = <<>>
  BY InitOwned DEF Init
<1>2. NArch * MaxContexts \in Nat /\ RFSize \in Nat /\ RFSize > NArch * MaxContexts
      /\ ROBSize \in Nat
  <2>1. NArch \in Nat /\ NArch > 0 /\ MaxContexts \in Nat /\ RFSize \in Nat
        /\ RFSize >= NArch * (MaxContexts + 1) /\ ROBSize \in Nat
    BY SizesAssumption
  <2>2. NArch * (MaxContexts + 1) = NArch * MaxContexts + NArch /\ NArch * MaxContexts \in Nat
    BY <2>1
  <2> QED
    BY <2>1, <2>2
<1>3. Bounded
  <2>1. Len(<<>>) = 0
    OBVIOUS
  <2> QED
    BY <1>1, <1>2, <2>1 DEF Bounded
<1>4. ASSUME NEW t \in RegTypes
      PROVE  Cardinality(Spare(t)) = RFSize - NArch * MaxContexts
  <2> DEFINE a == NArch * MaxContexts
  <2>1. a \in Nat /\ RFSize > a /\ a \in Int /\ RFSize - 1 \in Int
    BY <1>2
  <2>2. \A r \in PhysRegs : Free(t, r) <=> r >= a
    BY <2>1, SizesAssumption DEF Init, Free, PhysRegs
  <2>3. \A r, c : c \in Contexts => ~InFlightOf(c, t, r)
    BY <1>1 DEF InFlightOf
  <2> HIDE DEF a
  <2>4. Spare(t) = a .. RFSize - 1
    BY <1>2, <2>1, <2>2, <2>3 DEF Spare, PhysRegs
  <2>5. Cardinality(a .. RFSize - 1) = RFSize - 1 - a + 1
    BY <1>2, <2>1, FS_Interval
  <2> QED
    BY <1>2, <2>1, <2>4, <2>5 DEF a
<1> QED
  BY <1>1, <1>3, <1>4 DEF BudgetInv

(* The entries in flight that have a destination of type t, as RegBudget   *)
(* counts them, are as many as their registers.                            *)
Flying(t) ==
    {p \in Contexts \X (1 .. ROBSize) :
        /\ p[2] \in DOMAIN ROB[p[1]]
        /\ ROB[p[1]][p[2]].physreg # NoReg
        /\ ROB[p[1]][p[2]].inst.dest = t}

LEMMA FlyingCounted ==
    ASSUME TypeOK, InFlightApart, Bounded, NEW t \in RegTypes
    PROVE  Cardinality(Flying(t)) = Cardinality(InFlightRegs(t))
<1> DEFINE at(r) == CHOOSE p \in Flying(t) : ROB[p[1]][p[2]].physreg = r
           f == [r \in InFlightRegs(t) |-> at(r)]
<1>1. \A c \in Contexts : \A i : i \in DOMAIN ROB[c] =>
        i \in 1 .. ROBSize /\ ROB[c][i] \in Entries
  BY SizesAssumption DEF TypeOK, Bounded
<1>2. \A p \in Flying(t) : ROB[p[1]][p[2]].physreg \in InFlightRegs(t)
  <2> SUFFICES ASSUME NEW p \in Flying(t)
               PROVE  ROB[p[1]][p[2]].physreg \in InFlightRegs(t)
    OBVIOUS
  <2>1. /\ p[1] \in Contexts /\ p[2] \in DOMAIN ROB[p[1]]
        /\ ROB[p[1]][p[2]].physreg # NoReg /\ ROB[p[1]][p[2]].inst.dest = t
    BY DEF Flying
  <2>2. ROB[p[1]][p[2]].physreg \in PhysRegs
    BY <1>1, <2>1, EntryField
  <2> QED
    BY <2>1, <2>2 DEF InFlightRegs, InFlightOf
<1>3. \A r \in InFlightRegs(t) : at(r) \in Flying(t) /\ ROB[at(r)[1]][at(r)[2]].physreg = r
  <2> SUFFICES ASSUME NEW r \in InFlightRegs(t)
               PROVE  \E p \in Flying(t) : ROB[p[1]][p[2]].physreg = r
    OBVIOUS
  <2>1. PICK c \in Contexts : \E i \in DOMAIN ROB[c] :
            ROB[c][i].inst.dest = t /\ ROB[c][i].physreg = r
    BY DEF InFlightRegs, InFlightOf
  <2>2. PICK i \in DOMAIN ROB[c] : ROB[c][i].inst.dest = t /\ ROB[c][i].physreg = r
    BY <2>1
  <2>3. r # NoReg
    BY DEF InFlightRegs, PhysRegs, NoReg
  <2>4. <<c, i>> \in Flying(t)
    BY <1>1, <2>2, <2>3 DEF Flying
  <2> QED
    BY <2>2, <2>4
<1>4. \A p, q \in Flying(t) : ROB[p[1]][p[2]].physreg = ROB[q[1]][q[2]].physreg => p = q
  <2> SUFFICES ASSUME NEW p \in Flying(t), NEW q \in Flying(t),
                      ROB[p[1]][p[2]].physreg = ROB[q[1]][q[2]].physreg
               PROVE  p = q
    OBVIOUS
  <2>1. p = <<p[1], p[2]>> /\ q = <<q[1], q[2]>>
    BY DEF Flying
  <2>2. p[1] = q[1] /\ p[2] = q[2]
    BY DEF Flying, InFlightApart
  <2> QED
    BY <2>1, <2>2
<1> HIDE DEF at
<1>5. f \in Bijection(InFlightRegs(t), Flying(t))
  <2>1. f \in [InFlightRegs(t) -> Flying(t)]
    BY <1>3
  <2>2. IsInjective(f)
    BY <1>3 DEF IsInjective
  <2>3. \A p \in Flying(t) : \E r \in InFlightRegs(t) : f[r] = p
    BY <1>2, <1>3, <1>4
  <2> HIDE DEF f
  <2> QED
    BY <2>1, <2>2, <2>3 DEF Bijection, Injection, Surjection
<1>6. IsFiniteSet(InFlightRegs(t))
  BY SpareFinite, FS_Subset DEF InFlightRegs
<1> HIDE DEF f
<1> QED
  BY <1>5, <1>6, FS_Bijection DEF ExistsBijection

LEMMA BudgetKept == BudgetInv => RegBudget
<1> SUFFICES ASSUME BudgetInv, NEW t \in RegTypes
             PROVE  Cardinality(FreeRegs(t)) + Cardinality(Flying(t)) = RFSize - NArch * MaxContexts
  BY DEF RegBudget, Flying
<1>1. TypeOK /\ InFlightApart /\ Bounded /\ Cardinality(Spare(t)) = RFSize - NArch * MaxContexts
  BY DEF BudgetInv, Ownership, SingleOwner
<1>2. Cardinality(Flying(t)) = Cardinality(InFlightRegs(t))
  BY <1>1, FlyingCounted
<1>3. Spare(t) = FreeRegs(t) \cup InFlightRegs(t)
  BY DEF Spare, FreeRegs, InFlightRegs, Free
<1>4. FreeRegs(t) \cap InFlightRegs(t) = {}
  <2> SUFFICES ASSUME NEW r \in PhysRegs, reg_file[<<t, r>>] = "FREE",
                      NEW c \in Contexts, NEW i \in DOMAIN ROB[c],
                      ROB[c][i].inst.dest = t, ROB[c][i].physreg = r
               PROVE  FALSE
    BY DEF FreeRegs, InFlightRegs, InFlightOf
  <2>1. r # NoReg
    BY DEF PhysRegs, NoReg
  <2> QED
    BY <1>1, <2>1 DEF InFlightApart
<1>5. IsFiniteSet(FreeRegs(t)) /\ IsFiniteSet(InFlightRegs(t))
  BY SpareFinite, FS_Subset DEF FreeRegs, InFlightRegs
<1>6. /\ Cardinality(FreeRegs(t)) \in Nat /\ Cardinality(InFlightRegs(t)) \in Nat
      /\ Cardinality({}) = 0
  BY <1>5, FS_CardinalityType, FS_EmptySet
<1>7. Cardinality(FreeRegs(t) \cup InFlightRegs(t))
        = Cardinality(FreeRegs(t)) + Cardinality(InFlightRegs(t)) - 0
  <2>1. Cardinality(FreeRegs(t) \cup InFlightRegs(t))
          = Cardinality(FreeRegs(t)) + Cardinality(InFlightRegs(t))
            - Cardinality(FreeRegs(t) \cap InFlightRegs(t))
    BY <1>5, FS_Union, Zenon
  <2>2. Cardinality(FreeRegs(t) \cap InFlightRegs(t)) = 0
    BY <1>4, <1>6, Zenon
  <2> QED
    BY <2>1, <2>2, Zenon
<1> QED
  BY <1>1, <1>2, <1>3, <1>6, <1>7

(* Every register is in a bank, free, or in flight for as long as programs *)
(* run: the number that the check of rf:size counts on never shrinks.      *)
THEOREM BudgetCorrect ==
    ASSUME WritesMapped
    PROVE  Spec => []RegBudget
<1>1. BudgetInv /\ [Next]_vars /\ Ownership' => BudgetInv'
  <2> SUFFICES ASSUME BudgetInv, [Next]_vars, Ownership' PROVE BudgetInv'
    OBVIOUS
  <2>1. Ownership /\ TypeOK /\ Bounded
    BY DEF BudgetInv, Ownership
  <2>2. Bounded'
    BY <2>1, BoundedStep
  <2>3. \A t \in RegTypes : Cardinality(Spare(t)') = Cardinality(Spare(t))
    BY <2>1, SpareStep
  <2> QED
    BY <2>2, <2>3 DEF BudgetInv
<1> QED
  BY InitBudget, OwnershipInvariant, BudgetKept, <1>1, PTL DEF Spec

-----------------------------------------------------------------------------
(* Nothing is lost but by exit *)

LEMMA LostIs ==
    ASSUME NEW t \in RegTypes, NEW r \in PhysRegs
    PROVE  <<t, r>> \in Lost <=>
              /\ ~Free(t, r) /\ ~Banked(t, r)
              /\ \A c \in context_ids : ~InFlightOf(c, t, r)
BY DEF Lost, Free, Banked, InFlightOf

(* A commit banks the register that it takes from the ones in flight, and  *)
(* frees the one that leaves the bank.                                     *)
LEMMA CommitLosesNothing ==
    ASSUME WritesMapped, Ownership, NEW c \in Contexts, commit(c),
           NEW t \in RegTypes, NEW r \in PhysRegs
    PROVE  /\ Banked(t, r) => Banked(t, r)' \/ Free(t, r)'
           /\ \A d \in context_ids : InFlightOf(d, t, r) => InFlightOf(d, t, r)' \/ Banked(t, r)'
           /\ Free(t, r) => Free(t, r)'
<1> DEFINE e == ROB[c][1]
           taken == e.inst.dest = t /\ e.physreg = r
           given == e.physreg # NoReg /\ e.inst.dest = t /\ e.old_physreg = r
<1>1. Placed /\ TypeOK /\ c \in context_ids /\ ROB[c] # <<>>
  BY DEF Ownership, Placed, commit
<1>2. /\ context_ids' = context_ids
      /\ e.physreg # NoReg => e.inst.out \in Mapped /\ TypeOf(e.inst.out) = e.inst.dest
      /\ taken => e.physreg # NoReg
      /\ Free(t, r)' <=> Free(t, r) \/ given
      /\ \A d \in Contexts : InFlightOf(d, t, r)' <=> InFlightOf(d, t, r) /\ ~taken
  BY CommitExchange
<1>3. /\ arch_regs' = arch_regs
      /\ \A d \in context_ids : d # c => CommittedMap(d)' = CommittedMap(d)
      /\ \A a \in Mapped : CommittedMap(c)'[a] =
            IF e.physreg # NoReg /\ e.inst.out = a THEN e.physreg ELSE CommittedMap(c)[a]
  BY <1>1, CommitPlaced
<1>4. e.physreg # NoReg => CommittedMap(c)[e.inst.out] = e.old_physreg
  <2>1. ROB[c] \in Seq(Entries)
    BY <1>1 DEF TypeOK
  <2> QED
    BY <1>1, <1>2, <2>1, HeadMapping DEF CommittedMap
<1> HIDE DEF e
<1>5. ASSUME NEW d \in context_ids, NEW a \in Mapped, TypeOf(a) = t, CommittedMap(d)[a] = r
      PROVE  Banked(t, r)' \/ Free(t, r)'
  <2>1. CASE d = c /\ e.physreg # NoReg /\ e.inst.out = a
    BY <1>2, <1>4, <1>5, <2>1
  <2>2. CASE ~(d = c /\ e.physreg # NoReg /\ e.inst.out = a)
    <3>1. CommittedMap(d)'[a] = r /\ d \in context_ids'
      BY <1>2, <1>3, <1>5, <2>2
    <3> QED
      BY <1>5, <3>1 DEF Banked
  <2> QED
    BY <2>1, <2>2
<1>6. Banked(t, r) => Banked(t, r)' \/ Free(t, r)'
  BY <1>3, <1>5 DEF Banked
<1>7. taken => Banked(t, r)'
  <2> SUFFICES ASSUME taken PROVE Banked(t, r)'
    OBVIOUS
  <2>1. e.inst.out \in Mapped /\ TypeOf(e.inst.out) = t /\ CommittedMap(c)'[e.inst.out] = r
    BY <1>2, <1>3
  <2> QED
    BY <1>1, <1>2, <2>1 DEF Banked
<1>8. context_ids \subseteq Contexts
  BY <1>1 DEF TypeOK
<1> HIDE DEF taken, given
<1> QED
  BY <1>2, <1>6, <1>7, <1>8

LEMMA LostStep ==
    ASSUME WritesMapped, Ownership, TypeOK', [Next]_vars,
           \A c \in Contexts : stale'[c] >= stale[c]
    PROVE  Lost' \subseteq Lost
<1> SUFFICES ASSUME NEW t \in RegTypes, NEW r \in PhysRegs,
                    ~Free(t, r)', ~Banked(t, r)', \A c \in context_ids' : ~InFlightOf(c, t, r)'
             PROVE  ~Free(t, r) /\ ~Banked(t, r) /\ \A c \in context_ids : ~InFlightOf(c, t, r)
  <2>1. ASSUME NEW t \in RegTypes, NEW r \in PhysRegs, <<t, r>> \in Lost'
        PROVE  ~Free(t, r)' /\ ~Banked(t, r)' /\ \A c \in context_ids' : ~InFlightOf(c, t, r)'
    BY <2>1 DEF Lost, Free, Banked, InFlightOf
  <2>2. \A tr \in Lost' : \E t \in RegTypes, r \in PhysRegs : tr = <<t, r>>
    BY DEF Lost
  <2> QED
    BY <2>1, <2>2, LostIs
<1>1. /\ TypeOK /\ context_ids \subseteq Contexts
      /\ \A c \in Contexts : stale[c] \in Int /\ stale'[c] \in Int
  BY SizesAssumption DEF Ownership, TypeOK
<1>2. CASE \A c \in Contexts : ~commit(c)
  <2>1. GivenBack /\ HandOver
    BY <1>2, OtherStep
  <2>2. /\ Free(t, r) => \/ Free(t, r)'
                         \/ \E c \in Contexts : /\ InFlightOf(c, t, r)'
                                                /\ c \in context_ids' \/ stale'[c] < stale[c]
        /\ \A c \in Contexts : InFlightOf(c, t, r) =>
              Free(t, r)' \/ (InFlightOf(c, t, r)' /\ (c \in context_ids => c \in context_ids'))
    BY <2>1 DEF GivenBack
  <2>3. ~Free(t, r)
    <3> SUFFICES ASSUME NEW c \in Contexts, stale'[c] < stale[c] PROVE FALSE
      BY <2>2
    <3> QED
      BY <1>1
  <2>4. ~Banked(t, r)
    BY <1>1, <2>1, BankedKept
  <2> QED
    BY <1>1, <2>2, <2>3, <2>4
<1>3. ASSUME NEW c \in Contexts, commit(c)
      PROVE  ~Free(t, r) /\ ~Banked(t, r) /\ \A d \in context_ids : ~InFlightOf(d, t, r)
  <2>1. context_ids' = context_ids
    BY <1>3 DEF commit
  <2> QED
    BY <1>3, <2>1, CommitLosesNothing
<1> QED
  BY <1>2, <1>3

(* A register is lost only in a step that renames an instruction of a      *)
(* context that has exited: no squash, kill, exit, commit or hand-over     *)
(* loses one.                                                              *)
THEOREM LostCorrect ==
    ASSUME WritesMapped
    PROVE  Spec => LostOnlyAfterExit
<1>1. /\ Ownership /\ TypeOK' /\ [Next]_vars =>
            [(\A c \in Contexts : stale'[c] >= stale[c]) => Lost' \subseteq Lost]_vars
  BY LostStep
<1> QED
  BY OwnershipInvariant, TypeCorrect, <1>1, PTL DEF Spec, LostOnlyAfterExit

LEMMA NothingLost == NoLeak <=> Lost = {}
<1>1. ASSUME NEW t \in RegTypes, NEW r \in PhysRegs
      PROVE  <<t, r>> \notin Lost <=>
                (reg_file[<<t, r>>] # "FREE" =>
                    \/ \E k \in DOMAIN arch_regs : \E a \in Mapped :
                        TypeOf(a) = t /\ arch_regs[k][a] = r
                    \/ \E c \in context_ids : \E a \in Mapped :
                        TypeOf(a) = t /\ CommittedMap(c)[a] = r
                    \/ \E c \in context_ids : \E i \in DOMAIN ROB[c] :
                        ROB[c][i].inst.dest = t /\ ROB[c][i].physreg = r)
  BY LostIs DEF Free, Banked, InFlightOf
<1>2. \A tr \in Lost : \E t \in RegTypes, r \in PhysRegs : tr = <<t, r>>
  BY DEF Lost
<1>3. Lost = {} <=> \A t \in RegTypes, r \in PhysRegs : <<t, r>> \notin Lost
  BY <1>2
<1> QED
  BY <1>1, <1>3 DEF NoLeak

(* Where the fetch queue of a context is empty once it has exited, no      *)
(* register is ever lost.                                                  *)
THEOREM NoLeakCorrect ==
    ASSUME WritesMapped, MaxStale = 0
    PROVE  Spec => []NoLeak
<1>1. Init => NoLeak
  <2> SUFFICES ASSUME Init, NEW t \in RegTypes, NEW r \in PhysRegs, reg_file[<<t, r>>] # "FREE"
               PROVE  \E k \in DOMAIN arch_regs : \E a \in Mapped :
                         TypeOf(a) = t /\ arch_regs[k][a] = r
    BY DEF NoLeak
  <2>1. /\ NArch \in Nat /\ NArch > 0 /\ MaxContexts \in Nat
        /\ r \in Nat /\ r < NArch * MaxContexts
    BY SizesAssumption DEF Init, PhysRegs
  <2>2. DOMAIN arch_regs = 1 .. MaxContexts
        /\ \A k \in 1 .. MaxContexts, a \in Mapped :
              arch_regs[k][a] = (k - 1) * NArch + (IF a < NArch THEN a ELSE a - NArch)
    BY DEF Init
  <2> DEFINE k == r \div NArch + 1
             s == r % NArch
  <2>3. s \in 0 .. NArch - 1 /\ r = (k - 1) * NArch + s /\ k \in Nat /\ k >= 1
    BY <2>1
  <2> HIDE DEF k, s
  <2>4. k <= MaxContexts
    <3> SUFFICES ASSUME k > MaxContexts PROVE FALSE
      BY <2>1, <2>3
    <3>1. (k - 1) * NArch = MaxContexts * NArch + (k - 1 - MaxContexts) * NArch
      BY <2>1, <2>3
    <3>2. (k - 1 - MaxContexts) * NArch >= 0 /\ MaxContexts * NArch = NArch * MaxContexts
      BY <2>1, <2>3
    <3> QED
      BY <2>1, <2>3, <3>1, <3>2
  <2>5. CASE t = "INT"
    <3>1. s \in Mapped /\ TypeOf(s) = t /\ s < NArch
      BY <2>1, <2>3, <2>5 DEF Mapped, TypeOf
    <3> QED
      BY <2>2, <2>3, <2>4, <3>1
  <2>6. CASE t = "FP"
    <3>1. s + NArch \in Mapped /\ TypeOf(s + NArch) = t /\ ~(s + NArch < NArch)
          /\ (s + NArch) - NArch = s
      BY <2>1, <2>3, <2>6 DEF Mapped, TypeOf
    <3> QED
      BY <2>2, <2>3, <2>4, <3>1
  <2> QED
    BY <2>5, <2>6 DEF RegTypes
<1>2. NoLeak /\ Ownership /\ TypeOK /\ TypeOK' /\ [Next]_vars => NoLeak'
  <2> SUFFICES ASSUME NoLeak, Ownership, TypeOK, TypeOK', [Next]_vars PROVE NoLeak'
    OBVIOUS
  <2>1. \A c \in Contexts : stale[c] = 0 /\ stale'[c] = 0
    BY DEF TypeOK
  <2>2. Lost' \subseteq Lost /\ Lost = {}
    BY <2>1, LostStep, NothingLost
  <2>3. (NoLeak <=> Lost = {})'
    BY NothingLost, PTL
  <2>4. (Lost = {})'
    BY <2>2
  <2> QED
    BY <2>3, <2>4
<1> QED
  BY OwnershipInvariant, TypeCorrect, <1>1, <1>2, PTL DEF Spec
=============================================================================
