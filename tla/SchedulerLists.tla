---------------------------- MODULE SchedulerLists ----------------------------
(***************************************************************************)
(* The in-flight lists of the scheduler, for every value of the constants: *)
(* every dispatched entry that is not complete is in exactly one list or   *)
(* is a load that lsq_refresh will find (ListsOK).                         *)
(*                                                                         *)
(* The invariant says what rename wrote (Records), where the entries are   *)
(* in the two buffers (Placement), when what is under way is due (Clocked) *)
(* and which list and which issue queue entry each of them has (Listed,    *)
(* IssueQueueOK).                                                          *)
(***************************************************************************)
EXTENDS Scheduler, FiniteSetTheorems, SequenceTheorems, WellFoundedInduction, TLAPS

-----------------------------------------------------------------------------
(* The inductive invariant *)

InstType ==
    [context_id : Contexts, kind : Kinds, in_LSQ : BOOLEAN, addr : Addrs, physreg : Nat,
     src_physreg : [{0, 1} -> Nat], recover_inst : BOOLEAN]

(* An access is a copy of its address computation, numbered after it; a    *)
(* register has the number of the entry it was allocated for; and operands *)
(* are registers of older instructions of the context.                     *)
WellFormed(e) ==
    /\ inst[e].in_LSQ =>
        /\ IsMem(inst[e].kind)
        /\ e - 1 \in Seqs /\ ~inst[e - 1].in_LSQ
        /\ inst[e - 1].kind = inst[e].kind /\ inst[e - 1].context_id = inst[e].context_id
        /\ inst[e - 1].src_physreg = inst[e].src_physreg
    /\ inst[e].physreg = IF ~WritesReg(inst[e].kind) THEN NoReg
                         ELSE IF inst[e].in_LSQ THEN e - 1 ELSE e
    /\ inst[e].recover_inst => inst[e].kind = "branch"
    /\ \A k \in {0, 1} : inst[e].src_physreg[k] # NoReg =>
        /\ inst[e].src_physreg[k] \in Seqs /\ inst[e].src_physreg[k] < e
        /\ inst[inst[e].src_physreg[k]].context_id = inst[e].context_id
        /\ inst[inst[e].src_physreg[k]].physreg = inst[e].src_physreg[k]
        /\ ~inst[inst[e].src_physreg[k]].in_LSQ

Records ==
    /\ core \in Cores
    /\ inst \in Seq(InstType)
    /\ \A e \in Seqs : WellFormed(e)

(* The two buffers of a context hold its entries, and an address           *)
(* computation and its access come and go together.                        *)
Placement ==
    /\ ROB \in [Contexts -> SUBSET Seqs] /\ LSQ \in [Contexts -> SUBSET Seqs]
    /\ \A c \in Contexts : \A e \in ROB[c] :
        /\ inst[e].context_id = c /\ ~inst[e].in_LSQ
        /\ ea_comp(e) => AccessOf(e) \in LSQ[c]
    /\ \A c \in Contexts : \A f \in LSQ[c] :
        /\ inst[f].context_id = c /\ inst[f].in_LSQ
        /\ f - 1 \in ROB[c] /\ ea_comp(f - 1)
    /\ dispatched \subseteq Live /\ completed \subseteq dispatched
    /\ \A c \in Contexts : \A f \in LSQ[c] : f \in dispatched <=> f - 1 \in dispatched

(* Nothing is overdue: what is to be executed in a cycle is executed in    *)
(* it, and what comes back is written back.                                *)
LatMax == INF - ISSUE_EXEC_DELAY - 1

Clocked ==
    /\ stage \in {"commit", "writeback", "wakeup", "selection", "execute", "rename"}
    /\ turn \in Contexts
    /\ exec_lat \in [Seqs -> 0 .. LatMax]
    /\ \A x \in issue_exec_queue :
        /\ x \in [rs : Seqs, when : 0 .. ISSUE_EXEC_DELAY]
        /\ exec_lat[x.rs] >= 1
        /\ stage = "rename" => x.when >= 1
    /\ \A x \in event_queue :
        /\ x \in [rs : Seqs, when : 0 .. LatMax]
        /\ stage \notin {"commit", "writeback"} => x.when >= 1

Issuing == OnTheWay(issue_exec_queue)
Returning == OnTheWay(event_queue)

(* No entry is in two lists, nor has it two events in one.                 *)
OneList ==
    /\ waiting_queue \cap ready_queue = {}
    /\ (waiting_queue \cup ready_queue) \cap (Issuing \cup Returning) = {}
    /\ Issuing \cap Returning = {}
    /\ \A x, y \in issue_exec_queue : x.rs = y.rs => x = y
    /\ \A x, y \in event_queue : x.rs = y.rs => x = y

Listed ==
    /\ OneList
    /\ \A e : e \in waiting_queue \cup ready_queue \cup Issuing \cup Returning =>
          e \in dispatched /\ e \notin completed
    /\ \A e \in dispatched : e \notin completed =>
          e \in waiting_queue \cup ready_queue \cup Issuing \cup Returning \/ IsLoad(e)
    /\ \A e \in waiting_queue : ~IsLoad(e)
    /\ \A e \in Issuing \cup Returning : ~IsStore(e)
    /\ queued = ready_queue
    /\ issued = completed \cup Issuing \cup Returning

IssueQueueOK ==
    /\ in_IQ = {e \in AllROB : e \in dispatched /\ e \notin completed /\ e \notin Returning}
    /\ iq_entry_num \in [Seqs -> -1 .. IQSize - 1]
    /\ iq = {iq_entry_num[e] : e \in in_IQ}
    /\ iq \subseteq 0 .. IQSize - 1
    /\ \A e, f \in in_IQ : iq_entry_num[e] = iq_entry_num[f] => e = f

ListsInv == Records /\ Placement /\ Clocked /\ Listed /\ IssueQueueOK

-----------------------------------------------------------------------------
(* Choices *)

LEMMA LeastOf ==
    ASSUME NEW T \in SUBSET Nat, T # {}
    PROVE  \E x \in T : \A y \in T : x <= y
<1>1. PICK x \in T : \A y \in T : ~(<<y, x>> \in OpToRel(<, Nat))
  BY NatLessThanWellFounded, WFMin
<1>2. \A y \in T : ~(y < x)
  BY <1>1 DEF OpToRel
<1> QED
  BY <1>2

LEMMA OldestIn ==
    ASSUME NEW T \in SUBSET Nat, T # {}
    PROVE  Oldest(T) \in T /\ \A f \in T : Oldest(T) <= f
BY LeastOf DEF Oldest

LEMMA CoreFacts ==
    ASSUME Records
    PROVE  /\ NumContexts \in Nat \ {0} /\ IQSize \in Nat \ {0} /\ issuelat \in Nat \ {0}
           /\ recovery_model \in {"squash", "perfect"}
           /\ Kinds \subseteq {"alu", "branch", "nofu", "load", "store", "store_c"}
BY CoresAssumption DEF Records, NumContexts, IQSize, issuelat, recovery_model, Kinds

(* The context that is served first is one of those that may be served.    *)
LEMMA FirstServedIn ==
    ASSUME Records, turn \in Contexts, NEW S \in SUBSET Contexts, S # {}
    PROVE  FirstServed(S) \in S
<1>1. NumContexts \in Nat \ {0}
  BY CoreFacts
<1>2. \A c \in Contexts : Distance(c) \in Nat
  BY <1>1 DEF Contexts, Distance
<1> DEFINE D == {Distance(c) : c \in S}
<1>3. D \in SUBSET Nat /\ D # {}
  BY <1>2
<1>4. PICK d \in D : \A y \in D : d <= y
  BY <1>3, LeastOf
<1>5. \E c \in S : \A e \in S : Distance(c) <= Distance(e)
  BY <1>4
<1> QED
  BY <1>5 DEF FirstServed

LEMMA NextToExecuteIn ==
    ASSUME Executing, \A x \in issue_exec_queue : x.rs \in Nat /\ x.when \in Nat
    PROVE  NextToExecute \in issue_exec_queue /\ NextToExecute.when <= 0
<1> DEFINE due == {x \in issue_exec_queue : x.when <= 0}
           first == {x.rs : x \in due}
<1>1. first \in SUBSET Nat /\ first # {}
  BY DEF Executing
<1>2. PICK n \in first : \A m \in first : n <= m
  BY <1>1, LeastOf
<1>3. PICK x \in due : x.rs = n
  BY <1>2
<1>4. \A y \in due : x.when < y.when \/ (x.when = y.when /\ x.rs <= y.rs)
  BY <1>2, <1>3
<1>5. NextToExecute \in due
  BY <1>3, <1>4 DEF NextToExecute
<1> QED
  BY <1>5

-----------------------------------------------------------------------------
(* What is read off the records of rename *)

LEMMA InstFacts ==
    ASSUME Records
    PROVE  /\ Len(inst) \in Nat /\ DOMAIN inst = Seqs /\ Seqs \subseteq Nat
           /\ \A e \in Seqs : inst[e] \in InstType /\ WellFormed(e)
           /\ \A e \in Seqs : /\ inst[e].context_id \in Contexts /\ inst[e].in_LSQ \in BOOLEAN
                              /\ inst[e].kind \in Kinds
                              /\ inst[e].src_physreg \in [{0, 1} -> Nat]
<1>1. Len(inst) \in Nat /\ DOMAIN inst = Seqs /\ Seqs \subseteq Nat
  BY DEF Records, Seqs
<1>2. \A e \in Seqs : inst[e] \in InstType
  BY <1>1 DEF Records
<1>3. \A e \in Seqs : /\ inst[e].context_id \in Contexts /\ inst[e].in_LSQ \in BOOLEAN
                     /\ inst[e].kind \in Kinds
                     /\ inst[e].src_physreg \in [{0, 1} -> Nat]
  BY <1>2 DEF InstType
<1> QED
  BY <1>1, <1>2, <1>3 DEF Records

LEMMA SameCore ==
    ASSUME core' = core
    PROVE  /\ Contexts' = Contexts /\ IQSize' = IQSize /\ Kinds' = Kinds /\ Addrs' = Addrs
           /\ NumContexts' = NumContexts /\ issuelat' = issuelat
           /\ recovery_model' = recovery_model
BY DEF Contexts, IQSize, Kinds, Addrs, NumContexts, issuelat, recovery_model

LEMMA SameInst ==
    ASSUME core' = core, inst' = inst
    PROVE  /\ Seqs' = Seqs /\ (Records => Records')
           /\ \A e : /\ IsLoad(e)' <=> IsLoad(e)
                     /\ IsStore(e)' <=> IsStore(e)
                     /\ ea_comp(e)' <=> ea_comp(e)
                     /\ Dest(e)' = Dest(e)
                     /\ Reads(e)' = Reads(e)
<1>1. Seqs' = Seqs
  BY DEF Seqs
<1>2. \A e : /\ IsLoad(e)' <=> IsLoad(e)
             /\ IsStore(e)' <=> IsStore(e)
             /\ ea_comp(e)' <=> ea_comp(e)
             /\ Dest(e)' = Dest(e)
             /\ Reads(e)' = Reads(e)
  <2> TAKE e
  <2>1. IsLoad(e)' <=> IsLoad(e)
    BY DEF IsLoad
  <2>2. ea_comp(e)' <=> ea_comp(e)
    BY DEF ea_comp
  <2>3. IsStore(e)' <=> IsStore(e)
    BY DEF IsStore
  <2>4. Dest(e)' = Dest(e)
    BY <2>2 DEF Dest
  <2>5. Reads(e)' = Reads(e)
    BY <2>1, <2>2 DEF Reads
  <2> QED
    BY <2>1, <2>2, <2>3, <2>4, <2>5
<1>3. InstType' = InstType /\ Kinds' = Kinds /\ Contexts' = Contexts /\ Addrs' = Addrs
  BY SameCore DEF InstType
<1>4. Records => Records'
  BY <1>1, <1>3 DEF Records, WellFormed
<1> QED
  BY <1>1, <1>2, <1>4

LEMMA Home ==
    ASSUME Records, Placement
    PROVE  /\ \A e \in Live : e \in Seqs /\ inst[e].context_id \in Contexts
           /\ \A e : e \in AllROB <=> \E c \in Contexts : e \in ROB[c]
           /\ \A e : e \in AllLSQ <=> \E c \in Contexts : e \in LSQ[c]
           /\ \A e \in AllROB : ~inst[e].in_LSQ /\ e \in ROB[inst[e].context_id]
           /\ \A e \in AllLSQ : inst[e].in_LSQ /\ e \in LSQ[inst[e].context_id]
           /\ Live \subseteq Nat
<1>1. \A e : e \in AllROB <=> \E c \in Contexts : e \in ROB[c]
  BY DEF AllROB
<1>2. \A e : e \in AllLSQ <=> \E c \in Contexts : e \in LSQ[c]
  BY DEF AllLSQ
<1>3. \A e \in AllROB : ~inst[e].in_LSQ /\ e \in ROB[inst[e].context_id] /\ e \in Seqs
  BY <1>1 DEF Placement
<1>4. \A e \in AllLSQ : inst[e].in_LSQ /\ e \in LSQ[inst[e].context_id] /\ e \in Seqs
  BY <1>2 DEF Placement
<1> QED
  BY <1>1, <1>2, <1>3, <1>4, InstFacts DEF Live

(* The register that an entry writes is written by no other.               *)
LEMMA DestOf ==
    ASSUME Records, NEW e \in Seqs, Dest(e) # NoReg
    PROVE  /\ Dest(e) \in Seqs
           /\ Dest(e) = IF inst[e].in_LSQ THEN e - 1 ELSE e
           /\ inst[e].in_LSQ <=> IsMem(inst[e].kind)
<1>1. WellFormed(e) /\ inst[e].in_LSQ \in BOOLEAN
  BY InstFacts
<1>2. ~ea_comp(e) /\ Dest(e) = inst[e].physreg
  BY DEF Dest
<1>3. Dest(e) = IF inst[e].in_LSQ THEN e - 1 ELSE e
  BY <1>1, <1>2 DEF WellFormed
<1>4. inst[e].in_LSQ <=> IsMem(inst[e].kind)
  BY <1>1, <1>2 DEF WellFormed, ea_comp, IsMem
<1> QED
  BY <1>1, <1>3, <1>4 DEF WellFormed

LEMMA DestUnique ==
    ASSUME Records, NEW e \in Seqs, NEW f \in Seqs, Dest(e) # NoReg, Dest(e) = Dest(f)
    PROVE  e = f
<1>1. /\ Dest(e) = IF inst[e].in_LSQ THEN e - 1 ELSE e
      /\ inst[e].in_LSQ <=> IsMem(inst[e].kind)
      /\ Dest(f) = IF inst[f].in_LSQ THEN f - 1 ELSE f
      /\ inst[f].in_LSQ <=> IsMem(inst[f].kind)
  BY DestOf
<1>2. \A g \in Seqs : inst[g].in_LSQ => ~inst[g - 1].in_LSQ /\ IsMem(inst[g - 1].kind)
  BY InstFacts DEF WellFormed
<1>3. e \in Nat /\ f \in Nat
  BY InstFacts
<1>4. CASE inst[e].in_LSQ /\ ~inst[f].in_LSQ
  <2>1. f = e - 1
    BY <1>1, <1>4
  <2> QED
    BY <1>1, <1>2, <1>4, <2>1
<1>5. CASE ~inst[e].in_LSQ /\ inst[f].in_LSQ
  <2>1. e = f - 1
    BY <1>1, <1>5
  <2> QED
    BY <1>1, <1>2, <1>5, <2>1
<1>6. CASE inst[e].in_LSQ /\ inst[f].in_LSQ
  <2>1. e - 1 = f - 1
    BY <1>1, <1>6
  <2> QED
    BY <1>3, <2>1
<1>7. CASE ~inst[e].in_LSQ /\ ~inst[f].in_LSQ
  BY <1>1, <1>7
<1> QED
  BY <1>4, <1>5, <1>6, <1>7

-----------------------------------------------------------------------------
(* Entries leave the buffers *)

(* The entries of E, all of c, leave; accesses go with their computations. *)
Closed(c, E) ==
    /\ E \subseteq ROB[c] \cup LSQ[c]
    /\ \A g \in ROB[c] : ea_comp(g) => (g \in E <=> AccessOf(g) \in E)

Leave(c, E) ==
    /\ ROB' = [ROB EXCEPT ![c] = @ \ E] /\ LSQ' = [LSQ EXCEPT ![c] = @ \ E]
    /\ core' = core /\ inst' = inst

LEMMA LeaveLive ==
    ASSUME Records, Placement, NEW c \in Contexts, NEW E, Closed(c, E), Leave(c, E)
    PROVE  /\ Records' /\ Contexts' = Contexts
           /\ AllROB' = AllROB \ E /\ AllLSQ' = AllLSQ \ E /\ Live' = Live \ E
           /\ \A d \in Contexts : ROB'[d] = ROB[d] \ E /\ LSQ'[d] = LSQ[d] \ E
<1>1. Contexts' = Contexts /\ Records'
  BY SameCore, SameInst DEF Leave
<1>2. \A d \in Contexts : ROB'[d] = ROB[d] \ E /\ LSQ'[d] = LSQ[d] \ E
  <2> SUFFICES ASSUME NEW d \in Contexts
               PROVE  ROB'[d] = ROB[d] \ E /\ LSQ'[d] = LSQ[d] \ E
    OBVIOUS
  <2>1. CASE d = c
    BY <2>1 DEF Leave, Placement
  <2>2. CASE d # c
    <3>1. ROB'[d] = ROB[d] /\ LSQ'[d] = LSQ[d]
      BY <2>2 DEF Leave, Placement
    <3>2. \A e \in E : e \notin ROB[d] /\ e \notin LSQ[d]
      BY <2>2 DEF Closed, Placement
    <3> QED
      BY <3>1, <3>2
  <2> QED
    BY <2>1, <2>2
<1>3. AllROB' = AllROB \ E
  BY <1>1, <1>2 DEF AllROB
<1>4. AllLSQ' = AllLSQ \ E
  BY <1>1, <1>2 DEF AllLSQ
<1> QED
  BY <1>1, <1>2, <1>3, <1>4 DEF Live

LEMMA LeavePlaced ==
    ASSUME Records, Placement, NEW c \in Contexts, NEW E, Closed(c, E), Leave(c, E),
           NEW done \in SUBSET dispatched,
           dispatched' = dispatched \ E, completed' = (completed \cup done) \ E
    PROVE  Placement'
<1>1. /\ Records' /\ Contexts' = Contexts /\ Live' = Live \ E
      /\ \A d \in Contexts : ROB'[d] = ROB[d] \ E /\ LSQ'[d] = LSQ[d] \ E
  BY LeaveLive
<1>2. /\ Seqs' = Seqs /\ inst' = inst
      /\ \A e : ea_comp(e)' <=> ea_comp(e)
  BY SameInst DEF Leave
<1>3. ROB' \in [Contexts -> SUBSET Seqs] /\ LSQ' \in [Contexts -> SUBSET Seqs]
  BY DEF Leave, Placement
<1>4. \A d \in Contexts : \A g \in ROB[d] : ea_comp(g) => (g \in E <=> AccessOf(g) \in E)
  <2> SUFFICES ASSUME NEW d \in Contexts, d # c, NEW g \in ROB[d], ea_comp(g)
               PROVE  g \notin E /\ AccessOf(g) \notin E
    BY DEF Closed
  <2> QED
    BY DEF Closed, Placement
<1>5. ASSUME NEW d \in Contexts, NEW e \in ROB'[d]
      PROVE  /\ inst[e].context_id = d /\ ~inst[e].in_LSQ
             /\ ea_comp(e) => AccessOf(e) \in LSQ'[d]
  BY <1>1, <1>4 DEF Placement
<1>6. ASSUME NEW d \in Contexts, NEW f \in LSQ'[d]
      PROVE  /\ inst[f].context_id = d /\ inst[f].in_LSQ
             /\ f - 1 \in ROB'[d] /\ ea_comp(f - 1)
             /\ f \in dispatched' <=> f - 1 \in dispatched'
  <2>1. f \in LSQ[d] /\ f \notin E /\ f - 1 \in ROB[d] /\ ea_comp(f - 1) /\ f \in Nat
    BY <1>1, InstFacts DEF Placement
  <2>2. AccessOf(f - 1) = f
    BY <2>1 DEF AccessOf
  <2>3. f - 1 \notin E
    BY <1>4, <2>1, <2>2
  <2> QED
    BY <1>1, <2>1, <2>3 DEF Placement
<1>7. dispatched' \subseteq Live' /\ completed' \subseteq dispatched'
  BY <1>1 DEF Placement
<1> QED
  BY <1>1, <1>2, <1>3, <1>5, <1>6, <1>7 DEF Placement

-----------------------------------------------------------------------------
(* Lists *)

LEMMA Ways ==
    /\ \A q, E : OnTheWay(Without(q, E)) = OnTheWay(q) \ E
    /\ \A q, e, t : OnTheWay(q \cup {[rs |-> e, when |-> t]}) = OnTheWay(q) \cup {e}
<1>1. ASSUME NEW q, NEW E PROVE OnTheWay(Without(q, E)) = OnTheWay(q) \ E
  BY DEF OnTheWay, Without
<1>2. ASSUME NEW q, NEW e, NEW t
      PROVE  OnTheWay(q \cup {[rs |-> e, when |-> t]}) = OnTheWay(q) \cup {e}
  <2> DEFINE y == [rs |-> e, when |-> t]
  <2>1. y.rs = e
    OBVIOUS
  <2> HIDE DEF y
  <2>2. OnTheWay(q \cup {y}) = OnTheWay(q) \cup {y.rs}
    BY DEF OnTheWay
  <2> QED
    BY <2>1, <2>2 DEF y
<1> QED
  BY <1>1, <1>2

LEMMA WayOut ==
    ASSUME NEW q, NEW x \in q, \A y \in q : y.rs = x.rs => y = x
    PROVE  OnTheWay(q \ {x}) = OnTheWay(q) \ {x.rs}
BY DEF OnTheWay

LEMMA WayTicks ==
    ASSUME NEW q, NEW S, \A x \in q : x \in [rs : S, when : Int]
    PROVE  /\ OnTheWay(TickEvents(q)) = OnTheWay(q)
           /\ \A y \in TickEvents(q) : \E x \in q : y = [rs |-> x.rs, when |-> x.when - 1]
<1>1. \A x \in q : [x EXCEPT !.when = @ - 1] = [rs |-> x.rs, when |-> x.when - 1]
  OBVIOUS
<1>2. TickEvents(q) = {[rs |-> x.rs, when |-> x.when - 1] : x \in q}
  BY <1>1 DEF TickEvents
<1>3. OnTheWay(TickEvents(q)) = OnTheWay(q)
  <2>1. \A e : e \in OnTheWay(TickEvents(q)) => e \in OnTheWay(q)
    BY <1>2 DEF OnTheWay
  <2>2. ASSUME NEW x \in q PROVE x.rs \in OnTheWay(TickEvents(q))
    <3>1. [rs |-> x.rs, when |-> x.when - 1] \in TickEvents(q)
      BY <1>2
    <3> DEFINE y == [rs |-> x.rs, when |-> x.when - 1]
    <3>2. y \in TickEvents(q) /\ y.rs = x.rs
      BY <3>1
    <3> HIDE DEF y
    <3> QED
      BY <3>2 DEF OnTheWay
  <2> QED
    BY <2>1, <2>2 DEF OnTheWay
<1> QED
  BY <1>2, <1>3

(* Nothing enters or leaves the buffers. *)
Stay == UNCHANGED <<core, inst, ROB, LSQ, dispatched>>

LEMMA Stays ==
    ASSUME Records, Placement, Stay, completed' \subseteq dispatched
    PROVE  Records' /\ Placement' /\ AllROB' = AllROB /\ AllLSQ' = AllLSQ /\ Live' = Live
<1>1. /\ Records' /\ Contexts' = Contexts /\ Seqs' = Seqs
      /\ \A e : ea_comp(e)' <=> ea_comp(e)
  BY SameCore, SameInst DEF Stay
<1>2. AllROB' = AllROB /\ AllLSQ' = AllLSQ
  BY <1>1 DEF AllROB, AllLSQ, Stay
<1>3. Live' = Live
  BY <1>2 DEF Live
<1>4. Placement'
  BY <1>1, <1>3 DEF Placement, Stay
<1> QED
  BY <1>1, <1>2, <1>3, <1>4

(* What is listed is an entry, and each has one place.                     *)
LEMMA ListFacts ==
    ASSUME ListsInv
    PROVE  /\ \A e \in waiting_queue \cup ready_queue \cup Issuing \cup Returning :
                /\ e \in dispatched /\ e \notin completed /\ e \in Live
                /\ e \in Seqs /\ e \in Nat
           /\ \A x \in issue_exec_queue : x.rs \in Issuing
           /\ \A x \in event_queue : x.rs \in Returning
<1>1. \A e \in waiting_queue \cup ready_queue \cup Issuing \cup Returning :
        e \in dispatched /\ e \notin completed /\ e \in Live
  BY DEF ListsInv, Listed, Placement
<1>2. Records /\ Placement
  BY DEF ListsInv
<1> QED
  BY <1>1, <1>2, Home, InstFacts DEF Issuing, Returning, OnTheWay

LEMMA NextItIn ==
    ASSUME ListsInv, Selecting
    PROVE  Next_it \in ready_queue /\ Next_it > it
<1> DEFINE R == {e \in ready_queue : e > it}
<1>1. R \in SUBSET Nat /\ R # {}
  BY ListFacts DEF Selecting
<1>2. Oldest(R) \in R
  BY <1>1, OldestIn
<1> QED
  BY <1>2 DEF Next_it

(* The issue queue is untouched. *)
LEMMA IssueQueueKept ==
    ASSUME ListsInv, Stay, UNCHANGED <<iqs, completed>>, Returning' = Returning
    PROVE  IssueQueueOK'
<1>1. /\ AllROB' = AllROB /\ Seqs' = Seqs /\ IQSize' = IQSize
      /\ dispatched' = dispatched /\ completed' = completed
      /\ in_IQ' = in_IQ /\ iq_entry_num' = iq_entry_num /\ iq' = iq
  BY Stays, SameInst, SameCore DEF ListsInv, Placement, Stay, iqs
<1> QED
  BY <1>1 DEF IssueQueueOK, ListsInv

-----------------------------------------------------------------------------
(* The steps that move entries between lists *)

LEMMA lsq_refreshLists ==
    ASSUME ListsInv, lsq_refresh
    PROVE  ListsInv'
<1> DEFINE L == {e \in AllLSQ : Refreshed(e)}
<1>1. Stay /\ UNCHANGED <<iqs, completed, issued, issue_exec_queue, event_queue, exec_lat>>
  BY DEF lsq_refresh, Stay
<1>2. Records' /\ Placement'
  BY <1>1, Stays DEF ListsInv, Placement
<1>3. Issuing' = Issuing /\ Returning' = Returning
  BY <1>1 DEF Issuing, Returning
<1>4. /\ Seqs' = Seqs /\ Contexts' = Contexts
      /\ \A e : (IsLoad(e)' <=> IsLoad(e)) /\ (IsStore(e)' <=> IsStore(e))
  BY <1>1, SameInst, SameCore DEF Stay
<1>5. \A e \in L : e \in dispatched /\ e \notin completed /\ e \notin issued /\ e \notin queued
                   /\ IsLoad(e)
  BY DEF Refreshed
<1>6. Clocked'
  BY <1>1, <1>4 DEF lsq_refresh, Clocked, ListsInv, Enter
<1>7. ready_queue' = ready_queue \cup L /\ queued' = queued \cup L
      /\ waiting_queue' = waiting_queue /\ dispatched' = dispatched
  BY DEF lsq_refresh
<1>8. Listed'
  <2> HIDE DEF L
  <2> QED
    BY <1>1, <1>3, <1>4, <1>5, <1>7 DEF Listed, OneList, ListsInv
<1> QED
  BY <1>1, <1>2, <1>3, <1>6, <1>8, IssueQueueKept DEF ListsInv

LEMMA wakeupLists ==
    ASSUME ListsInv, wakeup
    PROVE  ListsInv'
<1> DEFINE W == {e \in waiting_queue : all_operands_spec_ready(e)}
<1>1. Stay /\ UNCHANGED <<iqs, completed, issued, issue_exec_queue, event_queue, exec_lat>>
  BY DEF wakeup, Stay
<1>2. Records' /\ Placement'
  BY <1>1, Stays DEF ListsInv, Placement
<1>3. Issuing' = Issuing /\ Returning' = Returning
  BY <1>1 DEF Issuing, Returning
<1>4. /\ Seqs' = Seqs /\ Contexts' = Contexts
      /\ \A e : (IsLoad(e)' <=> IsLoad(e)) /\ (IsStore(e)' <=> IsStore(e))
  BY <1>1, SameInst, SameCore DEF Stay
<1>5. W \subseteq waiting_queue
  OBVIOUS
<1>6. Clocked'
  BY <1>1, <1>4 DEF wakeup, Clocked, ListsInv, Enter
<1>7. ready_queue' = ready_queue \cup W /\ queued' = queued \cup W
      /\ waiting_queue' = waiting_queue \ W /\ dispatched' = dispatched
  BY DEF wakeup
<1>8. Listed'
  <2> HIDE DEF W
  <2> QED
    BY <1>1, <1>3, <1>4, <1>5, <1>7 DEF Listed, OneList, ListsInv
<1> QED
  BY <1>1, <1>2, <1>3, <1>6, <1>8, IssueQueueKept DEF ListsInv

LEMMA select_storeLists ==
    ASSUME ListsInv, select_store
    PROVE  ListsInv'
<1> DEFINE e == Next_it
<1>1. Stay /\ UNCHANGED <<iqs, issue_exec_queue, event_queue, exec_lat>>
  BY DEF select_store, Stay
<1>2. e \in ready_queue /\ IsStore(e) /\ e \in dispatched
  BY NextItIn, ListFacts DEF select_store
<1>3. /\ ready_queue' = ready_queue \ {e} /\ queued' = queued \ {e}
      /\ issued' = issued \cup {e} /\ completed' = completed \cup {e}
      /\ waiting_queue' = waiting_queue /\ dispatched' = dispatched
  BY DEF select_store
<1> HIDE DEF e
<1>4. Records' /\ Placement' /\ AllROB' = AllROB
  BY <1>1, <1>2, <1>3, Stays DEF ListsInv, Placement
<1>5. Issuing' = Issuing /\ Returning' = Returning
  BY <1>1 DEF Issuing, Returning
<1>6. /\ Seqs' = Seqs /\ Contexts' = Contexts /\ IQSize' = IQSize
      /\ \A f : (IsLoad(f)' <=> IsLoad(f)) /\ (IsStore(f)' <=> IsStore(f))
  BY <1>1, SameInst, SameCore DEF Stay
<1>7. Clocked'
  BY <1>1, <1>6 DEF select_store, Clocked, ListsInv
<1>8. Listed'
  BY <1>1, <1>2, <1>3, <1>5, <1>6 DEF Listed, OneList, ListsInv
<1>9. e \notin AllROB
  BY <1>2, Home DEF ListsInv, IsStore
<1>10. in_IQ' = in_IQ /\ iq_entry_num' = iq_entry_num /\ iq' = iq
  BY <1>1 DEF iqs
<1>11. IssueQueueOK'
  BY <1>3, <1>4, <1>5, <1>6, <1>9, <1>10 DEF IssueQueueOK, ListsInv
<1> QED
  BY <1>4, <1>7, <1>8, <1>11 DEF ListsInv

LEMMA issueLists ==
    ASSUME ListsInv, issue
    PROVE  ListsInv'
<1> DEFINE e == Next_it
           x == [rs |-> e, when |-> ISSUE_EXEC_DELAY]
<1>1. Stay /\ UNCHANGED <<iqs, completed, event_queue>>
  BY DEF issue, Stay
<1>2. e \in ready_queue /\ ~IsStore(e) /\ e \in dispatched /\ e \in Seqs
  BY NextItIn, ListFacts DEF issue
<1>3. PICK lat \in Latencies(e) : exec_lat' = [exec_lat EXCEPT ![e] = lat]
  BY DEF issue
<1>4. /\ ready_queue' = ready_queue \ {e} /\ queued' = queued \ {e}
      /\ issued' = issued \cup {e} /\ stage' = stage /\ turn' = turn /\ stage = "selection"
      /\ waiting_queue' = waiting_queue /\ dispatched' = dispatched
      /\ issue_exec_queue' = issue_exec_queue \cup {x}
  BY DEF issue, Selecting
<1>5. lat \in 1 .. LatMax
  BY LatsAssumption, SizesAssumption DEF Latencies, LatMax, INF
<1>6. x \in [rs : Seqs, when : 0 .. ISSUE_EXEC_DELAY] /\ x.rs = e
  BY <1>2, SizesAssumption
<1>7. Issuing' = Issuing \cup {e} /\ Returning' = Returning
  BY <1>1, <1>4, Ways DEF Issuing, Returning
<1> HIDE DEF e, x
<1>8. Records' /\ Placement'
  BY <1>1, Stays DEF ListsInv, Placement
<1>9. /\ Seqs' = Seqs /\ Contexts' = Contexts
      /\ \A f : (IsLoad(f)' <=> IsLoad(f)) /\ (IsStore(f)' <=> IsStore(f))
  BY <1>1, SameInst, SameCore DEF Stay
<1>10. exec_lat' \in [Seqs -> 0 .. LatMax] /\ exec_lat'[e] = lat
       /\ \A f \in Seqs : f # e => exec_lat'[f] = exec_lat[f]
  BY <1>2, <1>3, <1>5 DEF ListsInv, Clocked
<1>11. Clocked'
  <2>1. ASSUME NEW y \in issue_exec_queue'
        PROVE  y \in [rs : Seqs, when : 0 .. ISSUE_EXEC_DELAY] /\ exec_lat'[y.rs] >= 1
    <3>1. CASE y = x
      BY <1>5, <1>6, <1>10, <3>1
    <3>2. CASE y # x
      <4>1. /\ y \in issue_exec_queue /\ y \in [rs : Seqs, when : 0 .. ISSUE_EXEC_DELAY]
            /\ exec_lat[y.rs] >= 1 /\ y.rs \in Seqs
        BY <1>4, <3>2 DEF ListsInv, Clocked
      <4> QED
        BY <1>5, <1>10, <4>1
    <3> QED
      BY <3>1, <3>2
  <2> QED
    BY <1>1, <1>4, <1>9, <1>10, <2>1 DEF ListsInv, Clocked
<1>12. Listed'
  <2>1. \A y \in issue_exec_queue : y.rs # e
    BY <1>2 DEF ListsInv, Listed, OneList, Issuing, OnTheWay
  <2>2. OneList'
    BY <1>1, <1>2, <1>4, <1>6, <1>7, <2>1 DEF ListsInv, Listed, OneList
  <2> QED
    BY <1>1, <1>2, <1>4, <1>7, <1>9, <2>2 DEF Listed, ListsInv
<1> QED
  BY <1>1, <1>7, <1>8, <1>11, <1>12, IssueQueueKept DEF ListsInv

LEMMA executeFacts ==
    ASSUME ListsInv, execute
    PROVE  /\ NextToExecute \in issue_exec_queue /\ NextToExecute.when = 0
           /\ NextToExecute.rs \in Issuing
           /\ Issuing' = Issuing \ {NextToExecute.rs}
           /\ Returning' = Returning \cup {NextToExecute.rs}
<1>1. \A y \in issue_exec_queue : y \in [rs : Seqs, when : 0 .. ISSUE_EXEC_DELAY]
  BY DEF ListsInv, Clocked
<1>2. \A y \in issue_exec_queue : y.rs \in Nat /\ y.when \in Nat
  BY <1>1, SizesAssumption DEF Seqs
<1>3. NextToExecute \in issue_exec_queue /\ NextToExecute.when <= 0
  BY <1>2, NextToExecuteIn DEF execute
<1> DEFINE x == NextToExecute
<1>4. /\ issue_exec_queue' = issue_exec_queue \ {x}
      /\ event_queue' = event_queue \cup {[rs |-> x.rs, when |-> exec_lat[x.rs]]}
  BY DEF execute
<1> HIDE DEF x
<1>5. x \in issue_exec_queue
  BY <1>3 DEF x
<1>6. \A y \in issue_exec_queue : y.rs = x.rs => y = x
  BY <1>5 DEF ListsInv, Listed, OneList
<1>7. Issuing' = Issuing \ {x.rs} /\ Returning' = Returning \cup {x.rs}
  BY <1>4, <1>5, <1>6, Ways, WayOut DEF Issuing, Returning
<1> QED
  BY <1>2, <1>3, <1>7, ListFacts DEF x

LEMMA executeLists ==
    ASSUME ListsInv, execute
    PROVE  ListsInv'
<1> DEFINE x == NextToExecute
           e == x.rs
           y == [rs |-> e, when |-> exec_lat[e]]
<1>1. Stay /\ UNCHANGED <<completed, queued, issued, waiting_queue, ready_queue, iq_entry_num,
                          exec_lat, stage, turn>>
  BY DEF execute, Stay, flags, loop
<1>2. /\ issue_exec_queue' = issue_exec_queue \ {x} /\ event_queue' = event_queue \cup {y}
      /\ iq' = iq \ FreedIQ({e}) /\ in_IQ' = in_IQ \ {e} /\ stage = "execute"
  BY DEF execute, Executing
<1>3. /\ x \in issue_exec_queue /\ e \in Issuing
      /\ Issuing' = Issuing \ {e} /\ Returning' = Returning \cup {e}
  BY executeFacts
<1>4. e \in Seqs /\ exec_lat[e] \in 1 .. LatMax
  <2>1. e \in Seqs /\ exec_lat[e] >= 1 /\ exec_lat \in [Seqs -> 0 .. LatMax]
    BY <1>3, ListFacts DEF ListsInv, Clocked
  <2>2. exec_lat[e] \in 0 .. LatMax
    BY <2>1
  <2> QED
    BY <2>1, <2>2, LatsAssumption, SizesAssumption DEF LatMax, INF
<1>5. y \in [rs : Seqs, when : 0 .. LatMax] /\ y.when >= 1 /\ y.rs = e
  BY <1>4
<1> HIDE DEF e, y, x
<1>6. Records' /\ Placement' /\ AllROB' = AllROB
  BY <1>1, Stays DEF ListsInv, Placement
<1>7. /\ Seqs' = Seqs /\ Contexts' = Contexts /\ IQSize' = IQSize
      /\ \A f : (IsLoad(f)' <=> IsLoad(f)) /\ (IsStore(f)' <=> IsStore(f))
  BY <1>1, SameInst, SameCore DEF Stay
<1>8. Clocked'
  <2>1. \A z \in event_queue : z.when >= 1
    BY <1>2 DEF ListsInv, Clocked
  <2> QED
    BY <1>1, <1>2, <1>5, <1>7, <2>1 DEF ListsInv, Clocked
<1>9. Listed'
  <2>1. \A z \in event_queue : z.rs # e
    BY <1>3 DEF ListsInv, Listed, OneList, Returning, OnTheWay
  <2>2. OneList'
    BY <1>1, <1>2, <1>3, <1>5, <2>1 DEF ListsInv, Listed, OneList
  <2>3. dispatched' = dispatched /\ e \in dispatched /\ e \notin completed
    BY <1>1, <1>3, ListFacts DEF Stay
  <2> QED
    BY <1>1, <1>3, <1>7, <2>2, <2>3 DEF Listed, ListsInv
<1>10. IssueQueueOK'
  <2>1. in_IQ' = {f \in AllROB' : f \in dispatched' /\ f \notin completed' /\ f \notin Returning'}
    BY <1>1, <1>2, <1>3, <1>6 DEF IssueQueueOK, ListsInv, Stay
  <2>2. iq' = {iq_entry_num[f] : f \in in_IQ'}
    <3>1. /\ in_IQ' = in_IQ \ {e} /\ iq' = iq \ {iq_entry_num[f] : f \in in_IQ \cap {e}}
          /\ iq = {iq_entry_num[f] : f \in in_IQ}
          /\ \A f, g \in in_IQ : iq_entry_num[f] = iq_entry_num[g] => f = g
      BY <1>2 DEF IssueQueueOK, ListsInv, FreedIQ
    <3> QED
      BY <3>1
  <2>3. /\ iq' \subseteq iq /\ in_IQ' \subseteq in_IQ /\ iq_entry_num' = iq_entry_num
        /\ Seqs' = Seqs /\ IQSize' = IQSize
    BY <1>1, <1>2, <1>7
  <2> QED
    BY <2>1, <2>2, <2>3 DEF IssueQueueOK, ListsInv
<1> QED
  BY <1>6, <1>8, <1>9, <1>10 DEF ListsInv

LEMMA replayLists ==
    ASSUME ListsInv, replay
    PROVE  ListsInv'
<1> DEFINE c == inst[NextToExecute.rs].context_id
           X == InContext({x.rs : x \in issue_exec_queue}, c)
           R == Flushed(c)
<1>1. Stay /\ UNCHANGED <<iqs, completed, event_queue, exec_lat, stage, turn>>
  BY DEF replay, Stay, loop
<1>2. /\ issued' = issued \ X /\ queued' = queued \ R
      /\ issue_exec_queue' = Without(issue_exec_queue, X) /\ ready_queue' = ready_queue \ R
      /\ waiting_queue' = waiting_queue \cup Requeued(X \cup R) /\ stage = "execute"
  BY DEF replay, Executing
<1>3. X \subseteq Issuing /\ R \subseteq ready_queue
  BY DEF InContext, Flushed, Issuing, OnTheWay
<1> HIDE DEF c, X, R
<1>4. Issuing' = Issuing \ X /\ Returning' = Returning
  BY <1>1, <1>2, Ways DEF Issuing, Returning
<1>5. Records' /\ Placement'
  BY <1>1, Stays DEF ListsInv, Placement
<1>6. /\ Seqs' = Seqs /\ Contexts' = Contexts
      /\ \A f : (IsLoad(f)' <=> IsLoad(f)) /\ (IsStore(f)' <=> IsStore(f))
  BY <1>1, SameInst, SameCore DEF Stay
<1>7. issue_exec_queue' \subseteq issue_exec_queue
  BY <1>2 DEF Without
<1>8. Clocked'
  BY <1>1, <1>2, <1>6, <1>7 DEF ListsInv, Clocked
<1>9. Listed'
  <2>1. \A e : e \in Requeued(X \cup R) <=> e \in X \cup R /\ ~IsLoad(e)
    BY DEF Requeued
  <2>2. \A e \in X \cup R : e \in dispatched /\ e \notin completed
    BY <1>3, ListFacts
  <2>3. dispatched' = dispatched
    BY <1>1 DEF Stay
  <2>4. OneList'
    BY <1>1, <1>2, <1>3, <1>4, <1>7, <2>1 DEF ListsInv, Listed, OneList
  <2>5. /\ \A e : e \in waiting_queue' \cup ready_queue' \cup Issuing' \cup Returning' =>
              e \in dispatched' /\ e \notin completed'
        /\ \A e \in dispatched' : e \notin completed' =>
              e \in waiting_queue' \cup ready_queue' \cup Issuing' \cup Returning' \/ IsLoad(e)
    <3>1. \A e : e \in waiting_queue \cup ready_queue \cup Issuing \cup Returning \/ e \in X \cup R =>
              e \in dispatched /\ e \notin completed
      BY <2>2 DEF Listed, ListsInv
    <3>2. \A e \in dispatched : e \notin completed =>
              e \in waiting_queue \cup ready_queue \cup Issuing \cup Returning \/ IsLoad(e)
      BY DEF Listed, ListsInv
    <3> QED
      BY <1>1, <1>2, <1>4, <2>1, <2>3, <3>1, <3>2
  <2>6. \A e \in waiting_queue' : ~IsLoad(e)
    BY <1>2, <2>1 DEF Listed, ListsInv
  <2>7. /\ \A e \in Issuing' \cup Returning' : ~IsStore(e)
        /\ queued' = ready_queue' /\ issued' = completed' \cup Issuing' \cup Returning'
    <3>1. /\ \A e \in Issuing \cup Returning : ~IsStore(e)
          /\ queued = ready_queue /\ issued = completed \cup Issuing \cup Returning
          /\ Issuing \cap Returning = {}
      BY DEF Listed, OneList, ListsInv
    <3> QED
      BY <1>1, <1>2, <1>3, <1>4, <2>2, <3>1
  <2> QED
    BY <1>6, <2>4, <2>5, <2>6, <2>7 DEF Listed
<1> QED
  BY <1>1, <1>4, <1>5, <1>8, <1>9, IssueQueueKept DEF ListsInv

LEMMA next_cycleLists ==
    ASSUME ListsInv, next_cycle
    PROVE  ListsInv'
<1>1. Stay /\ UNCHANGED <<iqs, flags, waiting_queue, ready_queue, exec_lat>>
  BY DEF next_cycle, Stay, flags
<1>2. /\ issue_exec_queue' = TickEvents(issue_exec_queue)
      /\ event_queue' = TickEvents(event_queue)
      /\ stage = "rename" /\ stage' = "commit" /\ turn' = (turn + 1) % NumContexts
  BY DEF next_cycle
<1>3. /\ \A y \in issue_exec_queue : y \in [rs : Seqs, when : 0 .. ISSUE_EXEC_DELAY]
                                       /\ y.when >= 1 /\ exec_lat[y.rs] >= 1
      /\ \A y \in event_queue : y \in [rs : Seqs, when : 0 .. LatMax] /\ y.when >= 1
  BY <1>2 DEF ListsInv, Clocked
<1>4. /\ \A y \in issue_exec_queue : y \in [rs : Seqs, when : Int]
      /\ \A y \in event_queue : y \in [rs : Seqs, when : Int]
  BY <1>3
<1>5. /\ Issuing' = Issuing
      /\ \A y \in issue_exec_queue' : \E x \in issue_exec_queue :
            y = [rs |-> x.rs, when |-> x.when - 1]
  BY <1>2, <1>4, WayTicks DEF Issuing
<1>6. /\ Returning' = Returning
      /\ \A y \in event_queue' : \E x \in event_queue :
            y = [rs |-> x.rs, when |-> x.when - 1]
  BY <1>2, <1>4, WayTicks DEF Returning
<1>7. Records' /\ Placement'
  BY <1>1, Stays DEF ListsInv, Placement, flags
<1>8. /\ Seqs' = Seqs /\ Contexts' = Contexts
      /\ \A f : (IsLoad(f)' <=> IsLoad(f)) /\ (IsStore(f)' <=> IsStore(f))
  BY <1>1, SameInst, SameCore DEF Stay
<1>9. Clocked'
  <2>1. turn' \in Contexts
    BY <1>2, CoreFacts DEF ListsInv, Clocked, Contexts
  <2>2. ASSUME NEW y \in issue_exec_queue'
        PROVE  y \in [rs : Seqs, when : 0 .. ISSUE_EXEC_DELAY] /\ exec_lat[y.rs] >= 1
    <3>1. PICK x \in issue_exec_queue : y = [rs |-> x.rs, when |-> x.when - 1]
      BY <1>5
    <3>2. x.when \in 0 .. ISSUE_EXEC_DELAY /\ x.when >= 1 /\ x.rs \in Seqs /\ exec_lat[x.rs] >= 1
      BY <1>3
    <3>3. x.when - 1 \in 0 .. ISSUE_EXEC_DELAY
      BY <3>2, SizesAssumption
    <3> QED
      BY <3>1, <3>2, <3>3
  <2>3. ASSUME NEW y \in event_queue'
        PROVE  y \in [rs : Seqs, when : 0 .. LatMax]
    <3>1. PICK x \in event_queue : y = [rs |-> x.rs, when |-> x.when - 1]
      BY <1>6
    <3>2. x.when \in 0 .. LatMax /\ x.when >= 1 /\ x.rs \in Seqs
      BY <1>3
    <3>3. x.when - 1 \in 0 .. LatMax
      BY <3>2, LatsAssumption, SizesAssumption DEF LatMax, INF
    <3> QED
      BY <3>1, <3>2, <3>3
  <2> QED
    BY <1>1, <1>2, <1>8, <2>1, <2>2, <2>3 DEF ListsInv, Clocked
<1>10. Listed'
  <2>1. ASSUME NEW y \in issue_exec_queue', NEW z \in issue_exec_queue', y.rs = z.rs
        PROVE  y = z
    <3>1. PICK x \in issue_exec_queue : y = [rs |-> x.rs, when |-> x.when - 1]
      BY <1>5
    <3>2. PICK w \in issue_exec_queue : z = [rs |-> w.rs, when |-> w.when - 1]
      BY <1>5
    <3>3. x.rs = w.rs
      BY <2>1, <3>1, <3>2
    <3>4. x = w
      BY <3>3 DEF ListsInv, Listed, OneList
    <3> QED
      BY <3>1, <3>2, <3>4
  <2>2. ASSUME NEW y \in event_queue', NEW z \in event_queue', y.rs = z.rs
        PROVE  y = z
    <3>1. PICK x \in event_queue : y = [rs |-> x.rs, when |-> x.when - 1]
      BY <1>6
    <3>2. PICK w \in event_queue : z = [rs |-> w.rs, when |-> w.when - 1]
      BY <1>6
    <3>3. x.rs = w.rs
      BY <2>2, <3>1, <3>2
    <3>4. x = w
      BY <3>3 DEF ListsInv, Listed, OneList
    <3> QED
      BY <3>1, <3>2, <3>4
  <2>3. OneList'
    BY <1>1, <1>5, <1>6, <2>1, <2>2 DEF ListsInv, Listed, OneList
  <2> QED
    BY <1>1, <1>5, <1>6, <1>8, <2>3 DEF ListsInv, Listed, flags
<1> QED
  BY <1>1, <1>6, <1>7, <1>9, <1>10, IssueQueueKept DEF ListsInv, flags

(* Steps that end a stage, or find no unit, move nothing.                  *)
Idle == commit_done \/ no_unit \/ selection_done \/ dispatch_none

LEMMA IdleLists ==
    ASSUME ListsInv, Idle \/ UNCHANGED vars
    PROVE  ListsInv'
<1>1. Stay /\ UNCHANGED <<iqs, flags, lists, exec_lat, turn>>
  BY DEF Idle, commit_done, no_unit, selection_done, dispatch_none, Stay, vars, Enter, loop, flags
<1>2. Issuing' = Issuing /\ Returning' = Returning
  BY <1>1 DEF Issuing, Returning, lists
<1>3. Records' /\ Placement'
  BY <1>1, Stays DEF ListsInv, Placement, flags
<1>4. /\ Seqs' = Seqs /\ Contexts' = Contexts
      /\ \A f : (IsLoad(f)' <=> IsLoad(f)) /\ (IsStore(f)' <=> IsStore(f))
  BY <1>1, SameInst, SameCore DEF Stay
<1>5. Listed'
  BY <1>1, <1>2, <1>4 DEF ListsInv, Listed, OneList, flags, lists, Stay
<1>6. \/ stage' = stage
      \/ stage = "commit" /\ stage' = "writeback"
      \/ stage = "selection" /\ stage' = "execute"
      \/ /\ stage = "execute" /\ stage' = "rename"
         /\ \A x \in issue_exec_queue : ~(x.when <= 0)
  BY DEF Idle, commit_done, no_unit, selection_done, dispatch_none, vars, loop, Enter,
         Executed, Executing
<1>7. Clocked'
  <2>1. \A x \in issue_exec_queue : ~(x.when <= 0) => x.when >= 1
    BY SizesAssumption DEF ListsInv, Clocked
  <2> QED
    BY <1>1, <1>4, <1>6, <2>1 DEF ListsInv, Clocked, lists
<1> QED
  BY <1>1, <1>2, <1>3, <1>5, <1>7, IssueQueueKept DEF ListsInv, flags

-----------------------------------------------------------------------------
(* The steps that take entries out: commit and squash *)

(* E leaves with all its flags and places; "served" has been written back. *)
Cleared(E, served) ==
    /\ dispatched' = dispatched \ E /\ queued' = queued \ E /\ issued' = issued \ E
    /\ completed' = (completed \cup OnTheWay(served)) \ E
    /\ Clear_Entry_From_Queues(E, served)
    /\ in_IQ' = in_IQ \ E /\ iq' = iq \ FreedIQ(E) /\ iq_entry_num' = iq_entry_num
    /\ exec_lat' = exec_lat /\ turn' = turn /\ stage' = stage

LEMMA LeaveListed ==
    ASSUME ListsInv, NEW c \in Contexts, NEW E, Closed(c, E), Leave(c, E),
           NEW served \in SUBSET event_queue, Cleared(E, served), stage \in {"commit", "writeback"}
    PROVE  ListsInv'
<1> DEFINE done == OnTheWay(served)
<1>1. done \subseteq Returning
  BY DEF Returning, OnTheWay
<1>2. /\ dispatched' = dispatched \ E /\ queued' = queued \ E /\ issued' = issued \ E
      /\ completed' = (completed \cup done) \ E
      /\ in_IQ' = in_IQ \ E /\ iq' = iq \ FreedIQ(E) /\ iq_entry_num' = iq_entry_num
      /\ exec_lat' = exec_lat /\ turn' = turn /\ stage' = stage
      /\ waiting_queue' = waiting_queue \ E /\ ready_queue' = ready_queue \ E
      /\ issue_exec_queue' = Without(issue_exec_queue, E)
      /\ event_queue' = Without(event_queue \ served, E)
  BY DEF Cleared, Clear_Entry_From_Queues
<1>3. Issuing' = Issuing \ E
  BY <1>2, Ways DEF Issuing
<1>4. OnTheWay(event_queue \ served) = Returning \ done
  <2>1. \A x, y \in event_queue : x.rs = y.rs => x = y
    BY DEF ListsInv, Listed, OneList
  <2>2. ASSUME NEW x \in event_queue \ served PROVE x.rs \notin done
    BY <2>1 DEF OnTheWay
  <2> HIDE DEF done
  <2>3. \A e : e \in OnTheWay(event_queue \ served) => e \in Returning \ done
    BY <2>2 DEF Returning, OnTheWay
  <2>4. \A e : e \in Returning \ done => e \in OnTheWay(event_queue \ served)
    BY DEF Returning, OnTheWay, done
  <2> QED
    BY <2>3, <2>4
<1>5. Returning' = (Returning \ done) \ E
  <2>1. OnTheWay(Without(event_queue \ served, E)) = OnTheWay(event_queue \ served) \ E
    BY Ways
  <2>2. Returning' = OnTheWay(event_queue')
    BY DEF Returning
  <2> QED
    BY <1>2, <1>4, <2>1, <2>2
<1>6. done \subseteq dispatched
  BY <1>1, ListFacts
<1> HIDE DEF done
<1>7. Records' /\ Contexts' = Contexts /\ AllROB' = AllROB \ E
  BY LeaveLive DEF ListsInv
<1>8. Placement'
  BY <1>2, <1>6, LeavePlaced DEF ListsInv
<1>9. /\ Seqs' = Seqs /\ IQSize' = IQSize
      /\ \A f : (IsLoad(f)' <=> IsLoad(f)) /\ (IsStore(f)' <=> IsStore(f))
  BY SameInst, SameCore DEF Leave
<1>10. issue_exec_queue' \subseteq issue_exec_queue /\ event_queue' \subseteq event_queue
  BY <1>2 DEF Without
<1>11. Clocked'
  BY <1>2, <1>7, <1>9, <1>10 DEF ListsInv, Clocked
<1>12. OneList'
  BY <1>2, <1>3, <1>5, <1>10 DEF ListsInv, Listed, OneList
<1>13. Listed'
  <2>1. /\ \A e : e \in waiting_queue \cup ready_queue \cup Issuing \cup Returning =>
              e \in dispatched /\ e \notin completed
        /\ \A e \in dispatched : e \notin completed =>
              e \in waiting_queue \cup ready_queue \cup Issuing \cup Returning \/ IsLoad(e)
        /\ \A e \in waiting_queue : ~IsLoad(e)
        /\ \A e \in Issuing \cup Returning : ~IsStore(e)
        /\ queued = ready_queue
        /\ issued = completed \cup Issuing \cup Returning
        /\ (waiting_queue \cup ready_queue) \cap (Issuing \cup Returning) = {}
        /\ Issuing \cap Returning = {}
    BY DEF ListsInv, Listed, OneList
  <2>2. \A e : e \in waiting_queue' \cup ready_queue' \cup Issuing' \cup Returning' =>
              e \in dispatched' /\ e \notin completed'
    BY <1>1, <1>2, <1>3, <1>5, <2>1
  <2>3. \A e \in dispatched' : e \notin completed' =>
              e \in waiting_queue' \cup ready_queue' \cup Issuing' \cup Returning' \/ IsLoad(e)
    BY <1>1, <1>2, <1>3, <1>5, <2>1
  <2>4. issued' = completed' \cup Issuing' \cup Returning'
    BY <1>1, <1>2, <1>3, <1>5, <2>1
  <2> QED
    BY <1>2, <1>3, <1>5, <1>9, <1>12, <2>1, <2>2, <2>3, <2>4 DEF Listed
<1>14. IssueQueueOK'
  <2>1. /\ in_IQ = {f \in AllROB : f \in dispatched /\ f \notin completed /\ f \notin Returning}
        /\ iq = {iq_entry_num[f] : f \in in_IQ}
        /\ \A f, g \in in_IQ : iq_entry_num[f] = iq_entry_num[g] => f = g
    BY DEF IssueQueueOK, ListsInv
  <2>2. in_IQ' = {f \in AllROB' : f \in dispatched' /\ f \notin completed' /\ f \notin Returning'}
    BY <1>1, <1>2, <1>5, <1>7, <2>1
  <2>3. iq' = {iq_entry_num[f] : f \in in_IQ'}
    BY <1>2, <2>1 DEF FreedIQ
  <2>4. iq' \subseteq iq /\ in_IQ' \subseteq in_IQ
    BY <1>2
  <2> QED
    BY <1>2, <1>9, <2>2, <2>3, <2>4 DEF IssueQueueOK, ListsInv
<1> QED
  BY <1>7, <1>8, <1>11, <1>13, <1>14 DEF ListsInv

(* What commits: the oldest of its context, complete, with its access.     *)
LEMMA commitFacts ==
    ASSUME ListsInv, commit
    PROVE  \E c \in Contexts : \E e \in ROB[c] :
             LET E == IF ea_comp(e) THEN {e, AccessOf(e)} ELSE {e}
             IN  /\ Closed(c, E) /\ Leave(c, E) /\ Cleared(E, {}) /\ E \subseteq completed
                 /\ \A f \in ROB[c] : e <= f
                 /\ stage = "commit" /\ UNCHANGED times
<1> DEFINE C == {d \in Contexts : Committable(d)}
           c == FirstServed(C)
           e == Oldest(ROB[c])
           E == IF ea_comp(e) THEN {e, AccessOf(e)} ELSE {e}
<1>1. C # {} /\ C \in SUBSET Contexts /\ Records /\ Placement /\ turn \in Contexts
  BY DEF commit, ListsInv, Clocked
<1>2. c \in C
  BY <1>1, FirstServedIn
<1>3. Committable(c) /\ c \in Contexts
  BY <1>2
<1>4. /\ Leave(c, E) /\ stage = "commit" /\ UNCHANGED <<times, iqs, exec_lat, turn, stage>>
      /\ dispatched' = dispatched \ E /\ queued' = queued \ E
      /\ issued' = issued \ E /\ completed' = completed \ E
      /\ Clear_Entry_From_Queues(E, {})
  BY DEF commit, Leave
<1> HIDE DEF C, c
<1>5. ROB[c] # {} /\ ROB[c] \in SUBSET Nat /\ ROB[c] \subseteq Seqs /\ LSQ[c] \subseteq Seqs
  BY <1>1, <1>3, InstFacts DEF Committable, Placement
<1>6. e \in ROB[c] /\ \A f \in ROB[c] : e <= f
  BY <1>5, OldestIn
<1>7. e \in completed /\ (ea_comp(e) => AccessOf(e) \in completed)
  BY <1>3 DEF Committable
<1> HIDE DEF e
<1>8. Closed(c, E)
  <2>1. E \subseteq ROB[c] \cup LSQ[c]
    BY <1>1, <1>3, <1>6 DEF Placement
  <2>2. ASSUME NEW g \in ROB[c], ea_comp(g) PROVE g \in E <=> AccessOf(g) \in E
    <3>1. AccessOf(g) \in LSQ[c] /\ inst[AccessOf(g)].in_LSQ /\ ~inst[g].in_LSQ /\ ~inst[e].in_LSQ
      BY <1>1, <1>3, <1>6, <2>2 DEF Placement
    <3>2. AccessOf(g) # e
      BY <3>1
    <3>3. ea_comp(e) => AccessOf(e) \in LSQ[c] /\ inst[AccessOf(e)].in_LSQ
      BY <1>1, <1>3, <1>6 DEF Placement
    <3>4. ea_comp(e) => g # AccessOf(e)
      BY <3>1, <3>3
    <3>5. AccessOf(g) = AccessOf(e) => g = e
      BY <1>5, <1>6 DEF AccessOf
    <3> QED
      BY <2>2, <3>2, <3>4, <3>5
  <2> QED
    BY <2>1, <2>2 DEF Closed
<1>9. E \subseteq completed
  BY <1>7
<1>10. OnTheWay({}) = {}
  BY DEF OnTheWay
<1>11. in_IQ \cap E = {}
  BY <1>9 DEF ListsInv, IssueQueueOK
<1> HIDE DEF E
<1>12. FreedIQ(E) = {}
  BY <1>11 DEF FreedIQ
<1>13. Cleared(E, {})
  BY <1>4, <1>10, <1>11, <1>12 DEF Cleared, iqs
<1> QED
  BY <1>3, <1>4, <1>6, <1>8, <1>9, <1>13 DEF E

LEMMA commitLists ==
    ASSUME ListsInv, commit
    PROVE  ListsInv'
<1>1. \E c \in Contexts : \E E : Closed(c, E) /\ Leave(c, E) /\ Cleared(E, {}) /\ stage = "commit"
  BY commitFacts
<1> QED
  BY <1>1, LeaveListed

LEMMA YoungerClosed ==
    ASSUME Records, Placement, NEW c \in Contexts, NEW e \in ROB[c], ~ea_comp(e)
    PROVE  Closed(c, Younger(e)) /\ e \notin Younger(e)
<1> DEFINE E == Younger(e)
<1>1. inst[e].context_id = c /\ ROB[c] \subseteq Nat /\ LSQ[c] \subseteq Nat
  BY InstFacts DEF Placement
<1>2. \A f : f \in E <=> f \in ROB[c] \cup LSQ[c] /\ f > e
  BY <1>1 DEF Younger
<1>3. \A g \in ROB[c] : ea_comp(g) => g \in Nat /\ g # e /\ AccessOf(g) \in LSQ[c]
  BY <1>1 DEF Placement
<1> HIDE DEF E
<1>4. \A g \in ROB[c] : ea_comp(g) => (g \in E <=> AccessOf(g) \in E)
  BY <1>1, <1>2, <1>3 DEF AccessOf
<1>5. E \subseteq ROB[c] \cup LSQ[c] /\ e \notin E
  BY <1>1, <1>2
<1> QED
  BY <1>4, <1>5 DEF Closed, E

(* What is written back, and what a mispredicted branch takes with it.     *)
LEMMA writebackFacts ==
    ASSUME ListsInv, writeback
    PROVE  \E ev \in event_queue :
             LET c == inst[ev.rs].context_id
                 E == IF inst[ev.rs].recover_inst THEN Younger(ev.rs) ELSE {}
             IN  /\ c \in Contexts /\ Closed(c, E) /\ Leave(c, E) /\ Cleared(E, {ev})
                 /\ ev.when <= 0 /\ ev.rs \notin E
                 /\ E = {} \/ (E = Younger(ev.rs) /\ ev.rs \in ROB[c])
                 /\ stage = "writeback" /\ UNCHANGED times
<1>1. PICK ev \in event_queue :
        LET e == ev.rs
            c == inst[e].context_id
            E == IF inst[e].recover_inst THEN Younger(e) ELSE {}
        IN  /\ ev.when <= 0
            /\ ROB' = [ROB EXCEPT ![c] = @ \ E]
            /\ LSQ' = [LSQ EXCEPT ![c] = @ \ E]
            /\ completed' = (completed \cup {e}) \ E
            /\ dispatched' = dispatched \ E /\ queued' = queued \ E /\ issued' = issued \ E
            /\ Clear_Entry_From_Queues(E, {ev})
            /\ iq' = iq \ FreedIQ(E) /\ in_IQ' = in_IQ \ E
  BY DEF writeback
<1> DEFINE e == ev.rs
           c == inst[e].context_id
           E == IF inst[e].recover_inst THEN Younger(e) ELSE {}
<1>2. /\ stage = "writeback" /\ UNCHANGED <<times, iq_entry_num, exec_lat, turn, stage, core, inst>>
  BY DEF writeback, loop
<1>3. OnTheWay({ev}) = {e}
  BY DEF OnTheWay
<1>4. Leave(c, E) /\ Cleared(E, {ev})
  BY <1>1, <1>2, <1>3 DEF Leave, Cleared
<1>5. e \in Seqs /\ e \in Live /\ Records /\ Placement /\ Seqs \subseteq Nat
  BY ListFacts, InstFacts DEF ListsInv
<1>6. c \in Contexts
  BY <1>5, InstFacts
<1>7. inst[e].recover_inst => e \in ROB[c] /\ ~ea_comp(e)
  <2>1. inst[e].recover_inst => inst[e].kind = "branch" /\ ~inst[e].in_LSQ
    BY <1>5, InstFacts DEF WellFormed, IsMem
  <2> QED
    BY <1>5, <2>1, Home DEF ea_comp, Live
<1> HIDE DEF c
<1>8. Closed(c, E) /\ e \notin E
  <2>1. CASE inst[e].recover_inst
    BY <1>5, <1>6, <1>7, <2>1, YoungerClosed DEF c
  <2>2. CASE ~inst[e].recover_inst
    BY <2>2 DEF Closed
  <2> QED
    BY <2>1, <2>2
<1> QED
  BY <1>1, <1>2, <1>4, <1>6, <1>7, <1>8 DEF c

LEMMA writebackLists ==
    ASSUME ListsInv, writeback
    PROVE  ListsInv'
<1>1. \E ev \in event_queue, c \in Contexts : \E E :
        Closed(c, E) /\ Leave(c, E) /\ Cleared(E, {ev}) /\ stage = "writeback"
  BY writebackFacts
<1> QED
  BY <1>1, LeaveListed

-----------------------------------------------------------------------------
(* Dispatch *)

(* e enters, with its access; of E, what is not a load is listed, S ready. *)
Enters(e, S, n) ==
    LET E == {f \in Entering(e) : ~IsLoad(f)}
    IN  /\ e \notin dispatched /\ e \in Seqs /\ n \in iq_free
        /\ \A f \in Entering(e) : f \in Live /\ f \notin dispatched
        /\ \A f \in Entering(e) : f # e => inst[f].in_LSQ
        /\ S = {f \in E : all_operands_spec_ready(f)}
        /\ dispatched' = dispatched \cup Entering(e)
        /\ iq_entry_num' = [iq_entry_num EXCEPT ![e] = n]
        /\ iq' = iq \cup {n} /\ in_IQ' = in_IQ \cup {e}
        /\ ready_queue' = ready_queue \cup S /\ queued' = queued \cup S
        /\ waiting_queue' = waiting_queue \cup (E \ S)

LEMMA dispatchFacts ==
    ASSUME ListsInv, dispatch
    PROVE  \E c \in Contexts : \E e \in ROB[c] : \E S, n : Enters(e, S, n)
<1> DEFINE C == {c \in Contexts : Undispatched(c) # {}}
           c == FirstServed(C)
           e == Oldest(Undispatched(c))
           E == {f \in Entering(e) : ~IsLoad(f)}
           S == {f \in E : all_operands_spec_ready(f)}
<1>1. C # {} /\ C \in SUBSET Contexts /\ Records /\ Placement /\ turn \in Contexts
  BY DEF dispatch, ListsInv, Clocked
<1>2. c \in C
  BY <1>1, FirstServedIn
<1>3. Oldest(iq_free) \in iq_free
  <2>1. iq_free \in SUBSET Nat /\ iq_free # {}
    BY DEF iq_free, dispatch
  <2> QED
    BY <2>1, OldestIn
<1>4. /\ dispatched' = dispatched \cup Entering(e)
      /\ iq_entry_num' = [iq_entry_num EXCEPT ![e] = Oldest(iq_free)]
      /\ iq' = iq \cup {Oldest(iq_free)} /\ in_IQ' = in_IQ \cup {e}
      /\ ready_queue' = ready_queue \cup S /\ queued' = queued \cup S
      /\ waiting_queue' = waiting_queue \cup (E \ S)
  BY DEF dispatch
<1>6. c \in Contexts /\ Undispatched(c) # {}
  BY <1>2
<1> HIDE DEF C, c
<1>7. Undispatched(c) \in SUBSET Nat
  BY <1>1, <1>6, InstFacts DEF Placement, Undispatched
<1>8. e \in Undispatched(c)
  BY <1>6, <1>7, OldestIn
<1> HIDE DEF e
<1>9. e \in ROB[c] /\ e \notin dispatched /\ e \in Nat /\ e \in Live /\ e \in Seqs
  BY <1>1, <1>6, <1>7, <1>8, Home DEF Undispatched, Live
<1>10. \A f \in Entering(e) : f \in Live /\ f \notin dispatched /\ (f # e => inst[f].in_LSQ)
  <2>1. CASE ea_comp(e)
    <3>1. AccessOf(e) \in LSQ[c] /\ AccessOf(e) - 1 = e
      BY <1>1, <1>6, <1>9, <2>1 DEF Placement, AccessOf
    <3>2. AccessOf(e) \notin dispatched /\ inst[AccessOf(e)].in_LSQ
      <4>1. \A f \in LSQ[c] : (f \in dispatched <=> f - 1 \in dispatched) /\ inst[f].in_LSQ
        BY <1>1, <1>6 DEF Placement
      <4> QED
        BY <1>9, <3>1, <4>1
    <3>3. AccessOf(e) \in Live
      BY <1>1, <1>6, <3>1, Home DEF Live
    <3> QED
      BY <1>9, <3>2, <3>3 DEF Entering
  <2>2. CASE ~ea_comp(e)
    BY <1>9, <2>2 DEF Entering
  <2> QED
    BY <2>1, <2>2
<1>11. Enters(e, S, Oldest(iq_free))
  BY <1>3, <1>4, <1>9, <1>10 DEF Enters
<1> QED
  BY <1>6, <1>9, <1>11

LEMMA dispatchLists ==
    ASSUME ListsInv, dispatch
    PROVE  ListsInv'
<1>1. PICK c \in Contexts : \E e \in ROB[c] : \E S, n : Enters(e, S, n)
  BY dispatchFacts
<1>a. PICK e \in ROB[c] : \E S, n : Enters(e, S, n)
  BY <1>1
<1>b. PICK S, n : Enters(e, S, n)
  BY <1>a
<1> DEFINE E == {f \in Entering(e) : ~IsLoad(f)}
<1>2. /\ e \notin dispatched /\ e \in Seqs /\ n \in iq_free
      /\ \A f \in Entering(e) : f \in Live /\ f \notin dispatched
      /\ \A f \in Entering(e) : f # e => inst[f].in_LSQ
      /\ S \subseteq E
      /\ dispatched' = dispatched \cup Entering(e)
      /\ iq_entry_num' = [iq_entry_num EXCEPT ![e] = n]
      /\ iq' = iq \cup {n} /\ in_IQ' = in_IQ \cup {e}
      /\ ready_queue' = ready_queue \cup S /\ queued' = queued \cup S
      /\ waiting_queue' = waiting_queue \cup (E \ S)
  BY <1>b DEF Enters
<1>3. /\ UNCHANGED <<core, inst, ROB, LSQ, issued, completed, issue_exec_queue, event_queue,
                     exec_lat, turn>>
      /\ stage = "execute" /\ stage' = "rename" /\ \A x \in issue_exec_queue : ~(x.when <= 0)
  BY DEF dispatch, Executed, Executing, Enter
<1>4. /\ Records' /\ Contexts' = Contexts /\ Seqs' = Seqs /\ IQSize' = IQSize
      /\ \A f : /\ (IsLoad(f)' <=> IsLoad(f)) /\ (IsStore(f)' <=> IsStore(f))
                /\ (ea_comp(f)' <=> ea_comp(f))
  BY <1>3, SameInst, SameCore DEF ListsInv
<1>5. AllROB' = AllROB /\ AllLSQ' = AllLSQ
  BY <1>3, <1>4 DEF AllROB, AllLSQ
<1>6. Live' = Live
  BY <1>5 DEF Live
<1>7. Issuing' = Issuing /\ Returning' = Returning
  BY <1>3 DEF Issuing, Returning
<1>8. e \in Entering(e) /\ ~IsLoad(e) /\ e \in AllROB /\ e \in Nat /\ ~inst[e].in_LSQ
  <2>1. e \in AllROB /\ ~inst[e].in_LSQ /\ e \in Nat
    BY Home, InstFacts DEF ListsInv, Placement
  <2> QED
    BY <2>1 DEF Entering, IsLoad
<1>9. \A f \in Entering(e) : f \notin waiting_queue \cup ready_queue \cup Issuing \cup Returning
                           /\ f \notin completed
  BY <1>2, ListFacts DEF ListsInv, Placement
<1>10. Placement'
  <2>1. \A d \in Contexts : \A f \in LSQ[d] : f \in Entering(e) <=> f - 1 \in Entering(e)
    <3> SUFFICES ASSUME NEW d \in Contexts, NEW f \in LSQ[d]
                 PROVE  f \in Entering(e) <=> f - 1 \in Entering(e)
      OBVIOUS
    <3>1. /\ f \in Nat /\ inst[f].in_LSQ /\ f - 1 \in ROB[d] /\ ea_comp(f - 1)
          /\ ~inst[f - 1].in_LSQ
      BY InstFacts DEF ListsInv, Placement
    <3>2. f # e
      BY <1>8, <3>1
    <3>3. f \in Entering(e) => f - 1 = e
      BY <1>8, <3>1, <3>2 DEF Entering, AccessOf
    <3>4. f - 1 \in Entering(e) => f - 1 = e
      BY <1>2, <3>1
    <3>5. f - 1 = e => f \in Entering(e)
      BY <1>8, <3>1 DEF Entering, AccessOf
    <3> QED
      BY <1>8, <3>3, <3>4, <3>5
  <2>2. dispatched' \subseteq Live' /\ completed' \subseteq dispatched'
    BY <1>2, <1>3, <1>6 DEF ListsInv, Placement
  <2>3. \A d \in Contexts : \A f \in LSQ[d] : f \in dispatched' <=> f - 1 \in dispatched'
    BY <1>2, <2>1 DEF ListsInv, Placement
  <2> QED
    BY <1>3, <1>4, <2>2, <2>3 DEF ListsInv, Placement
<1>11. Clocked'
  BY <1>3, <1>4, SizesAssumption DEF ListsInv, Clocked
<1>12. Listed'
  <2>1. \A f : f \in E <=> f \in Entering(e) /\ ~IsLoad(f)
    OBVIOUS
  <2> HIDE DEF E
  <2>2. OneList'
    BY <1>2, <1>3, <1>7, <1>9, <2>1 DEF ListsInv, Listed, OneList
  <2>3. /\ \A f : f \in waiting_queue \cup ready_queue \cup Issuing \cup Returning =>
              f \in dispatched /\ f \notin completed
        /\ \A f \in dispatched : f \notin completed =>
              f \in waiting_queue \cup ready_queue \cup Issuing \cup Returning \/ IsLoad(f)
        /\ \A f \in waiting_queue : ~IsLoad(f)
        /\ \A f \in Issuing \cup Returning : ~IsStore(f)
        /\ queued = ready_queue /\ issued = completed \cup Issuing \cup Returning
    BY DEF ListsInv, Listed
  <2>4. \A f : f \in waiting_queue' \cup ready_queue' \cup Issuing' \cup Returning' =>
              f \in dispatched' /\ f \notin completed'
    BY <1>2, <1>3, <1>7, <1>9, <2>1, <2>3
  <2>5. \A f \in dispatched' : f \notin completed' =>
              f \in waiting_queue' \cup ready_queue' \cup Issuing' \cup Returning' \/ IsLoad(f)
    BY <1>2, <1>3, <1>7, <2>1, <2>3
  <2> QED
    BY <1>2, <1>3, <1>4, <1>7, <2>1, <2>2, <2>3, <2>4, <2>5 DEF Listed
<1>13. IssueQueueOK'
  <2>1. /\ in_IQ = {f \in AllROB : f \in dispatched /\ f \notin completed /\ f \notin Returning}
        /\ iq_entry_num \in [Seqs -> -1 .. IQSize - 1]
        /\ iq = {iq_entry_num[f] : f \in in_IQ} /\ iq \subseteq 0 .. IQSize - 1
        /\ \A f, g \in in_IQ : iq_entry_num[f] = iq_entry_num[g] => f = g
    BY DEF ListsInv, IssueQueueOK
  <2>2. n \in 0 .. IQSize - 1 /\ n \notin iq /\ IQSize \in Nat /\ n \in -1 .. IQSize - 1
    <3>1. n \in 0 .. IQSize - 1 /\ n \notin iq /\ IQSize \in Nat
      BY <1>2, CoreFacts DEF iq_free, ListsInv
    <3> QED
      BY <3>1
  <2>3. iq_entry_num' \in [Seqs -> -1 .. IQSize - 1] /\ iq_entry_num'[e] = n
        /\ \A f \in Seqs : f # e => iq_entry_num'[f] = iq_entry_num[f]
    BY <1>2, <2>1, <2>2
  <2>4. \A f \in AllROB : f \in Entering(e) => f = e
    BY <1>2, Home DEF ListsInv
  <2>5. in_IQ' = {f \in AllROB' : f \in dispatched' /\ f \notin completed' /\ f \notin Returning'}
    BY <1>2, <1>3, <1>5, <1>7, <1>8, <1>9, <2>1, <2>4
  <2>6. in_IQ \subseteq Seqs /\ e \notin in_IQ
    BY <1>2, <2>1, Home DEF ListsInv, Live
  <2>7. iq' = {iq_entry_num'[f] : f \in in_IQ'}
    BY <1>2, <2>1, <2>3, <2>6
  <2>8. \A f, g \in in_IQ' : iq_entry_num'[f] = iq_entry_num'[g] => f = g
    BY <1>2, <2>1, <2>2, <2>3, <2>6
  <2> QED
    BY <1>2, <1>4, <2>1, <2>2, <2>3, <2>5, <2>7, <2>8 DEF IssueQueueOK
<1> QED
  BY <1>4, <1>10, <1>11, <1>12, <1>13 DEF ListsInv

-----------------------------------------------------------------------------
(* Rename *)

(* What rename appends to the tables that sequence numbers index.          *)
Fill(f, k, v) == f \o [i \in 1 .. k |-> v]

FilledOf(f, n, k, v, S) ==
    /\ Fill(f, k, v) \in [1 .. n + k -> S]
    /\ \A i \in 1 .. n : Fill(f, k, v)[i] = f[i]
    /\ \A i \in n + 1 .. n + k : Fill(f, k, v)[i] = v

LEMMA Filled ==
    ASSUME NEW S, NEW n \in Nat, NEW k \in Nat, NEW f \in [1 .. n -> S], NEW v \in S
    PROVE  FilledOf(f, n, k, v, S)
<1> DEFINE t == [i \in 1 .. k |-> v]
<1>1. f \in Seq(S) /\ Len(f) = n
  OBVIOUS
<1>2. t \in Seq(S) /\ Len(t) = k /\ \A i \in 1 .. k : t[i] = v
  OBVIOUS
<1> HIDE DEF t
<1>3. /\ f \o t \in Seq(S) /\ Len(f \o t) = n + k
      /\ \A i \in 1 .. n + k : (f \o t)[i] = IF i <= n THEN f[i] ELSE t[i - n]
  BY <1>1, <1>2, ConcatProperties, ZenonT(30)
<1>4. f \o t \in [1 .. n + k -> S]
  BY <1>3, LenProperties
<1>5. \A i \in 1 .. n : (f \o t)[i] = f[i]
  BY <1>3
<1>6. ASSUME NEW i \in n + 1 .. n + k PROVE (f \o t)[i] = v
  <2>1. i \in 1 .. n + k /\ ~(i <= n) /\ i - n \in 1 .. k
    OBVIOUS
  <2> QED
    BY <1>2, <1>3, <2>1
<1> QED
  BY <1>4, <1>5, <1>6 DEF t, Fill, FilledOf

(* The records of the new instruction, n and, for a memory access, n + 1.  *)
Renamed(c, kind, src, n, k) ==
    /\ n = Len(inst) + 1 /\ k = (IF IsMem(kind) THEN 2 ELSE 1) /\ n + k - 1 = Len(inst')
    /\ inst' \in Seq(InstType)
    /\ \A e \in Seqs : inst'[e] = inst[e]
    /\ \A e \in n .. n + k - 1 :
        /\ inst'[e].context_id = c /\ inst'[e].kind = kind /\ inst'[e].src_physreg = src
        /\ inst'[e].physreg = IF WritesReg(kind) THEN n ELSE NoReg
        /\ inst'[e].in_LSQ = IF e = n THEN FALSE ELSE TRUE
        /\ inst'[e].recover_inst => kind = "branch"

LEMMA renameInst ==
    ASSUME ListsInv, NEW c \in Contexts, NEW kind \in Kinds, NEW addr \in Addrs,
           NEW mispredicted \in BOOLEAN, NEW stale, NEW src \in [{0, 1} -> Sources(c)],
           register_rename(c, kind, src, addr, mispredicted, stale)
    PROVE  Renamed(c, kind, src, Len(inst) + 1, IF IsMem(kind) THEN 2 ELSE 1)
<1> DEFINE n == Len(inst) + 1
           k == IF IsMem(kind) THEN 2 ELSE 1
           entry == [context_id |-> c, kind |-> kind, in_LSQ |-> FALSE, addr |-> addr,
              physreg |-> IF WritesReg(kind) THEN n ELSE NoReg, src_physreg |-> src,
              recover_inst |-> kind = "branch" /\ mispredicted /\ ~spec_mode(c)]
           access == [entry EXCEPT !.in_LSQ = TRUE]
           new == IF IsMem(kind) THEN <<entry, access>> ELSE <<entry>>
<1>1. inst' = inst \o new
  BY DEF register_rename
<1>2. src \in [{0, 1} -> Nat]
  <2>1. Sources(c) \subseteq Nat
    <3>1. \A e \in ROB[c] : inst[e] \in InstType
      BY InstFacts DEF ListsInv, Placement
    <3> QED
      BY <3>1 DEF Sources, InstType, NoReg
  <2> QED
    BY <2>1
<1>3. n \in Nat /\ Len(inst) \in Nat /\ inst \in Seq(InstType)
  BY InstFacts DEF ListsInv, Records
<1>4. entry \in InstType
  <2>1. (IF WritesReg(kind) THEN n ELSE NoReg) \in Nat
    BY <1>3 DEF NoReg
  <2> QED
    BY <1>2, <2>1 DEF InstType
<1>5. access \in InstType
  BY <1>4 DEF InstType
<1>6. /\ entry.context_id = c /\ entry.kind = kind /\ entry.src_physreg = src
      /\ entry.physreg = (IF WritesReg(kind) THEN n ELSE NoReg)
      /\ entry.in_LSQ = FALSE /\ (entry.recover_inst => kind = "branch")
      /\ access.context_id = c /\ access.kind = kind /\ access.src_physreg = src
      /\ access.physreg = (IF WritesReg(kind) THEN n ELSE NoReg)
      /\ access.in_LSQ = TRUE /\ (access.recover_inst => kind = "branch")
  OBVIOUS
<1> HIDE DEF entry, access
<1>7. /\ new \in Seq(InstType) /\ Len(new) = k /\ new[1] = entry
      /\ (k = 2 => new[2] = access) /\ k \in {1, 2}
  BY <1>4, <1>5
<1> HIDE DEF new, k
<1>8. /\ inst' \in Seq(InstType) /\ Len(inst') = Len(inst) + k
      /\ \A i \in 1 .. Len(inst) + k :
            inst'[i] = IF i <= Len(inst) THEN inst[i] ELSE new[i - Len(inst)]
  BY <1>1, <1>3, <1>7, ConcatProperties
<1>9. \A e \in Seqs : inst'[e] = inst[e]
  BY <1>3, <1>7, <1>8 DEF Seqs
<1>10. inst'[n] = entry
  <2>1. n \in 1 .. Len(inst) + k /\ ~(n <= Len(inst)) /\ n - Len(inst) = 1
    BY <1>3, <1>7
  <2> QED
    BY <1>7, <1>8, <2>1
<1>11. k = 2 => inst'[n + 1] = access
  <2>1. k = 2 => n + 1 \in 1 .. Len(inst) + k /\ ~(n + 1 <= Len(inst)) /\ n + 1 - Len(inst) = 2
    BY <1>3, <1>7
  <2> QED
    BY <1>7, <1>8, <2>1
<1>12. n + k - 1 = Len(inst')
  BY <1>3, <1>7, <1>8
<1>13. ASSUME NEW e \in n .. n + k - 1
       PROVE  /\ inst'[e].context_id = c /\ inst'[e].kind = kind /\ inst'[e].src_physreg = src
              /\ inst'[e].physreg = IF WritesReg(kind) THEN n ELSE NoReg
              /\ inst'[e].in_LSQ = IF e = n THEN FALSE ELSE TRUE
              /\ inst'[e].recover_inst => kind = "branch"
  <2>1. e = n \/ (k = 2 /\ e = n + 1)
    BY <1>3, <1>7
  <2>2. CASE e = n
    <3> HIDE DEF n
    <3> QED
      BY <1>6, <1>10, <2>2
  <2>3. CASE k = 2 /\ e = n + 1
    <3>1. e # n
      BY <1>3, <2>3
    <3> HIDE DEF n
    <3> QED
      BY <1>6, <1>11, <2>3, <3>1
  <2> QED
    BY <2>1, <2>2, <2>3
<1> QED
  BY <1>8, <1>9, <1>12, <1>13 DEF Renamed, k

(* A new instruction of c, whole: its records, buffers and table entries.  *)
Appended(c, kind, src, n, k, stale) ==
    /\ c \in Contexts /\ kind \in Kinds /\ src \in [{0, 1} -> Sources(c)]
    /\ stale \in {0} \cup MemLats
    /\ Renamed(c, kind, src, n, k)
    /\ ROB' = [ROB EXCEPT ![c] = @ \cup {n}]
    /\ LSQ' = [LSQ EXCEPT ![c] = @ \cup (n + 1 .. n + k - 1)]
    /\ ready' = Fill(ready, k, INF)
    /\ spec_ready' = Fill(spec_ready, k, INF)
    /\ exec_lat' = Fill(exec_lat, k, stale)
    /\ iq_entry_num' = Fill(iq_entry_num, k, -1)
    /\ UNCHANGED <<core, loop, flags, in_IQ, iq, lists>> /\ stage = "rename"

LEMMA RenameAppends ==
    ASSUME ListsInv, Rename
    PROVE  \E c, kind, src, n, k, stale : Appended(c, kind, src, n, k, stale)
<1>1. PICK c \in Contexts, kind \in Kinds, mispredicted \in BOOLEAN, stale \in {0} \cup MemLats :
        \E addr \in Addrs, src \in [{0, 1} -> Sources(c)] :
          register_rename(c, kind, src, addr, mispredicted, stale)
  BY DEF Rename
<1>2. PICK addr \in Addrs, src \in [{0, 1} -> Sources(c)] :
          register_rename(c, kind, src, addr, mispredicted, stale)
  BY <1>1
<1> DEFINE n == Len(inst) + 1
           k == IF IsMem(kind) THEN 2 ELSE 1
<1>3. Renamed(c, kind, src, n, k)
  BY <1>2, renameInst
<1>4. Appended(c, kind, src, n, k, stale)
  BY <1>2, <1>3 DEF Appended, register_rename, Fill
<1> QED
  BY <1>4

(* The numbers: those before, then n and, for an access, n + 1.            *)
LEMMA AppendedSeqs ==
    ASSUME ListsInv, NEW c, NEW kind, NEW src, NEW n, NEW k, NEW stale,
           Appended(c, kind, src, n, k, stale)
    PROVE  /\ n \in Nat /\ n = Len(inst) + 1 /\ k \in {1, 2} /\ (k = 2 <=> IsMem(kind))
           /\ Seqs = 1 .. n - 1 /\ Seqs' = 1 .. n + k - 1 /\ Seqs \subseteq Seqs'
           /\ \A e \in Seqs' : e \in Seqs \/ e = n \/ (k = 2 /\ e = n + 1)
           /\ n \in Seqs' /\ (k = 2 => n + 1 \in Seqs') /\ n \notin Seqs /\ n + 1 \notin Seqs
           /\ n \notin Live /\ n + 1 \notin Live
           /\ Contexts' = Contexts /\ Kinds' = Kinds /\ IQSize' = IQSize
<1>1. n = Len(inst) + 1 /\ k = (IF IsMem(kind) THEN 2 ELSE 1) /\ n + k - 1 = Len(inst') /\ core' = core
  BY DEF Appended, Renamed
<1>2. Len(inst) \in Nat
  BY InstFacts DEF ListsInv
<1>3. Seqs = 1 .. n - 1 /\ Seqs' = 1 .. n + k - 1
  BY <1>1, <1>2 DEF Seqs
<1>4. Live \subseteq Seqs
  BY Home DEF ListsInv
<1>5. k \in {1, 2} /\ (k = 2 <=> IsMem(kind)) /\ n \in Nat
  BY <1>1, <1>2
<1>7. n \notin Seqs /\ n + 1 \notin Seqs /\ Seqs \subseteq Seqs' /\ n \in Seqs' /\ (k = 2 => n + 1 \in Seqs')
  <2>1. n >= 1
    BY <1>1, <1>2
  <2>2. CASE k = 1
    BY <1>3, <1>5, <2>1, <2>2
  <2>3. CASE k = 2
    BY <1>3, <1>5, <2>1, <2>3
  <2> QED
    BY <1>5, <2>2, <2>3
<1>8. \A e \in Seqs' : e \in Seqs \/ e = n \/ (k = 2 /\ e = n + 1)
  BY <1>3, <1>5
<1> QED
  BY <1>1, <1>3, <1>4, <1>5, <1>7, <1>8, SameCore

(* An operand is a register of an older instruction of the context.        *)
LEMMA SourceOf ==
    ASSUME ListsInv, NEW c \in Contexts, NEW r \in Sources(c), r # NoReg
    PROVE  /\ r \in Seqs /\ r \in ROB[c]
           /\ inst[r].context_id = c /\ inst[r].physreg = r /\ ~inst[r].in_LSQ
<1>1. PICK e \in ROB[c] : r = inst[e].physreg
  BY DEF Sources
<1>2. e \in Seqs /\ inst[e].context_id = c /\ ~inst[e].in_LSQ
  BY DEF ListsInv, Placement
<1>3. r = e
  BY <1>1, <1>2, InstFacts DEF ListsInv, WellFormed
<1> QED
  BY <1>1, <1>2, <1>3

LEMMA AppendedRecords ==
    ASSUME ListsInv, NEW c, NEW kind, NEW src, NEW n, NEW k, NEW stale,
           Appended(c, kind, src, n, k, stale)
    PROVE  Records'
<1>1. Renamed(c, kind, src, n, k) /\ c \in Contexts /\ src \in [{0, 1} -> Sources(c)] /\ core' = core
  BY DEF Appended
<1>2. /\ n \in Nat /\ Seqs = 1 .. n - 1 /\ Seqs \subseteq Seqs' /\ Seqs' = 1 .. n + k - 1
      /\ k \in {1, 2} /\ (k = 2 <=> IsMem(kind))
      /\ \A e \in Seqs' : e \in Seqs \/ e = n \/ (k = 2 /\ e = n + 1)
      /\ n \in Seqs'
  BY AppendedSeqs
<1>3. inst' \in Seq(InstType')
  BY <1>1, SameCore DEF Renamed, InstType
<1>4. \A e \in Seqs : inst'[e] = inst[e]
  BY <1>1 DEF Renamed
<1>5. ASSUME NEW e \in Seqs
      PROVE  WellFormed(e)'
  <2>1. WellFormed(e) /\ inst'[e] = inst[e] /\ (inst[e].in_LSQ => inst'[e - 1] = inst[e - 1] /\ e - 1 \in Seqs')
    BY <1>2, <1>4, InstFacts DEF ListsInv, WellFormed
  <2>2. \A q \in {0, 1} : inst[e].src_physreg[q] # NoReg =>
           inst'[inst[e].src_physreg[q]] = inst[inst[e].src_physreg[q]]
    BY <1>4, <2>1 DEF WellFormed
  <2> QED
    BY <1>2, <2>1, <2>2 DEF WellFormed
<1>6. ASSUME NEW e \in n .. n + k - 1
      PROVE  WellFormed(e)'
  <2>1. /\ inst'[e].context_id = c /\ inst'[e].kind = kind /\ inst'[e].src_physreg = src
        /\ inst'[e].physreg = (IF WritesReg(kind) THEN n ELSE NoReg)
        /\ inst'[e].in_LSQ = (IF e = n THEN FALSE ELSE TRUE)
        /\ inst'[e].recover_inst => kind = "branch"
    BY <1>1 DEF Renamed
  <2>2. \A q \in {0, 1} : src[q] # NoReg =>
          /\ src[q] \in Seqs' /\ src[q] < e /\ inst'[src[q]].context_id = c
          /\ inst'[src[q]].physreg = src[q] /\ ~inst'[src[q]].in_LSQ
    <3> SUFFICES ASSUME NEW q \in {0, 1}, src[q] # NoReg
                 PROVE  /\ src[q] \in Seqs' /\ src[q] < e /\ inst'[src[q]].context_id = c
                        /\ inst'[src[q]].physreg = src[q] /\ ~inst'[src[q]].in_LSQ
      OBVIOUS
    <3>1. src[q] \in Sources(c)
      BY <1>1
    <3>2. /\ src[q] \in Seqs /\ inst[src[q]].context_id = c /\ inst[src[q]].physreg = src[q]
          /\ ~inst[src[q]].in_LSQ
      BY <1>1, <3>1, SourceOf
    <3> QED
      BY <1>2, <1>4, <3>2
  <2>3. CASE e = n
    <3>1. inst'[e].in_LSQ = FALSE
      BY <2>1, <2>3
    <3> QED
      BY <1>2, <2>1, <2>2, <2>3, <3>1 DEF WellFormed
  <2>4. CASE e # n
    <3>1. k = 2 /\ e = n + 1 /\ IsMem(kind) /\ e - 1 = n
      BY <1>2, <2>4
    <3>2. inst'[e].in_LSQ = TRUE
      BY <2>1, <2>4
    <3>3. n \in n .. n + k - 1
      BY <1>2
    <3>4. /\ inst'[n].context_id = c /\ inst'[n].kind = kind /\ inst'[n].src_physreg = src
          /\ inst'[n].in_LSQ = FALSE
      BY <1>1, <3>3 DEF Renamed
    <3> QED
      BY <1>2, <2>1, <2>2, <3>1, <3>2, <3>4 DEF WellFormed
  <2> QED
    BY <2>3, <2>4
<1>7. \A e \in Seqs' : WellFormed(e)'
  <2>1. \A e \in Seqs' : e \in Seqs \/ e \in n .. n + k - 1
    BY <1>2
  <2> QED
    BY <1>5, <1>6, <2>1
<1> QED
  BY <1>1, <1>3, <1>7 DEF Records, ListsInv

LEMMA AppendedSame ==
    ASSUME ListsInv, NEW c, NEW kind, NEW src, NEW n, NEW k, NEW stale,
           Appended(c, kind, src, n, k, stale)
    PROVE  /\ \A e \in Seqs : /\ inst'[e] = inst[e] /\ Dest(e)' = Dest(e) /\ Reads(e)' = Reads(e)
                              /\ (IsLoad(e)' <=> IsLoad(e)) /\ (IsStore(e)' <=> IsStore(e))
                              /\ (ea_comp(e)' <=> ea_comp(e))
           /\ \A e \in {n, n + 1} : e = n \/ k = 2 =>
                 /\ inst'[e].context_id = c /\ inst'[e].kind = kind /\ inst'[e].src_physreg = src
                 /\ inst'[e].physreg = IF WritesReg(kind) THEN n ELSE NoReg
                 /\ inst'[e].in_LSQ <=> e # n
                 /\ ea_comp(e)' <=> e = n /\ k = 2
<1>1. Renamed(c, kind, src, n, k) /\ \A e \in Seqs : inst'[e] = inst[e]
  BY DEF Appended, Renamed
<1>2. n \in Nat /\ k \in {1, 2} /\ (k = 2 <=> IsMem(kind))
  BY AppendedSeqs
<1>3. ASSUME NEW e \in {n, n + 1}, e = n \/ k = 2
      PROVE  /\ inst'[e].context_id = c /\ inst'[e].kind = kind /\ inst'[e].src_physreg = src
             /\ inst'[e].physreg = IF WritesReg(kind) THEN n ELSE NoReg
             /\ inst'[e].in_LSQ <=> e # n
             /\ ea_comp(e)' <=> e = n /\ k = 2
  <2>1. e \in n .. n + k - 1
    BY <1>2, <1>3
  <2>2. /\ inst'[e].context_id = c /\ inst'[e].kind = kind /\ inst'[e].src_physreg = src
        /\ inst'[e].physreg = (IF WritesReg(kind) THEN n ELSE NoReg)
        /\ inst'[e].in_LSQ = (IF e = n THEN FALSE ELSE TRUE)
    BY <1>1, <2>1 DEF Renamed
  <2>3. inst'[e].in_LSQ <=> e # n
    BY <2>2
  <2> QED
    BY <1>2, <2>2, <2>3 DEF ea_comp, IsMem
<1>4. \A e \in Seqs : /\ Dest(e)' = Dest(e) /\ Reads(e)' = Reads(e)
                      /\ (IsLoad(e)' <=> IsLoad(e)) /\ (IsStore(e)' <=> IsStore(e))
                      /\ (ea_comp(e)' <=> ea_comp(e))
  BY <1>1 DEF Dest, Reads, IsLoad, IsStore, ea_comp
<1> QED
  BY <1>1, <1>3, <1>4

LEMMA AppendedPlacement ==
    ASSUME ListsInv, NEW c, NEW kind, NEW src, NEW n, NEW k, NEW stale,
           Appended(c, kind, src, n, k, stale)
    PROVE  /\ Placement'
           /\ \A d \in Contexts : ROB[d] \subseteq ROB'[d] /\ LSQ[d] \subseteq LSQ'[d]
           /\ AllROB' = AllROB \cup {n}
           /\ AllLSQ' = AllLSQ \cup IF k = 2 THEN {n + 1} ELSE {}
           /\ Live' = Live \cup IF k = 2 THEN {n, n + 1} ELSE {n}
<1>b. /\ n \in Nat /\ k \in {1, 2} /\ Seqs \subseteq Seqs' /\ n \in Seqs' /\ (k = 2 => n + 1 \in Seqs')
  BY AppendedSeqs
<1>a. (n + 1 .. n + k - 1) = IF k = 2 THEN {n + 1} ELSE {}
  <2>1. CASE k = 1
    BY <1>b, <2>1
  <2>2. CASE k = 2
    BY <1>b, <2>2
  <2> QED
    BY <1>b, <2>1, <2>2
<1>c. /\ Contexts' = Contexts
  BY AppendedSeqs
<1>d. n \notin Live /\ n + 1 \notin Live
  BY AppendedSeqs
<1> DEFINE A == IF k = 2 THEN {n + 1} ELSE {}
<1>1. /\ n \in Nat /\ k \in {1, 2} /\ Seqs \subseteq Seqs' /\ n \in Seqs' /\ (k = 2 => n + 1 \in Seqs')
      /\ (n + 1 .. n + k - 1) = A /\ Contexts' = Contexts
      /\ n \notin Live /\ n + 1 \notin Live
  BY <1>a, <1>b, <1>c, <1>d
<1>2. /\ c \in Contexts /\ UNCHANGED <<dispatched, completed>>
      /\ ROB' = [ROB EXCEPT ![c] = @ \cup {n}] /\ LSQ' = [LSQ EXCEPT ![c] = @ \cup A]
  BY <1>1 DEF Appended, flags
<1> HIDE DEF A
<1>3. A \subseteq Seqs' /\ \A e : e \in A <=> k = 2 /\ e = n + 1
  BY <1>1 DEF A
<1>4. ROB \in [Contexts -> SUBSET Seqs] /\ LSQ \in [Contexts -> SUBSET Seqs]
  BY DEF ListsInv, Placement
<1>5. \A d \in Contexts : /\ ROB'[d] = (IF d = c THEN ROB[d] \cup {n} ELSE ROB[d])
                          /\ LSQ'[d] = (IF d = c THEN LSQ[d] \cup A ELSE LSQ[d])
  BY <1>2, <1>4
<1>6. ROB' \in [Contexts -> SUBSET Seqs'] /\ LSQ' \in [Contexts -> SUBSET Seqs']
  <2>1. /\ \A d \in Contexts : ROB'[d] \in SUBSET Seqs' /\ LSQ'[d] \in SUBSET Seqs'
        /\ ROB' = [d \in Contexts |-> ROB'[d]] /\ LSQ' = [d \in Contexts |-> LSQ'[d]]
    BY <1>1, <1>2, <1>3, <1>4, <1>5
  <2> QED
    BY <2>1
<1>7. AllROB' = AllROB \cup {n} /\ AllLSQ' = AllLSQ \cup A
  <2>1. AllROB' = UNION {ROB'[d] : d \in Contexts} /\ AllLSQ' = UNION {LSQ'[d] : d \in Contexts}
    BY <1>1 DEF AllROB, AllLSQ
  <2>2. \A e : e \in AllROB' <=> e \in AllROB \cup {n}
    <3>1. \A e : e \in AllROB' => e \in AllROB \cup {n}
      BY <1>2, <1>5, <2>1 DEF AllROB
    <3>2. n \in AllROB'
      <4>1. n \in ROB'[c]
        BY <1>2, <1>5
      <4> QED
        BY <1>2, <2>1, <4>1
    <3>3. \A d \in Contexts : ROB[d] \subseteq ROB'[d]
      BY <1>5
    <3>4. \A e : e \in AllROB => e \in AllROB'
      BY <2>1, <3>3 DEF AllROB
    <3> QED
      BY <3>1, <3>2, <3>4
  <2>3. \A e : e \in AllLSQ' <=> e \in AllLSQ \cup A
    BY <1>2, <1>5, <2>1, SMTT(30) DEF AllLSQ
  <2> QED
    BY <2>2, <2>3
<1>8. Live' = Live \cup IF k = 2 THEN {n, n + 1} ELSE {n}
  BY <1>3, <1>7 DEF Live
<1>9. ASSUME NEW d \in Contexts, NEW e \in ROB'[d]
      PROVE  /\ inst'[e].context_id = d /\ ~inst'[e].in_LSQ
             /\ ea_comp(e)' => e + 1 \in LSQ'[d]
  <2>1. CASE e \in ROB[d]
    <3>1. e \in Seqs /\ inst[e].context_id = d /\ ~inst[e].in_LSQ /\ (ea_comp(e) => AccessOf(e) \in LSQ[d])
      BY <2>1 DEF ListsInv, Placement
    <3>2. inst'[e] = inst[e] /\ (ea_comp(e)' <=> ea_comp(e))
      BY <3>1, AppendedSame
    <3>3. e \in ROB'[d] /\ LSQ[d] \subseteq LSQ'[d]
      BY <1>5
    <3> QED
      BY <3>1, <3>2, <3>3 DEF AccessOf
  <2>2. CASE e \notin ROB[d]
    <3>1. e = n /\ d = c
      BY <1>5, <2>2
    <3>2. inst'[n].context_id = c /\ ~inst'[n].in_LSQ /\ (ea_comp(n)' => k = 2)
      BY AppendedSame
    <3>3. k = 2 => n + 1 \in LSQ'[c]
      BY <1>2, <1>3, <1>5
    <3> QED
      BY <3>1, <3>2, <3>3
  <2> QED
    BY <2>1, <2>2
<1>10. ASSUME NEW d \in Contexts, NEW f \in LSQ'[d]
       PROVE  /\ inst'[f].context_id = d /\ inst'[f].in_LSQ
              /\ f - 1 \in ROB'[d] /\ ea_comp(f - 1)'
              /\ f \in dispatched' <=> f - 1 \in dispatched'
  <2>1. CASE f \in LSQ[d]
    <3>1. /\ f \in Seqs /\ f - 1 \in Seqs /\ inst[f].context_id = d /\ inst[f].in_LSQ
          /\ f - 1 \in ROB[d] /\ ea_comp(f - 1) /\ (f \in dispatched <=> f - 1 \in dispatched)
      BY <2>1 DEF ListsInv, Placement
    <3>2. inst'[f] = inst[f] /\ (ea_comp(f - 1)' <=> ea_comp(f - 1))
      BY <3>1, AppendedSame
    <3>3. f - 1 \in ROB'[d] /\ dispatched' = dispatched
      BY <1>2, <1>5, <3>1
    <3> QED
      BY <3>1, <3>2, <3>3
  <2>2. CASE f \notin LSQ[d]
    <3>0. f \in A /\ d = c
      BY <1>5, <2>2
    <3>1. f = n + 1 /\ d = c /\ k = 2 /\ f - 1 = n
      BY <1>1, <1>3, <3>0
    <3>2. f \notin dispatched /\ f - 1 \notin dispatched
      BY <1>1, <3>1 DEF ListsInv, Placement
    <3>3. inst'[f].context_id = d /\ inst'[f].in_LSQ /\ ea_comp(n)'
      <4>1. n + 1 # n
        BY <1>1
      <4> QED
        BY <3>1, <4>1, AppendedSame
    <3>4. n \in ROB'[d] /\ dispatched' = dispatched
      BY <1>2, <1>5, <3>1
    <3> QED
      BY <3>1, <3>2, <3>3, <3>4
  <2> QED
    BY <2>1, <2>2
<1>11. dispatched' \subseteq Live' /\ completed' \subseteq dispatched'
  BY <1>2, <1>8 DEF ListsInv, Placement
<1>12. Placement'
  <2>1. \A d \in Contexts : \A e \in ROB'[d] : ea_comp(e)' => AccessOf(e)' \in LSQ'[d]
    BY <1>9 DEF AccessOf
  <2> QED
    BY <1>1, <1>6, <1>9, <1>10, <1>11, <2>1 DEF Placement
<1> QED
  BY <1>5, <1>7, <1>8, <1>12 DEF A

LEMMA RenameLists ==
    ASSUME ListsInv, Rename
    PROVE  ListsInv'
<1>1. PICK c, kind, src, n, k, stale : Appended(c, kind, src, n, k, stale)
  BY RenameAppends
<1>2. Records' /\ Placement' /\ AllROB' = AllROB \cup {n}
  BY <1>1, AppendedRecords, AppendedPlacement
<1>3. /\ n \in Nat /\ k \in {1, 2} /\ Seqs \subseteq Seqs' /\ n = Len(inst) + 1
      /\ Seqs = 1 .. n - 1 /\ Seqs' = 1 .. n + k - 1
      /\ Contexts' = Contexts /\ IQSize' = IQSize /\ n \notin Live
  BY <1>1, AppendedSeqs
<1>4. /\ UNCHANGED <<turn, stage, dispatched, queued, issued, completed, in_IQ, iq, waiting_queue,
                     ready_queue, issue_exec_queue, event_queue>>
      /\ exec_lat' = Fill(exec_lat, k, stale)
      /\ iq_entry_num' = Fill(iq_entry_num, k, -1)
      /\ stale \in {0} \cup MemLats
  BY <1>1 DEF Appended, loop, flags, lists
<1>5. Seqs = 1 .. Len(inst) /\ Seqs' = 1 .. Len(inst) + k /\ Len(inst) \in Nat
  BY <1>3, InstFacts DEF ListsInv
<1>6. /\ exec_lat' \in [Seqs' -> 0 .. LatMax]
      /\ \A i \in Seqs : exec_lat'[i] = exec_lat[i]
  <2>1. stale \in 0 .. LatMax /\ exec_lat \in [1 .. Len(inst) -> 0 .. LatMax]
    BY <1>4, <1>5, LatsAssumption, SizesAssumption DEF LatMax, INF, ListsInv, Clocked
  <2>2. k \in Nat
    BY <1>3
  <2>3. FilledOf(exec_lat, Len(inst), k, stale, 0 .. LatMax)
    BY <1>5, <2>1, <2>2, Filled
  <2> QED
    BY <1>4, <1>5, <2>3 DEF FilledOf
<1>7. /\ iq_entry_num' \in [Seqs' -> -1 .. IQSize - 1]
      /\ \A i \in Seqs : iq_entry_num'[i] = iq_entry_num[i]
  <2>1. -1 \in -1 .. IQSize - 1 /\ iq_entry_num \in [1 .. Len(inst) -> -1 .. IQSize - 1] /\ k \in Nat
    BY <1>3, <1>5, CoreFacts DEF ListsInv, IssueQueueOK
  <2>2. FilledOf(iq_entry_num, Len(inst), k, -1, -1 .. IQSize - 1)
    BY <1>5, <2>1, Filled
  <2> QED
    BY <1>4, <1>5, <2>2 DEF FilledOf
<1>8. Clocked'
  BY <1>3, <1>4, <1>6 DEF ListsInv, Clocked
<1>9. Issuing' = Issuing /\ Returning' = Returning
  BY <1>4 DEF Issuing, Returning
<1>10. /\ \A e \in dispatched : (IsLoad(e)' <=> IsLoad(e)) /\ (IsStore(e)' <=> IsStore(e))
       /\ dispatched \subseteq Live /\ Live \subseteq Seqs
  <2>1. dispatched \subseteq Live /\ Live \subseteq Seqs
    BY Home DEF ListsInv, Placement
  <2> QED
    BY <1>1, <2>1, AppendedSame
<1>11. Listed'
  <2>1. OneList'
    BY <1>4, <1>9 DEF ListsInv, Listed, OneList
  <2>2. \A e \in waiting_queue \cup Issuing \cup Returning : e \in dispatched
    BY ListFacts
  <2> QED
    BY <1>4, <1>9, <1>10, <2>1, <2>2 DEF ListsInv, Listed
<1>12. IssueQueueOK'
  <2>1. /\ in_IQ = {f \in AllROB : f \in dispatched /\ f \notin completed /\ f \notin Returning}
        /\ iq = {iq_entry_num[f] : f \in in_IQ} /\ iq \subseteq 0 .. IQSize - 1
        /\ \A f, g \in in_IQ : iq_entry_num[f] = iq_entry_num[g] => f = g
    BY DEF ListsInv, IssueQueueOK
  <2>2. in_IQ \subseteq Seqs /\ n \notin dispatched
    BY <1>3, <1>10, <2>1
  <2>3. in_IQ' = {f \in AllROB' : f \in dispatched' /\ f \notin completed' /\ f \notin Returning'}
    BY <1>2, <1>4, <1>9, <2>1, <2>2
  <2>4. iq' = {iq_entry_num'[f] : f \in in_IQ'}
    <3>1. \A f \in in_IQ : iq_entry_num'[f] = iq_entry_num[f]
      BY <1>7, <2>2
    <3>2. in_IQ' = in_IQ /\ iq' = iq
      BY <1>4
    <3> QED
      BY <2>1, <3>1, <3>2
  <2>5. \A f, g \in in_IQ' : iq_entry_num'[f] = iq_entry_num'[g] => f = g
    BY <1>4, <1>7, <2>1, <2>2
  <2> QED
    BY <1>3, <1>4, <1>7, <2>1, <2>3, <2>4, <2>5 DEF IssueQueueOK
<1> QED
  BY <1>2, <1>8, <1>11, <1>12 DEF ListsInv

-----------------------------------------------------------------------------
(* The whole *)

LEMMA InitLists == Init => ListsInv
<1> SUFFICES ASSUME Init
             PROVE  ListsInv
  OBVIOUS
<1>1. Seqs = {} /\ inst = <<>> /\ core \in Cores
  BY DEF Init, Seqs
<1>2. Records
  BY <1>1 DEF Records
<1>3. Contexts # {} /\ 0 \in Contexts
  BY <1>2, CoreFacts DEF Contexts
<1>4. /\ ROB = [c \in Contexts |-> {}] /\ LSQ = [c \in Contexts |-> {}]
      /\ dispatched = {} /\ completed = {} /\ issued = {} /\ queued = {}
      /\ waiting_queue = {} /\ ready_queue = {} /\ issue_exec_queue = {} /\ event_queue = {}
      /\ in_IQ = {} /\ iq = {} /\ iq_entry_num = <<>> /\ exec_lat = <<>>
      /\ stage = "commit" /\ turn = 0
  BY DEF Init
<1>5. Placement
  BY <1>4 DEF Placement
<1>6. Issuing = {} /\ Returning = {}
  BY <1>4 DEF Issuing, Returning, OnTheWay
<1>7. exec_lat \in [Seqs -> 0 .. LatMax] /\ iq_entry_num \in [Seqs -> -1 .. IQSize - 1]
  BY <1>1, <1>4
<1>8. Clocked
  BY <1>3, <1>4, <1>7 DEF Clocked
<1>9. Listed
  BY <1>4, <1>6 DEF Listed, OneList
<1>10. IssueQueueOK
  BY <1>4, <1>6, <1>7 DEF IssueQueueOK
<1> QED
  BY <1>2, <1>5, <1>8, <1>9, <1>10 DEF ListsInv

LEMMA NextLists == ListsInv /\ [Next]_vars => ListsInv'
BY commitLists, writebackLists, lsq_refreshLists, wakeupLists, select_storeLists, issueLists,
   executeLists, replayLists, dispatchLists, next_cycleLists, RenameLists, IdleLists
   DEF Next, Pipeline, Idle

LEMMA ListsInvariant == Spec => []ListsInv
<1>1. Init => ListsInv
  BY InitLists
<1>2. ListsInv /\ [Next]_vars => ListsInv'
  BY NextLists
<1> QED
  BY <1>1, <1>2, PTL DEF Spec

(* One entry in a set of events is counted once.                           *)
LEMMA CountEvents ==
    ASSUME NEW q, \A x, y \in q : x.rs = y.rs => x = y, NEW e
    PROVE  Cardinality({x \in q : x.rs = e}) = IF e \in OnTheWay(q) THEN 1 ELSE 0
<1>1. CASE e \in OnTheWay(q)
  <2>1. PICK x \in q : x.rs = e
    BY <1>1 DEF OnTheWay
  <2>2. {y \in q : y.rs = e} = {x}
    BY <2>1
  <2> QED
    BY <1>1, <2>2, FS_Singleton
<1>2. CASE e \notin OnTheWay(q)
  <2>1. {y \in q : y.rs = e} = {}
    BY <1>2 DEF OnTheWay
  <2> QED
    BY <1>2, <2>1, FS_EmptySet
<1> QED
  BY <1>1, <1>2

LEMMA PlacesOf ==
    ASSUME Listed, NEW e
    PROVE  /\ e \in waiting_queue \cup ready_queue \cup Issuing \cup Returning => Places(e) = 1
           /\ e \notin waiting_queue \cup ready_queue \cup Issuing \cup Returning => Places(e) = 0
<1> DEFINE Q == {q \in {"waiting", "ready"} :
                    e \in IF q = "waiting" THEN waiting_queue ELSE ready_queue}
<1>1. Cardinality(Q) = IF e \in waiting_queue \cup ready_queue THEN 1 ELSE 0
  <2>1. CASE e \in waiting_queue
    <3>1. Q = {"waiting"}
      BY <2>1 DEF Listed, OneList
    <3> QED
      BY <2>1, <3>1, FS_Singleton
  <2>2. CASE e \in ready_queue
    <3>1. Q = {"ready"}
      BY <2>2 DEF Listed, OneList
    <3> QED
      BY <2>2, <3>1, FS_Singleton
  <2>3. CASE e \notin waiting_queue \cup ready_queue
    <3>1. Q = {}
      BY <2>3
    <3> QED
      BY <2>3, <3>1, FS_EmptySet
  <2> QED
    BY <2>1, <2>2, <2>3
<1>2. /\ Cardinality({x \in issue_exec_queue : x.rs = e}) = IF e \in Issuing THEN 1 ELSE 0
      /\ Cardinality({x \in event_queue : x.rs = e}) = IF e \in Returning THEN 1 ELSE 0
  BY CountEvents DEF Listed, OneList, Issuing, Returning
<1>3. Places(e) = Cardinality(Q) + (IF e \in Issuing THEN 1 ELSE 0)
                                 + (IF e \in Returning THEN 1 ELSE 0)
  BY <1>2 DEF Places
<1>4. /\ (waiting_queue \cup ready_queue) \cap (Issuing \cup Returning) = {}
      /\ Issuing \cap Returning = {}
  BY DEF Listed, OneList
<1> HIDE DEF Q
<1> QED
  BY <1>1, <1>3, <1>4

LEMMA ListsInvOK == ListsInv => ListsOK
<1> SUFFICES ASSUME ListsInv
             PROVE  ListsOK
  OBVIOUS
<1> DEFINE A == waiting_queue \cup ready_queue \cup OnTheWay(issue_exec_queue \cup event_queue)
<1>1. OnTheWay(issue_exec_queue \cup event_queue) = Issuing \cup Returning
  BY DEF OnTheWay, Issuing, Returning
<1>2. A = waiting_queue \cup ready_queue \cup Issuing \cup Returning
  BY <1>1
<1>3. \A e \in A : e \in (Live \cap dispatched) \ completed
  BY <1>2, ListFacts
<1>4. \A e \in (Live \cap dispatched) \ completed : Places(e) = 1 \/ (Places(e) = 0 /\ IsLoad(e))
  BY PlacesOf DEF ListsInv, Listed
<1>5. issued = completed \cup OnTheWay(issue_exec_queue \cup event_queue)
  BY <1>1 DEF ListsInv, Listed
<1>6. in_IQ = {e \in AllROB \cap dispatched : e \notin completed \cup OnTheWay(event_queue)}
  BY DEF ListsInv, IssueQueueOK, Returning
<1> QED
  BY <1>3, <1>4, <1>5, <1>6 DEF ListsOK, ListsInv, Listed, IssueQueueOK

(* Theorem.  The four in-flight lists, the flags and the issue queue agree *)
(* (ListsOK) in every state, whatever the cores, the widths, the latencies *)
(* and the programs: dispatch, wakeup, lsq_refresh, selection, replay,     *)
(* execution, writeback with its squash and commit move each entry from    *)
(* one list to another and lose or double none.                            *)
THEOREM ListsCorrect == Spec => []ListsOK
BY ListsInvariant, ListsInvOK, PTL
=============================================================================
