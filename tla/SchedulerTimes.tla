---------------------------- MODULE SchedulerTimes ----------------------------
(***************************************************************************)
(* The times of the scheduler, for every value of the constants: when the  *)
(* registers are announced ready and when their values are there, and that *)
(* no entry executes, is written back or commits without its operands.     *)
(*                                                                         *)
(* A register has one writer.  As long as the writer has not issued both   *)
(* its times are INF; on the way to execution and back they follow from    *)
(* the event of the writer; afterwards the value is there and stays        *)
(* (Timed).  The lists respect them (Supplied), and without guesses an     *)
(* announcement is never early (Exact).                                    *)
(***************************************************************************)
EXTENDS SchedulerLists

-----------------------------------------------------------------------------
(* The inductive invariant *)

Timed ==
    /\ ready \in [Seqs -> TimesSet] /\ spec_ready \in [Seqs -> TimesSet]
    /\ \A e \in Live : Dest(e) # NoReg /\ e \notin issued =>
          ready[Dest(e)] = INF /\ spec_ready[Dest(e)] = INF
    /\ \A x \in issue_exec_queue : Dest(x.rs) # NoReg =>
          ready[Dest(x.rs)] = x.when + exec_lat[x.rs]
    /\ \A x \in event_queue : Dest(x.rs) # NoReg => ready[Dest(x.rs)] = x.when
    /\ \A e \in completed : ~IsStore(e) /\ Dest(e) # NoReg => ready[Dest(e)] <= 0

Supplied ==
    /\ \A x \in event_queue : all_operands_ready(x.rs)
    /\ \A e \in completed : ~IsStore(e) => all_operands_ready(e)
    /\ \A e \in ready_queue : all_operands_spec_ready(e)

(* With perfect knowledge a value is there when an entry that its          *)
(* announcement woke begins to execute.                                    *)
Exact ==
    recovery_model = "perfect" =>
        /\ \A r \in Seqs : spec_ready[r] # INF =>
              /\ ready[r] # INF
              /\ ready[r] <= ISSUE_EXEC_DELAY + IF spec_ready[r] >= 0 THEN spec_ready[r] ELSE 0
        /\ \A x \in issue_exec_queue : \A k \in Reads(x.rs) :
              inst[x.rs].src_physreg[k] # NoReg => ready[inst[x.rs].src_physreg[k]] <= x.when

Bounds ==
    /\ count \in Nat /\ it \in {0} \cup Seqs
    /\ busy \in [FUClasses -> 0 .. issuelat] /\ write_buf \subseteq 0 .. INF

TimesInv == ListsInv /\ Timed /\ Supplied /\ Exact /\ Bounds

-----------------------------------------------------------------------------
(* Reading the tables *)

LEMMA TimesAreInts == TimesSet = {t \in Int : -1 <= t /\ t <= 1000}
BY DEF TimesSet, INF, Past

LEMMA SameTimes ==
    ASSUME core' = core, inst' = inst, ready' = ready, spec_ready' = spec_ready
    PROVE  \A e : /\ all_operands_ready(e)' <=> all_operands_ready(e)
                  /\ all_operands_spec_ready(e)' <=> all_operands_spec_ready(e)
BY SameInst DEF all_operands_ready, all_operands_spec_ready, operand_ready, operand_spec_ready

LEMMA SourceFacts ==
    ASSUME Records, NEW e \in Seqs, NEW k \in {0, 1}, inst[e].src_physreg[k] # NoReg
    PROVE  LET r == inst[e].src_physreg[k]
           IN  /\ r \in Seqs /\ r < e /\ inst[r].context_id = inst[e].context_id
               /\ inst[r].physreg = r /\ ~inst[r].in_LSQ
BY InstFacts DEF WellFormed

LEMMA ReadsOperands == \A e : Reads(e) \subseteq {0, 1}
BY DEF Reads

(* A register belongs to the context of its writer.                        *)
LEMMA DestContext ==
    ASSUME Records, NEW e \in Seqs, Dest(e) # NoReg
    PROVE  inst[Dest(e)].context_id = inst[e].context_id
BY DestOf, InstFacts DEF WellFormed

-----------------------------------------------------------------------------
(* Steps that announce and withdraw nothing *)

(* The registers stay as they are; events, completions and what is ready   *)
(* are new only with their operands there.                                 *)
Quiet ==
    /\ core' = core /\ inst' = inst /\ ready' = ready /\ spec_ready' = spec_ready
    /\ exec_lat' = exec_lat
    /\ Live' \subseteq Live
    /\ \A e \in Live' : e \notin issued' => e \notin issued
    /\ issue_exec_queue' \subseteq issue_exec_queue
    /\ \A x \in event_queue' :
          \/ x \in event_queue
          \/ all_operands_ready(x.rs) /\ (Dest(x.rs) # NoReg => ready[Dest(x.rs)] = x.when)
    /\ \A e \in completed' :
          \/ e \in completed \/ IsStore(e)
          \/ all_operands_ready(e) /\ (Dest(e) # NoReg => ready[Dest(e)] <= 0)
    /\ \A e \in ready_queue' : e \in ready_queue \/ all_operands_spec_ready(e)

LEMMA QuietTimes ==
    ASSUME TimesInv, Quiet
    PROVE  Timed' /\ Supplied' /\ Exact'
<1>1. /\ core' = core /\ inst' = inst /\ ready' = ready /\ spec_ready' = spec_ready
      /\ exec_lat' = exec_lat
  BY DEF Quiet
<1>2. /\ Seqs' = Seqs /\ recovery_model' = recovery_model
      /\ \A e : /\ (IsStore(e)' <=> IsStore(e)) /\ Dest(e)' = Dest(e) /\ Reads(e)' = Reads(e)
                /\ all_operands_ready(e)' <=> all_operands_ready(e)
                /\ all_operands_spec_ready(e)' <=> all_operands_spec_ready(e)
  BY <1>1, SameInst, SameCore, SameTimes
<1>3. Timed'
  <2>1. TimesSet' = TimesSet
    BY DEF TimesSet
  <2>2. \A e \in Live' : Dest(e) # NoReg /\ e \notin issued' =>
          ready[Dest(e)] = INF /\ spec_ready[Dest(e)] = INF
    BY DEF Quiet, TimesInv, Timed
  <2>3. \A x \in issue_exec_queue' : Dest(x.rs) # NoReg =>
          ready[Dest(x.rs)] = x.when + exec_lat[x.rs]
    BY DEF Quiet, TimesInv, Timed
  <2>4. \A x \in event_queue' : Dest(x.rs) # NoReg => ready[Dest(x.rs)] = x.when
    BY DEF Quiet, TimesInv, Timed
  <2>5. \A e \in completed' : ~IsStore(e) /\ Dest(e) # NoReg => ready[Dest(e)] <= 0
    BY DEF Quiet, TimesInv, Timed
  <2>6. \A x : Dest(x.rs)' = Dest(x.rs)
    BY <1>2
  <2> QED
    BY <1>1, <1>2, <2>1, <2>2, <2>3, <2>4, <2>5, <2>6 DEF TimesInv, Timed
<1>4. Supplied'
  <2>1. \A x \in event_queue' : all_operands_ready(x.rs)
    BY DEF Quiet, TimesInv, Supplied
  <2>2. \A e \in completed' : ~IsStore(e) => all_operands_ready(e)
    BY DEF Quiet, TimesInv, Supplied
  <2>3. \A e \in ready_queue' : all_operands_spec_ready(e)
    BY DEF Quiet, TimesInv, Supplied
  <2>4. \A x : all_operands_ready(x.rs)' <=> all_operands_ready(x.rs)
    BY <1>2
  <2> QED
    BY <1>2, <2>1, <2>2, <2>3, <2>4 DEF Supplied
<1>5. Exact'
  <2>1. \A x : Reads(x.rs)' = Reads(x.rs)
    BY <1>2
  <2>2. issue_exec_queue' \subseteq issue_exec_queue
    BY DEF Quiet
  <2> QED
    BY <1>1, <1>2, <2>1, <2>2 DEF Exact, TimesInv
<1> QED
  BY <1>3, <1>4, <1>5

LEMMA LeaveQuiet ==
    ASSUME TimesInv, NEW c \in Contexts, NEW E, Closed(c, E), Leave(c, E),
           NEW served \in SUBSET event_queue, Cleared(E, served), UNCHANGED times,
           \A x \in served : x.when <= 0
    PROVE  Quiet
<1>1. Live' = Live \ E
  BY LeaveLive DEF TimesInv, ListsInv
<1>2. /\ issued' = issued \ E /\ completed' = (completed \cup OnTheWay(served)) \ E
      /\ issue_exec_queue' \subseteq issue_exec_queue /\ event_queue' \subseteq event_queue
      /\ ready_queue' \subseteq ready_queue
      /\ core' = core /\ inst' = inst /\ ready' = ready /\ spec_ready' = spec_ready
      /\ exec_lat' = exec_lat
  BY DEF Cleared, Clear_Entry_From_Queues, Without, Leave, times
<1>3. \A e \in OnTheWay(served) :
         all_operands_ready(e) /\ (Dest(e) # NoReg => ready[Dest(e)] <= 0)
  <2> SUFFICES ASSUME NEW x \in served
               PROVE  all_operands_ready(x.rs) /\ (Dest(x.rs) # NoReg => ready[Dest(x.rs)] <= 0)
    BY DEF OnTheWay
  <2> QED
    BY DEF TimesInv, Supplied, Timed
<1> QED
  BY <1>1, <1>2, <1>3 DEF Quiet

LEMMA commitQuiet ==
    ASSUME TimesInv, commit
    PROVE  Quiet
<1>1. PICK c \in Contexts : \E E : Closed(c, E) /\ Leave(c, E) /\ Cleared(E, {}) /\ UNCHANGED times
  BY commitFacts DEF TimesInv
<1>2. PICK E : Closed(c, E) /\ Leave(c, E) /\ Cleared(E, {}) /\ UNCHANGED times
  BY <1>1
<1> QED
  BY <1>2, LeaveQuiet

LEMMA writebackQuiet ==
    ASSUME TimesInv, writeback
    PROVE  Quiet
<1>1. PICK ev \in event_queue : \E c \in Contexts : \E E :
        /\ Closed(c, E) /\ Leave(c, E) /\ Cleared(E, {ev}) /\ UNCHANGED times /\ ev.when <= 0
  BY writebackFacts DEF TimesInv
<1>2. PICK c \in Contexts : \E E :
        /\ Closed(c, E) /\ Leave(c, E) /\ Cleared(E, {ev}) /\ UNCHANGED times /\ ev.when <= 0
  BY <1>1
<1>3. PICK E :
        /\ Closed(c, E) /\ Leave(c, E) /\ Cleared(E, {ev}) /\ UNCHANGED times /\ ev.when <= 0
  BY <1>2
<1> QED
  BY <1>3, LeaveQuiet

LEMMA ListsQuiet ==
    ASSUME TimesInv, lsq_refresh \/ wakeup \/ Idle \/ UNCHANGED vars
    PROVE  Quiet
<1>1. /\ core' = core /\ inst' = inst /\ ready' = ready /\ spec_ready' = spec_ready
      /\ exec_lat' = exec_lat /\ ROB' = ROB /\ LSQ' = LSQ /\ issued' = issued
      /\ completed' = completed /\ issue_exec_queue' = issue_exec_queue
      /\ event_queue' = event_queue
  BY DEF lsq_refresh, wakeup, Idle, commit_done, no_unit, selection_done, dispatch_none, vars,
         times, flags, lists
<1>2. Live' = Live
  BY <1>1, SameCore DEF Live, AllROB, AllLSQ
<1>3. \A e \in ready_queue' : e \in ready_queue \/ all_operands_spec_ready(e)
  BY DEF lsq_refresh, Refreshed, wakeup, Idle, commit_done, no_unit, selection_done,
         dispatch_none, vars, lists
<1> QED
  BY <1>1, <1>2, <1>3 DEF Quiet

LEMMA executeQuiet ==
    ASSUME TimesInv, execute
    PROVE  Quiet
<1> DEFINE x == NextToExecute
           y == [rs |-> x.rs, when |-> exec_lat[x.rs]]
<1>1. /\ core' = core /\ inst' = inst /\ ready' = ready /\ spec_ready' = spec_ready
      /\ exec_lat' = exec_lat /\ ROB' = ROB /\ LSQ' = LSQ /\ issued' = issued
      /\ completed' = completed /\ ready_queue' = ready_queue
      /\ issue_exec_queue' \subseteq issue_exec_queue /\ event_queue' = event_queue \cup {y}
      /\ all_operands_ready(x.rs)
  BY DEF execute, times, flags
<1>2. Live' = Live
  BY <1>1, SameCore DEF Live, AllROB, AllLSQ
<1>3. x \in issue_exec_queue /\ x.when = 0
  BY executeFacts DEF TimesInv
<1>4. exec_lat[x.rs] \in Nat
  BY <1>3, LatsAssumption, SizesAssumption DEF TimesInv, ListsInv, Clocked, LatMax, INF
<1>5. Dest(x.rs) # NoReg => ready[Dest(x.rs)] = exec_lat[x.rs]
  BY <1>3, <1>4 DEF TimesInv, Timed
<1>6. y.rs = x.rs /\ y.when = exec_lat[x.rs]
  OBVIOUS
<1> HIDE DEF x, y
<1> QED
  BY <1>1, <1>2, <1>5, <1>6 DEF Quiet

LEMMA dispatchQuiet ==
    ASSUME TimesInv, dispatch
    PROVE  Quiet
<1>1. /\ core' = core /\ inst' = inst /\ ready' = ready /\ spec_ready' = spec_ready
      /\ exec_lat' = exec_lat /\ ROB' = ROB /\ LSQ' = LSQ /\ issued' = issued
      /\ completed' = completed /\ issue_exec_queue' = issue_exec_queue
      /\ event_queue' = event_queue
  BY DEF dispatch, times
<1>2. Live' = Live
  BY <1>1, SameCore DEF Live, AllROB, AllLSQ
<1>3. \A e \in ready_queue' : e \in ready_queue \/ all_operands_spec_ready(e)
  BY DEF dispatch
<1> QED
  BY <1>1, <1>2, <1>3 DEF Quiet

-----------------------------------------------------------------------------
(* Announcements: a store that is done, an entry that issues *)

(* e, not issued so far, is given its times; its register had none.        *)
Announces(e, w, t) ==
    /\ core' = core /\ inst' = inst /\ Live' = Live /\ event_queue' = event_queue
    /\ e \in Live /\ e \in ready_queue /\ e \in Seqs
    /\ ready_queue' = ready_queue \ {e} /\ issued' = issued \cup {e}
    /\ w \in 0 .. INF - 1 /\ t \in 0 .. INF - 1
    /\ spec_ready' = SetReg(spec_ready, Dest(e), w) /\ ready' = SetReg(ready, Dest(e), t)

LEMMA AnnounceFacts ==
    ASSUME TimesInv, NEW e, NEW w, NEW t, Announces(e, w, t)
    PROVE  /\ e \notin issued /\ e \notin completed /\ e \notin Issuing /\ e \notin Returning
           /\ Dest(e) # NoReg => /\ ready[Dest(e)] = INF /\ spec_ready[Dest(e)] = INF
                                 /\ ready'[Dest(e)] = t /\ spec_ready'[Dest(e)] = w
           /\ ready' \in [Seqs -> TimesSet] /\ spec_ready' \in [Seqs -> TimesSet]
           /\ \A r \in Seqs : r # Dest(e) => ready'[r] = ready[r] /\ spec_ready'[r] = spec_ready[r]
           /\ \A f \in Seqs : f # e /\ Dest(f) # NoReg =>
                 /\ Dest(f) \in Seqs /\ Dest(f) # Dest(e)
                 /\ ready'[Dest(f)] = ready[Dest(f)] /\ spec_ready'[Dest(f)] = spec_ready[Dest(f)]
           /\ \A f \in Seqs : (all_operands_ready(f) => all_operands_ready(f)')
                              /\ (all_operands_spec_ready(f) => all_operands_spec_ready(f)')
<1>1. /\ e \in Live /\ e \in ready_queue /\ e \in Seqs /\ core' = core /\ inst' = inst
      /\ w \in TimesSet /\ t \in TimesSet
      /\ spec_ready' = SetReg(spec_ready, Dest(e), w) /\ ready' = SetReg(ready, Dest(e), t)
  BY DEF Announces, TimesSet, INF, Past
<1>2. e \notin issued /\ e \notin completed /\ e \notin Issuing /\ e \notin Returning
  BY <1>1, ListFacts DEF TimesInv, ListsInv, Listed, OneList
<1>3. ready \in [Seqs -> TimesSet] /\ spec_ready \in [Seqs -> TimesSet] /\ Records
  BY DEF TimesInv, Timed, ListsInv
<1>4. \A f \in Seqs : Dest(f) # NoReg => Dest(f) \in Seqs
  BY <1>3, DestOf
<1>5. \A f \in Seqs : f # e /\ Dest(f) # NoReg => Dest(f) # Dest(e)
  BY <1>1, <1>3, DestUnique
<1>6. Dest(e) # NoReg => /\ ready[Dest(e)] = INF /\ spec_ready[Dest(e)] = INF
                        /\ ready'[Dest(e)] = t /\ spec_ready'[Dest(e)] = w
  BY <1>1, <1>2, <1>3, <1>4 DEF TimesInv, Timed, SetReg
<1>7. /\ ready' \in [Seqs -> TimesSet] /\ spec_ready' \in [Seqs -> TimesSet]
      /\ \A r \in Seqs : r # Dest(e) => ready'[r] = ready[r] /\ spec_ready'[r] = spec_ready[r]
  BY <1>1, <1>3, <1>4 DEF SetReg
<1>8. /\ \A r \in Seqs : ready[r] <= 0 => ready'[r] <= 0
      /\ \A r \in Seqs : spec_ready[r] <= 0 => spec_ready'[r] <= 0
  <2> SUFFICES ASSUME NEW r \in Seqs
               PROVE  /\ ready[r] <= 0 => ready'[r] <= 0
                      /\ spec_ready[r] <= 0 => spec_ready'[r] <= 0
    OBVIOUS
  <2>1. CASE r = Dest(e)
    <3>1. r # NoReg
      BY <1>3, InstFacts DEF Seqs, NoReg
    <3>2. ready[r] = INF /\ spec_ready[r] = INF
      BY <1>6, <2>1, <3>1
    <3> QED
      BY <3>2 DEF INF
  <2>2. CASE r # Dest(e)
    BY <1>7, <2>2
  <2> QED
    BY <2>1, <2>2
<1>9. ASSUME NEW f \in Seqs
      PROVE  /\ all_operands_ready(f) => all_operands_ready(f)'
             /\ all_operands_spec_ready(f) => all_operands_spec_ready(f)'
  <2>1. Reads(f)' = Reads(f) /\ Reads(f) \subseteq {0, 1}
    BY <1>1, SameInst, ReadsOperands
  <2>2. \A k \in {0, 1} : inst[f].src_physreg[k] # NoReg => inst[f].src_physreg[k] \in Seqs
    BY <1>3, SourceFacts
  <2> QED
    BY <1>1, <1>8, <2>1, <2>2
       DEF all_operands_ready, all_operands_spec_ready, operand_ready, operand_spec_ready
<1> QED
  BY <1>2, <1>4, <1>5, <1>6, <1>7, <1>9

(* The announcement is made, and an entry that is not a store set off.     *)
SetsOff(e, w, t) ==
    LET y == [rs |-> e, when |-> ISSUE_EXEC_DELAY] IN
    /\ Announces(e, w, t)
    /\ exec_lat' \in [Seqs -> 0 .. LatMax]
    /\ \A f \in Seqs : f # e => exec_lat'[f] = exec_lat[f]
    /\ \/ /\ issue_exec_queue' = issue_exec_queue \cup {y} /\ completed' = completed
          /\ t = exec_lat'[e] + ISSUE_EXEC_DELAY
       \/ issue_exec_queue' = issue_exec_queue /\ completed' = completed \cup {e} /\ IsStore(e)
    /\ recovery_model = "perfect" => t = w + ISSUE_EXEC_DELAY

LEMMA SetsOffTimed ==
    ASSUME TimesInv, NEW e, NEW w, NEW t, SetsOff(e, w, t)
    PROVE  Timed' /\ Supplied'
<1> DEFINE y == [rs |-> e, when |-> ISSUE_EXEC_DELAY]
<1>1. /\ Announces(e, w, t)
      /\ \A f \in Seqs : f # e => exec_lat'[f] = exec_lat[f]
      /\ \A x \in issue_exec_queue' : x \in issue_exec_queue
            \/ (x = y /\ t = exec_lat'[e] + ISSUE_EXEC_DELAY)
      /\ \A f \in completed' : f \in completed \/ (f = e /\ IsStore(e))
  BY DEF SetsOff
<1>2. y.rs = e /\ y.when = ISSUE_EXEC_DELAY
  OBVIOUS
<1> HIDE DEF y
<1>3. /\ core' = core /\ inst' = inst /\ Live' = Live /\ event_queue' = event_queue /\ e \in Seqs
      /\ ready_queue' = ready_queue \ {e} /\ issued' = issued \cup {e}
  BY <1>1 DEF Announces
<1>4. /\ e \notin issued /\ e \notin completed /\ e \notin Issuing /\ e \notin Returning
      /\ (Dest(e) # NoReg => ready'[Dest(e)] = t)
      /\ ready' \in [Seqs -> TimesSet] /\ spec_ready' \in [Seqs -> TimesSet]
  BY <1>1, AnnounceFacts
<1>5. \A f \in Seqs : f # e /\ Dest(f) # NoReg =>
         ready'[Dest(f)] = ready[Dest(f)] /\ spec_ready'[Dest(f)] = spec_ready[Dest(f)]
  BY <1>1, AnnounceFacts
<1>6. \A f \in Seqs : /\ (all_operands_ready(f) => all_operands_ready(f)')
                      /\ (all_operands_spec_ready(f) => all_operands_spec_ready(f)')
  BY <1>1, AnnounceFacts
<1>7. /\ Seqs' = Seqs /\ TimesSet' = TimesSet
      /\ \A f : Dest(f)' = Dest(f) /\ (IsStore(f)' <=> IsStore(f))
  BY <1>3, SameInst DEF TimesSet
<1>8. Live \subseteq Seqs /\ completed \subseteq Seqs /\ ready_queue \subseteq Seqs
      /\ (\A x \in issue_exec_queue : x.rs \in Seqs /\ x.rs # e)
      /\ (\A x \in event_queue : x.rs \in Seqs /\ x.rs # e)
  BY <1>4, ListFacts, Home DEF TimesInv, ListsInv, Placement
<1>9. Timed'
  <2>1. ASSUME NEW f \in Live', Dest(f) # NoReg, f \notin issued'
        PROVE  ready'[Dest(f)] = INF /\ spec_ready'[Dest(f)] = INF
    BY <1>3, <1>5, <1>8, <2>1 DEF TimesInv, Timed
  <2>2. ASSUME NEW x \in issue_exec_queue', Dest(x.rs) # NoReg
        PROVE  ready'[Dest(x.rs)] = x.when + exec_lat'[x.rs]
    <3>1. CASE x \in issue_exec_queue
      BY <1>1, <1>5, <1>8, <2>2, <3>1 DEF TimesInv, Timed
    <3>2. CASE x = y /\ t = exec_lat'[e] + ISSUE_EXEC_DELAY
      <4>1. exec_lat'[e] \in Nat
        BY <1>3, LatsAssumption, SizesAssumption DEF SetsOff, LatMax, INF
      <4>2. ready'[Dest(e)] = exec_lat'[e] + ISSUE_EXEC_DELAY
        BY <1>2, <1>4, <2>2, <3>2
      <4> QED
        BY <1>2, <3>2, <4>1, <4>2, SizesAssumption
    <3> QED
      BY <1>1, <3>1, <3>2
  <2>3. ASSUME NEW x \in event_queue', Dest(x.rs) # NoReg
        PROVE  ready'[Dest(x.rs)] = x.when
    BY <1>3, <1>5, <1>8, <2>3 DEF TimesInv, Timed
  <2>4. ASSUME NEW f \in completed', ~IsStore(f), Dest(f) # NoReg
        PROVE  ready'[Dest(f)] <= 0
    BY <1>1, <1>4, <1>5, <1>8, <2>4 DEF TimesInv, Timed
  <2>5. \A x : Dest(x.rs)' = Dest(x.rs)
    BY <1>7
  <2> QED
    BY <1>4, <1>7, <2>1, <2>2, <2>3, <2>4, <2>5 DEF Timed
<1>10. Supplied'
  <2>1. \A x \in event_queue' : all_operands_ready(x.rs)'
    BY <1>3, <1>6, <1>8 DEF TimesInv, Supplied
  <2>2. \A f \in completed' : ~IsStore(f) => all_operands_ready(f)'
    BY <1>1, <1>6, <1>8 DEF TimesInv, Supplied
  <2>3. \A f \in ready_queue' : all_operands_spec_ready(f)'
    BY <1>3, <1>6, <1>8 DEF TimesInv, Supplied
  <2> QED
    BY <1>7, <2>1, <2>2, <2>3 DEF Supplied
<1> QED
  BY <1>9, <1>10

LEMMA SetsOffExact ==
    ASSUME TimesInv, NEW e, NEW w, NEW t, SetsOff(e, w, t)
    PROVE  Exact'
<1> DEFINE y == [rs |-> e, when |-> ISSUE_EXEC_DELAY]
<1>1. /\ Announces(e, w, t)
      /\ \A x \in issue_exec_queue' : x \in issue_exec_queue \/ x = y
      /\ recovery_model = "perfect" => t = w + ISSUE_EXEC_DELAY
  BY DEF SetsOff
<1>2. y.rs = e /\ y.when = ISSUE_EXEC_DELAY
  OBVIOUS
<1> HIDE DEF y
<1>3. core' = core /\ inst' = inst /\ e \in Seqs /\ e \in ready_queue /\ w \in 0 .. INF - 1
      /\ t \in 0 .. INF - 1
  BY <1>1 DEF Announces
<1>4. /\ Dest(e) # NoReg => /\ ready[Dest(e)] = INF /\ spec_ready[Dest(e)] = INF
                            /\ ready'[Dest(e)] = t /\ spec_ready'[Dest(e)] = w
      /\ \A r \in Seqs : r # Dest(e) => ready'[r] = ready[r] /\ spec_ready'[r] = spec_ready[r]
      /\ ready' \in [Seqs -> TimesSet] /\ spec_ready' \in [Seqs -> TimesSet]
  BY <1>1, AnnounceFacts
<1>5. Seqs' = Seqs /\ recovery_model' = recovery_model /\ \A x : Reads(x.rs)' = Reads(x.rs)
  BY <1>3, SameInst, SameCore
<1>6. \A r \in Seqs : r # NoReg
  BY InstFacts DEF Seqs, NoReg, TimesInv, ListsInv
<1> SUFFICES ASSUME recovery_model = "perfect"
             PROVE  Exact'
  BY <1>5 DEF Exact
<1>7. /\ \A r \in Seqs : spec_ready[r] # INF =>
              /\ ready[r] # INF
              /\ ready[r] <= ISSUE_EXEC_DELAY + IF spec_ready[r] >= 0 THEN spec_ready[r] ELSE 0
      /\ \A x \in issue_exec_queue : \A k \in Reads(x.rs) :
              inst[x.rs].src_physreg[k] # NoReg => ready[inst[x.rs].src_physreg[k]] <= x.when
  BY DEF TimesInv, Exact
<1>8. ASSUME NEW r \in Seqs, spec_ready'[r] # INF
      PROVE  /\ ready'[r] # INF
             /\ ready'[r] <= ISSUE_EXEC_DELAY + IF spec_ready'[r] >= 0 THEN spec_ready'[r] ELSE 0
  <2>1. CASE r = Dest(e)
    BY <1>1, <1>3, <1>4, <1>6, <2>1, SizesAssumption DEF INF
  <2>2. CASE r # Dest(e)
    BY <1>4, <1>7, <1>8, <2>2
  <2> QED
    BY <2>1, <2>2
<1>9. ASSUME NEW x \in issue_exec_queue', NEW k \in Reads(x.rs), inst[x.rs].src_physreg[k] # NoReg
      PROVE  ready'[inst[x.rs].src_physreg[k]] <= x.when
  <2> DEFINE r == inst[x.rs].src_physreg[k]
  <2>1. CASE x \in issue_exec_queue
    <3>1. ready[r] <= x.when
      BY <1>7, <1>9, <2>1
    <3>2. x.rs \in Seqs /\ x.when < INF /\ k \in {0, 1}
      <4>1. x.rs \in Seqs /\ x.when \in 0 .. ISSUE_EXEC_DELAY
        BY <2>1 DEF TimesInv, ListsInv, Clocked
      <4> QED
        BY <4>1, ReadsOperands, LatsAssumption, SizesAssumption DEF INF
    <3>3. r \in Seqs
      BY <1>9, <3>2, SourceFacts DEF TimesInv, ListsInv
    <3> HIDE DEF r
    <3>4. r # Dest(e)
      <4>1. x.when \in Nat
        BY <2>1, SizesAssumption DEF TimesInv, ListsInv, Clocked
      <4> QED
        BY <1>4, <1>6, <3>1, <3>2, <3>3, <4>1 DEF INF
    <3>5. ready'[r] <= x.when
      BY <1>4, <3>1, <3>3, <3>4
    <3> QED
      BY <3>5 DEF r
  <2>2. CASE x = y
    <3>1. x.rs = e /\ k \in Reads(e) /\ k \in {0, 1}
      BY <1>2, <2>2, ReadsOperands
    <3>2. r \in Seqs
      BY <1>3, <1>9, <3>1, SourceFacts DEF TimesInv, ListsInv
    <3>3. spec_ready[r] <= 0
      BY <1>3, <1>9, <3>1
         DEF TimesInv, Supplied, all_operands_spec_ready, operand_spec_ready
    <3> HIDE DEF r
    <3>4. r # Dest(e) /\ spec_ready[r] # INF
      BY <1>4, <1>6, <3>2, <3>3 DEF INF
    <3>5. ready[r] <= ISSUE_EXEC_DELAY
      <4>0. spec_ready[r] \in TimesSet /\ ready[r] \in TimesSet
        BY <3>2 DEF TimesInv, Timed
      <4>1. spec_ready[r] \in Int /\ ready[r] \in Int
        BY <4>0, TimesAreInts
      <4> QED
        BY <1>7, <3>2, <3>3, <3>4, <4>1, SizesAssumption
    <3>6. ready'[r] <= x.when
      BY <1>2, <1>4, <2>2, <3>2, <3>4, <3>5
    <3> QED
      BY <3>6 DEF r
  <2> QED
    BY <1>1, <2>1, <2>2
<1> QED
  BY <1>3, <1>5, <1>8, <1>9 DEF Exact

LEMMA select_storeSetsOff ==
    ASSUME TimesInv, select_store
    PROVE  \E e, w, t : SetsOff(e, w, t)
<1> DEFINE e == Next_it
           w == exec_lat[e]
           t == exec_lat[e] + ISSUE_EXEC_DELAY
<1>1. /\ core' = core /\ inst' = inst /\ ROB' = ROB /\ LSQ' = LSQ /\ event_queue' = event_queue
      /\ ready_queue' = ready_queue \ {e} /\ issued' = issued \cup {e} /\ exec_lat' = exec_lat
      /\ issue_exec_queue' = issue_exec_queue /\ completed' = completed \cup {e} /\ IsStore(e)
      /\ spec_ready' = SetReg(spec_ready, Dest(e), w) /\ ready' = SetReg(ready, Dest(e), t)
  BY DEF select_store, BypassReady
<1>2. e \in ready_queue /\ e \in Seqs /\ e \in Live
  BY NextItIn, ListFacts DEF select_store, TimesInv
<1>3. Live' = Live
  BY <1>1, SameCore DEF Live, AllROB, AllLSQ
<1>4. exec_lat \in [Seqs -> 0 .. LatMax]
  BY DEF TimesInv, ListsInv, Clocked
<1> HIDE DEF e
<1>5. w \in 0 .. INF - 1 /\ t \in 0 .. INF - 1 /\ t = w + ISSUE_EXEC_DELAY
  <2>1. w \in 0 .. LatMax
    BY <1>2, <1>4
  <2>2. t = w + ISSUE_EXEC_DELAY
    OBVIOUS
  <2> HIDE DEF w, t
  <2>3. w \in 0 .. INF - 1
    BY <2>1, LatsAssumption, SizesAssumption DEF INF, LatMax
  <2>4. t \in 0 .. INF - 1
    BY <2>1, <2>2, LatsAssumption, SizesAssumption DEF INF, LatMax
  <2> QED
    BY <2>2, <2>3, <2>4
<1> HIDE DEF w, t
<1>6. Announces(e, w, t)
  BY <1>1, <1>2, <1>3, <1>5 DEF Announces
<1>7. SetsOff(e, w, t)
  BY <1>1, <1>4, <1>5, <1>6 DEF SetsOff
<1> QED
  BY <1>7

LEMMA issueSetsOff ==
    ASSUME TimesInv, issue
    PROVE  \E e, w, t : SetsOff(e, w, t)
<1> DEFINE e == Next_it
           y == [rs |-> e, when |-> ISSUE_EXEC_DELAY]
<1>1. PICK lat \in Latencies(e) : \E w \in Wakeups(e, lat) :
              /\ exec_lat' = [exec_lat EXCEPT ![e] = lat]
              /\ spec_ready' = SetReg(spec_ready, Dest(e), w)
              /\ ready' = SetReg(ready, Dest(e), BypassReady(lat))
  BY DEF issue
<1>2. PICK w \in Wakeups(e, lat) :
              /\ exec_lat' = [exec_lat EXCEPT ![e] = lat]
              /\ spec_ready' = SetReg(spec_ready, Dest(e), w)
              /\ ready' = SetReg(ready, Dest(e), BypassReady(lat))
  BY <1>1
<1>3. /\ core' = core /\ inst' = inst /\ ROB' = ROB /\ LSQ' = LSQ /\ event_queue' = event_queue
      /\ ready_queue' = ready_queue \ {e} /\ issued' = issued \cup {e} /\ completed' = completed
      /\ issue_exec_queue' = issue_exec_queue \cup {y}
  BY DEF issue
<1>4. e \in ready_queue /\ e \in Seqs /\ e \in Live
  BY NextItIn, ListFacts DEF issue, TimesInv
<1>5. Live' = Live
  BY <1>3, SameCore DEF Live, AllROB, AllLSQ
<1>6. exec_lat \in [Seqs -> 0 .. LatMax]
  BY DEF TimesInv, ListsInv, Clocked
<1> HIDE DEF e
<1>7. lat \in 1 .. LatMax
  BY LatsAssumption, SizesAssumption DEF Latencies, LatMax, INF
<1> DEFINE t == lat + ISSUE_EXEC_DELAY
<1>8. t \in 0 .. INF - 1 /\ lat \in 0 .. INF - 1
  BY <1>7, SizesAssumption, LatsAssumption DEF LatMax, INF
<1>9. w \in {lat, t, cache_dl1_lat}
  BY DEF Wakeups
<1>10. w \in 0 .. INF - 1
  <2>1. cache_dl1_lat \in 0 .. INF - 1
    BY LatsAssumption DEF INF
  <2> HIDE DEF t
  <2> QED
    BY <1>8, <1>9, <2>1
<1>11. recovery_model = "perfect" => w = lat
  BY DEF Wakeups
<1>12. exec_lat' \in [Seqs -> 0 .. LatMax] /\ exec_lat'[e] = lat
       /\ \A f \in Seqs : f # e => exec_lat'[f] = exec_lat[f]
  BY <1>2, <1>4, <1>6, <1>7
<1>13. ready' = SetReg(ready, Dest(e), t)
  BY <1>2 DEF BypassReady
<1> HIDE DEF t, y
<1>14. Announces(e, w, t)
  BY <1>2, <1>3, <1>4, <1>5, <1>8, <1>10, <1>13 DEF Announces
<1>15. t = exec_lat'[e] + ISSUE_EXEC_DELAY /\ (recovery_model = "perfect" => t = w + ISSUE_EXEC_DELAY)
  BY <1>11, <1>12 DEF t
<1>16. SetsOff(e, w, t)
  BY <1>3, <1>12, <1>14, <1>15 DEF SetsOff, y
<1> QED
  BY <1>16

LEMMA SetsOffTimes ==
    ASSUME TimesInv, select_store \/ issue
    PROVE  Timed' /\ Supplied' /\ Exact'
<1>1. PICK e, w, t : SetsOff(e, w, t)
  BY select_storeSetsOff, issueSetsOff
<1> QED
  BY <1>1, SetsOffTimed, SetsOffExact

-----------------------------------------------------------------------------
(* Replay *)

(* Registers that a replay touches are of the context it replays, and none *)
(* of them that is withdrawn had its value.                                *)
LEMMA replayFacts ==
    ASSUME TimesInv, replay
    PROVE  LET c == inst[NextToExecute.rs].context_id
               X == InContext(Issuing, c)
           IN  /\ ready' \in [Seqs -> TimesSet] /\ spec_ready' \in [Seqs -> TimesSet]
               /\ \A r \in Withdrawn(X) : ready'[r] = INF /\ spec_ready'[r] = INF
               /\ \A r \in Seqs : ready'[r] # ready[r] =>
                     r \in Withdrawn(X) /\ ready[r] > 0 /\ inst[r].context_id = c
               /\ \A r \in Seqs : spec_ready'[r] # spec_ready[r] =>
                     /\ inst[r].context_id = c
                     /\ r \in Withdrawn(X) \/ spec_ready'[r] = Less(ready[r], ISSUE_EXEC_DELAY)
<1> DEFINE e == NextToExecute.rs
           c == inst[e].context_id
           X == InContext(Issuing, c)
<1>1. PICK zero \in {NoReg} \cup {inst[e].src_physreg[k] : k \in {0, 1}} :
             spec_ready' = [r \in DOMAIN spec_ready |->
                              IF r \in Withdrawn(X) THEN INF
                              ELSE IF r \in Corrected(e, zero) THEN Less(ready[r], ISSUE_EXEC_DELAY)
                              ELSE spec_ready[r]]
  BY DEF replay, Issuing, OnTheWay
<1>2. ready' = [r \in DOMAIN ready |-> IF r \in Withdrawn(X) THEN INF ELSE ready[r]]
  BY DEF replay, Issuing, OnTheWay
<1>3. ready \in [Seqs -> TimesSet] /\ spec_ready \in [Seqs -> TimesSet] /\ Records
  BY DEF TimesInv, Timed, ListsInv
<1>4. e \in Seqs
  <2>1. \A x \in issue_exec_queue : x.rs \in Nat /\ x.when \in Nat /\ x.rs \in Seqs
    BY SizesAssumption DEF TimesInv, ListsInv, Clocked, Seqs
  <2> QED
    BY <2>1, NextToExecuteIn DEF replay
<1>5. X \subseteq Issuing /\ \A f \in X : inst[f].context_id = c /\ f \in Seqs
  BY ListFacts DEF InContext, TimesInv
<1> HIDE DEF e, c, X
<1>6. ASSUME NEW r \in Withdrawn(X)
      PROVE  r \in Seqs /\ ready[r] > 0 /\ inst[r].context_id = c
  <2>1. PICK f \in X : r = Dest(f) /\ r # NoReg
    BY DEF Withdrawn
  <2>2. PICK x \in issue_exec_queue : x.rs = f
    BY <1>5, <2>1 DEF Issuing, OnTheWay
  <2>3. ready[r] = x.when + exec_lat[f]
    BY <2>1, <2>2 DEF TimesInv, Timed
  <2>4. x.when \in Nat /\ exec_lat[f] >= 1 /\ exec_lat[f] \in Int
    <3>1. x.when \in 0 .. ISSUE_EXEC_DELAY /\ exec_lat[f] >= 1 /\ exec_lat \in [Seqs -> 0 .. LatMax]
      BY <2>2 DEF TimesInv, ListsInv, Clocked
    <3> QED
      BY <1>5, <3>1, SizesAssumption, LatsAssumption DEF LatMax, INF
  <2>5. r \in Seqs /\ inst[r].context_id = c
    BY <1>3, <1>5, <2>1, DestOf, DestContext
  <2> QED
    BY <2>3, <2>4, <2>5
<1>7. \A r \in Corrected(e, zero) : inst[r].context_id = c
  <2>1. \A r \in Corrected(e, zero) : \E k \in {0, 1} : r = inst[e].src_physreg[k] /\ r # NoReg
    BY DEF Corrected
  <2> QED
    BY <1>3, <1>4, <2>1, SourceFacts DEF c
<1>8. \A r \in Seqs : Less(ready[r], ISSUE_EXEC_DELAY) \in TimesSet
  BY <1>3, TimesAreInts, SizesAssumption DEF Less, INF, Past
<1>9. INF \in TimesSet
  BY TimesAreInts DEF INF
<1>10. ready' \in [Seqs -> TimesSet] /\ spec_ready' \in [Seqs -> TimesSet]
  BY <1>1, <1>2, <1>3, <1>8, <1>9
<1>11. \A r \in Withdrawn(X) : ready'[r] = INF /\ spec_ready'[r] = INF
  BY <1>1, <1>2, <1>3, <1>6
<1>12. \A r \in Seqs : ready'[r] # ready[r] =>
                     r \in Withdrawn(X) /\ ready[r] > 0 /\ inst[r].context_id = c
  BY <1>2, <1>3, <1>6
<1>13. \A r \in Seqs : spec_ready'[r] # spec_ready[r] =>
                     /\ inst[r].context_id = c
                     /\ r \in Withdrawn(X) \/ spec_ready'[r] = Less(ready[r], ISSUE_EXEC_DELAY)
  BY <1>1, <1>3, <1>6, <1>7
<1> QED
  BY <1>10, <1>11, <1>12, <1>13 DEF e, c, X

LEMMA replayTimes ==
    ASSUME TimesInv, replay
    PROVE  Timed' /\ Supplied' /\ Exact'
<1> DEFINE c == inst[NextToExecute.rs].context_id
           X == InContext(Issuing, c)
<1>1. /\ core' = core /\ inst' = inst /\ ROB' = ROB /\ LSQ' = LSQ /\ event_queue' = event_queue
      /\ completed' = completed /\ exec_lat' = exec_lat /\ issued' = issued \ X
      /\ issue_exec_queue' = Without(issue_exec_queue, X)
      /\ ready_queue' = ready_queue \ InContext(ready_queue, c)
      /\ recovery_model = "squash"
  BY DEF replay, Flushed, Issuing, OnTheWay
<1>2. /\ ready' \in [Seqs -> TimesSet] /\ spec_ready' \in [Seqs -> TimesSet]
      /\ \A r \in Withdrawn(X) : ready'[r] = INF /\ spec_ready'[r] = INF
      /\ \A r \in Seqs : ready'[r] # ready[r] =>
            r \in Withdrawn(X) /\ ready[r] > 0 /\ inst[r].context_id = c
      /\ \A r \in Seqs : spec_ready'[r] # spec_ready[r] =>
            /\ inst[r].context_id = c
            /\ r \in Withdrawn(X) \/ spec_ready'[r] = Less(ready[r], ISSUE_EXEC_DELAY)
  BY replayFacts
<1>3. /\ \A f \in X : f \in Issuing /\ f \in Seqs
      /\ \A f \in InContext(ready_queue, c) : f \in ready_queue
      /\ \A f \in ready_queue' : f \in ready_queue /\ inst[f].context_id # c
  BY <1>1, ListFacts DEF InContext, TimesInv
<1> HIDE DEF c, X
<1>4. /\ Seqs' = Seqs /\ TimesSet' = TimesSet /\ Live' = Live
      /\ recovery_model' = recovery_model
      /\ \A f : Dest(f)' = Dest(f) /\ (IsStore(f)' <=> IsStore(f)) /\ Reads(f)' = Reads(f)
  BY <1>1, SameInst, SameCore DEF TimesSet, Live, AllROB, AllLSQ
<1>5. /\ Live \subseteq Seqs /\ completed \subseteq Seqs /\ ready_queue \subseteq Seqs
      /\ (\A x \in issue_exec_queue' : x \in issue_exec_queue /\ x.rs \in Seqs /\ x.rs \notin X)
      /\ (\A x \in event_queue : x.rs \in Seqs /\ x.rs \notin X)
      /\ (\A f \in completed : f \notin X)
  BY <1>1, <1>3, ListFacts, Home
     DEF TimesInv, ListsInv, Placement, Without, Listed, OneList
<1>6. ASSUME NEW f \in Seqs, f \notin X, Dest(f) # NoReg
      PROVE  Dest(f) \in Seqs /\ ready'[Dest(f)] = ready[Dest(f)]
  <2>1. Dest(f) \in Seqs /\ \A g \in X : Dest(g) # Dest(f)
    BY <1>3, <1>6, DestOf, DestUnique DEF TimesInv, ListsInv
  <2>2. Dest(f) \notin Withdrawn(X)
    BY <2>1 DEF Withdrawn
  <2> QED
    BY <1>2, <2>1, <2>2
<1>7. Timed'
  <2>1. ASSUME NEW f \in Live', Dest(f) # NoReg, f \notin issued'
        PROVE  ready'[Dest(f)] = INF /\ spec_ready'[Dest(f)] = INF
    <3>1. CASE f \in X
      <4>1. Dest(f) \in Withdrawn(X)
        BY <2>1, <3>1 DEF Withdrawn
      <4> QED
        BY <1>2, <4>1
    <3>2. CASE f \notin X
      <4>1. f \in Seqs /\ f \in Live /\ f \notin issued
        BY <1>1, <1>4, <1>5, <2>1, <3>2
      <4>2. ready[Dest(f)] = INF /\ spec_ready[Dest(f)] = INF
        BY <2>1, <4>1 DEF TimesInv, Timed
      <4>3. ready'[Dest(f)] = INF /\ Dest(f) \in Seqs
        BY <1>6, <2>1, <3>2, <4>1, <4>2
      <4>4. Less(ready[Dest(f)], ISSUE_EXEC_DELAY) = INF
        BY <4>2 DEF Less
      <4> QED
        BY <1>2, <4>2, <4>3, <4>4
    <3> QED
      BY <3>1, <3>2
  <2>2. ASSUME NEW x \in issue_exec_queue', Dest(x.rs) # NoReg
        PROVE  ready'[Dest(x.rs)] = x.when + exec_lat'[x.rs]
    BY <1>1, <1>5, <1>6, <2>2 DEF TimesInv, Timed
  <2>3. ASSUME NEW x \in event_queue', Dest(x.rs) # NoReg
        PROVE  ready'[Dest(x.rs)] = x.when
    BY <1>1, <1>5, <1>6, <2>3 DEF TimesInv, Timed
  <2>4. ASSUME NEW f \in completed', ~IsStore(f), Dest(f) # NoReg
        PROVE  ready'[Dest(f)] <= 0
    BY <1>1, <1>5, <1>6, <2>4 DEF TimesInv, Timed
  <2>5. \A x : Dest(x.rs)' = Dest(x.rs)
    BY <1>4
  <2> QED
    BY <1>2, <1>4, <2>1, <2>2, <2>3, <2>4, <2>5 DEF Timed
<1>8. ASSUME NEW f \in Seqs, all_operands_ready(f)
      PROVE  all_operands_ready(f)'
  <2>1. Reads(f) \subseteq {0, 1} /\ Reads(f)' = Reads(f)
    BY <1>4, ReadsOperands
  <2>2. \A k \in {0, 1} : inst[f].src_physreg[k] # NoReg => inst[f].src_physreg[k] \in Seqs
    BY SourceFacts DEF TimesInv, ListsInv
  <2>3. \A r \in Seqs : ready[r] <= 0 => ready'[r] <= 0
    BY <1>2, TimesAreInts DEF TimesInv, Timed
  <2> QED
    BY <1>1, <1>8, <2>1, <2>2, <2>3 DEF all_operands_ready, operand_ready
<1>9. ASSUME NEW f \in ready_queue'
      PROVE  all_operands_spec_ready(f)'
  <2>1. f \in ready_queue /\ f \in Seqs /\ inst[f].context_id # c /\ all_operands_spec_ready(f)
    BY <1>3, <1>5 DEF TimesInv, Supplied
  <2>2. Reads(f) \subseteq {0, 1} /\ Reads(f)' = Reads(f)
    BY <1>4, ReadsOperands
  <2>3. \A k \in {0, 1} : inst[f].src_physreg[k] # NoReg =>
           /\ inst[f].src_physreg[k] \in Seqs
           /\ inst[inst[f].src_physreg[k]].context_id # c
    BY <2>1, SourceFacts DEF TimesInv, ListsInv
  <2>4. \A k \in {0, 1} : inst[f].src_physreg[k] # NoReg =>
           spec_ready'[inst[f].src_physreg[k]] = spec_ready[inst[f].src_physreg[k]]
    BY <1>2, <2>3
  <2> QED
    BY <1>1, <2>1, <2>2, <2>4 DEF all_operands_spec_ready, operand_spec_ready
<1>10. Supplied'
  <2>1. \A x \in event_queue' : all_operands_ready(x.rs)'
    BY <1>1, <1>5, <1>8 DEF TimesInv, Supplied
  <2>2. \A f \in completed' : ~IsStore(f) => all_operands_ready(f)'
    BY <1>1, <1>5, <1>8 DEF TimesInv, Supplied
  <2> QED
    BY <1>4, <1>9, <2>1, <2>2 DEF Supplied
<1>11. Exact'
  BY <1>1, <1>4 DEF Exact
<1> QED
  BY <1>7, <1>10, <1>11

-----------------------------------------------------------------------------
(* The clock *)

LEMMA Ticks ==
    ASSUME NEW t \in TimesSet
    PROVE  /\ Tick(t) \in TimesSet /\ (Tick(t) = INF <=> t = INF)
           /\ (t <= 0 => Tick(t) = Past) /\ (t > 0 /\ t # INF => Tick(t) = t - 1)
BY TimesAreInts DEF Tick, INF, Past

LEMMA next_cycleTimes ==
    ASSUME TimesInv, next_cycle
    PROVE  Timed' /\ Supplied' /\ Exact'
<1>1. /\ core' = core /\ inst' = inst /\ ROB' = ROB /\ LSQ' = LSQ /\ completed' = completed
      /\ issued' = issued /\ ready_queue' = ready_queue /\ exec_lat' = exec_lat
      /\ ready' = [r \in DOMAIN ready |-> Tick(ready[r])]
      /\ spec_ready' = [r \in DOMAIN spec_ready |-> Tick(spec_ready[r])]
      /\ issue_exec_queue' = TickEvents(issue_exec_queue)
      /\ event_queue' = TickEvents(event_queue) /\ stage = "rename"
  BY DEF next_cycle, flags
<1>2. /\ Seqs' = Seqs /\ TimesSet' = TimesSet /\ Live' = Live
      /\ recovery_model' = recovery_model
      /\ \A f : Dest(f)' = Dest(f) /\ (IsStore(f)' <=> IsStore(f)) /\ Reads(f)' = Reads(f)
  BY <1>1, SameInst, SameCore DEF TimesSet, Live, AllROB, AllLSQ
<1>3. ready \in [Seqs -> TimesSet] /\ spec_ready \in [Seqs -> TimesSet]
  BY DEF TimesInv, Timed
<1>4. \A r \in Seqs : /\ ready[r] \in TimesSet /\ ready'[r] = Tick(ready[r])
                      /\ spec_ready[r] \in TimesSet /\ spec_ready'[r] = Tick(spec_ready[r])
  BY <1>1, <1>3
<1>5. ready' \in [Seqs -> TimesSet] /\ spec_ready' \in [Seqs -> TimesSet]
  BY <1>1, <1>3, Ticks
<1>6. /\ Live \subseteq Seqs /\ completed \subseteq Seqs /\ ready_queue \subseteq Seqs
      /\ (\A x \in issue_exec_queue : /\ x.rs \in Seqs /\ x.when \in 1 .. ISSUE_EXEC_DELAY
                                       /\ x \in [rs : Seqs, when : Int]
                                       /\ exec_lat[x.rs] \in 1 .. LatMax)
      /\ (\A x \in event_queue : /\ x.rs \in Seqs /\ x.when \in 1 .. LatMax
                                  /\ x \in [rs : Seqs, when : Int])
  <2>1. \A x \in issue_exec_queue : /\ x \in [rs : Seqs, when : 0 .. ISSUE_EXEC_DELAY]
                                     /\ x.when >= 1 /\ exec_lat[x.rs] >= 1
    BY <1>1 DEF TimesInv, ListsInv, Clocked
  <2>2. \A x \in event_queue : x \in [rs : Seqs, when : 0 .. LatMax] /\ x.when >= 1
    BY <1>1 DEF TimesInv, ListsInv, Clocked
  <2>3. exec_lat \in [Seqs -> 0 .. LatMax] /\ LatMax \in Nat
    BY LatsAssumption, SizesAssumption DEF TimesInv, ListsInv, Clocked, LatMax, INF
  <2>4. Live \subseteq Seqs /\ completed \subseteq Seqs /\ ready_queue \subseteq Seqs
    BY ListFacts, Home DEF TimesInv, ListsInv, Placement
  <2>5. \A x \in issue_exec_queue : /\ x.rs \in Seqs /\ x.when \in 1 .. ISSUE_EXEC_DELAY
                                     /\ x \in [rs : Seqs, when : Int]
                                     /\ exec_lat[x.rs] \in 1 .. LatMax
    BY <2>1, <2>3, SizesAssumption
  <2>6. \A x \in event_queue : /\ x.rs \in Seqs /\ x.when \in 1 .. LatMax
                                /\ x \in [rs : Seqs, when : Int]
    BY <2>2, <2>3
  <2> QED
    BY <2>4, <2>5, <2>6
<1>7. /\ \A y \in issue_exec_queue' : \E x \in issue_exec_queue :
            y = [rs |-> x.rs, when |-> x.when - 1]
      /\ \A y \in event_queue' : \E x \in event_queue :
            y = [rs |-> x.rs, when |-> x.when - 1]
  BY <1>1, <1>6, WayTicks
<1>8. \A f \in Seqs : Dest(f) # NoReg => Dest(f) \in Seqs
  BY DestOf DEF TimesInv, ListsInv
<1>9. Timed'
  <2>1. ASSUME NEW f \in Live', Dest(f) # NoReg, f \notin issued'
        PROVE  ready'[Dest(f)] = INF /\ spec_ready'[Dest(f)] = INF
    <3>1. f \in Live /\ f \notin issued /\ Dest(f) \in Seqs
      BY <1>1, <1>2, <1>6, <1>8, <2>1
    <3>2. ready[Dest(f)] = INF /\ spec_ready[Dest(f)] = INF
      BY <2>1, <3>1 DEF TimesInv, Timed
    <3> QED
      BY <1>4, <3>1, <3>2 DEF Tick
  <2>2. ASSUME NEW y \in issue_exec_queue', Dest(y.rs) # NoReg
        PROVE  ready'[Dest(y.rs)] = y.when + exec_lat'[y.rs]
    <3>1. PICK x \in issue_exec_queue : y = [rs |-> x.rs, when |-> x.when - 1]
      BY <1>7
    <3>2. y.rs = x.rs /\ y.when = x.when - 1
      BY <3>1
    <3>3. /\ ready[Dest(x.rs)] = x.when + exec_lat[x.rs] /\ Dest(x.rs) \in Seqs
          /\ ready'[Dest(x.rs)] = Tick(ready[Dest(x.rs)])
      BY <1>4, <1>6, <1>8, <2>2, <3>2 DEF TimesInv, Timed
    <3>4. /\ x.when \in 1 .. ISSUE_EXEC_DELAY /\ exec_lat[x.rs] \in 1 .. LatMax
      BY <1>6
    <3>5. Tick(x.when + exec_lat[x.rs]) = x.when - 1 + exec_lat[x.rs]
      BY <3>4, LatsAssumption, SizesAssumption DEF Tick, INF, LatMax
    <3> QED
      BY <1>1, <3>2, <3>3, <3>5
  <2>3. ASSUME NEW y \in event_queue', Dest(y.rs) # NoReg
        PROVE  ready'[Dest(y.rs)] = y.when
    <3>1. PICK x \in event_queue : y = [rs |-> x.rs, when |-> x.when - 1]
      BY <1>7
    <3>2. y.rs = x.rs /\ y.when = x.when - 1
      BY <3>1
    <3>3. /\ ready[Dest(x.rs)] = x.when /\ Dest(x.rs) \in Seqs
          /\ ready'[Dest(x.rs)] = Tick(ready[Dest(x.rs)])
      BY <1>4, <1>6, <1>8, <2>3, <3>2 DEF TimesInv, Timed
    <3>4. x.when \in 1 .. LatMax
      BY <1>6
    <3>5. Tick(x.when) = x.when - 1
      BY <3>4, LatsAssumption, SizesAssumption DEF Tick, INF, LatMax
    <3> QED
      BY <3>2, <3>3, <3>5
  <2>4. ASSUME NEW f \in completed', ~IsStore(f), Dest(f) # NoReg
        PROVE  ready'[Dest(f)] <= 0
    <3>1. ready[Dest(f)] <= 0 /\ Dest(f) \in Seqs
      BY <1>1, <1>6, <1>8, <2>4 DEF TimesInv, Timed
    <3> QED
      BY <1>4, <3>1, Ticks DEF Past
  <2>5. \A x : Dest(x.rs)' = Dest(x.rs)
    BY <1>2
  <2> QED
    BY <1>2, <1>5, <2>1, <2>2, <2>3, <2>4, <2>5 DEF Timed
<1>10. /\ \A r \in Seqs : ready[r] <= 0 => ready'[r] <= 0
       /\ \A r \in Seqs : spec_ready[r] <= 0 => spec_ready'[r] <= 0
  BY <1>4, Ticks DEF Past
<1>11. ASSUME NEW f \in Seqs
       PROVE  /\ all_operands_ready(f) => all_operands_ready(f)'
              /\ all_operands_spec_ready(f) => all_operands_spec_ready(f)'
  <2>1. Reads(f) \subseteq {0, 1} /\ Reads(f)' = Reads(f)
    BY <1>2, ReadsOperands
  <2>2. \A k \in {0, 1} : inst[f].src_physreg[k] # NoReg => inst[f].src_physreg[k] \in Seqs
    BY SourceFacts DEF TimesInv, ListsInv
  <2> QED
    BY <1>1, <1>10, <2>1, <2>2
       DEF all_operands_ready, all_operands_spec_ready, operand_ready, operand_spec_ready
<1>12. Supplied'
  <2>1. ASSUME NEW y \in event_queue' PROVE all_operands_ready(y.rs)'
    <3>1. PICK x \in event_queue : y = [rs |-> x.rs, when |-> x.when - 1]
      BY <1>7
    <3>2. y.rs = x.rs
      BY <3>1
    <3>3. all_operands_ready(x.rs)'
      BY <1>6, <1>11 DEF TimesInv, Supplied
    <3>4. \A f, g : f = g => (all_operands_ready(f)' <=> all_operands_ready(g)')
      OBVIOUS
    <3> QED
      BY <3>2, <3>3, <3>4
  <2>2. \A f \in completed' : ~IsStore(f) => all_operands_ready(f)'
    BY <1>1, <1>6, <1>11 DEF TimesInv, Supplied
  <2>3. \A f \in ready_queue' : all_operands_spec_ready(f)'
    BY <1>1, <1>6, <1>11 DEF TimesInv, Supplied
  <2> QED
    BY <1>2, <2>1, <2>2, <2>3 DEF Supplied
<1>13. Exact'
  <2> SUFFICES ASSUME recovery_model = "perfect"
               PROVE  Exact'
    BY <1>2 DEF Exact
  <2>1. /\ \A r \in Seqs : spec_ready[r] # INF =>
              /\ ready[r] # INF
              /\ ready[r] <= ISSUE_EXEC_DELAY + IF spec_ready[r] >= 0 THEN spec_ready[r] ELSE 0
        /\ \A x \in issue_exec_queue : \A k \in Reads(x.rs) :
              inst[x.rs].src_physreg[k] # NoReg => ready[inst[x.rs].src_physreg[k]] <= x.when
    BY DEF TimesInv, Exact
  <2>2. ASSUME NEW r \in Seqs, spec_ready'[r] # INF
        PROVE  /\ ready'[r] # INF
               /\ ready'[r] <= ISSUE_EXEC_DELAY + IF spec_ready'[r] >= 0 THEN spec_ready'[r] ELSE 0
    <3>1. spec_ready[r] # INF /\ ready[r] # INF
      BY <1>4, <2>1, <2>2, Ticks
    <3>2. ready[r] <= ISSUE_EXEC_DELAY + IF spec_ready[r] >= 0 THEN spec_ready[r] ELSE 0
      BY <2>1, <3>1
    <3>3. /\ ready'[r] = IF ready[r] <= 0 THEN -1 ELSE ready[r] - 1
          /\ spec_ready'[r] = IF spec_ready[r] <= 0 THEN -1 ELSE spec_ready[r] - 1
      BY <1>4, <3>1 DEF Tick, Past
    <3>4. ready[r] \in Int /\ -1 <= ready[r] /\ spec_ready[r] \in Int /\ -1 <= spec_ready[r]
      <4>1. ready[r] \in TimesSet /\ spec_ready[r] \in TimesSet
        BY <1>4
      <4> QED
        BY <4>1, TimesAreInts
    <3>5. ready'[r] <= ISSUE_EXEC_DELAY + IF spec_ready'[r] >= 0 THEN spec_ready'[r] ELSE 0
      BY <3>2, <3>3, <3>4, SizesAssumption
    <3> QED
      BY <1>4, <3>1, <3>5, Ticks
  <2>3. ASSUME NEW y \in issue_exec_queue', NEW k \in Reads(y.rs), inst[y.rs].src_physreg[k] # NoReg
        PROVE  ready'[inst[y.rs].src_physreg[k]] <= y.when
    <3>1. PICK x \in issue_exec_queue : y = [rs |-> x.rs, when |-> x.when - 1]
      BY <1>7
    <3>2. y.rs = x.rs /\ y.when = x.when - 1 /\ k \in Reads(x.rs) /\ k \in {0, 1}
      BY <2>3, <3>1, ReadsOperands
    <3> DEFINE r == inst[x.rs].src_physreg[k]
    <3>3. r # NoReg /\ ready[r] <= x.when
      BY <2>1, <2>3, <3>2
    <3>4. r \in Seqs
      BY <1>6, <3>2, <3>3, SourceFacts DEF TimesInv, ListsInv
    <3> HIDE DEF r
    <3>5. x.when \in 1 .. ISSUE_EXEC_DELAY /\ x.when < INF
      BY <1>6, LatsAssumption, SizesAssumption DEF INF
    <3>6. ready[r] \in Int /\ ready[r] # INF
      <4>1. ready[r] \in TimesSet
        BY <1>4, <3>4
      <4> QED
        BY <3>3, <3>5, <4>1, TimesAreInts DEF INF
    <3>7. ready'[r] = IF ready[r] <= 0 THEN -1 ELSE ready[r] - 1
      BY <1>4, <3>4, <3>6 DEF Tick, Past
    <3>8. ready'[r] <= x.when - 1
      BY <3>3, <3>5, <3>6, <3>7
    <3> QED
      BY <3>2, <3>8 DEF r
  <2> QED
    BY <1>1, <1>2, <2>2, <2>3 DEF Exact
<1> QED
  BY <1>9, <1>12, <1>13

-----------------------------------------------------------------------------
(* Rename *)

LEMMA AppendedTables ==
    ASSUME TimesInv, NEW c, NEW kind, NEW src, NEW n, NEW k, NEW stale,
           Appended(c, kind, src, n, k, stale)
    PROVE  /\ ready' \in [Seqs' -> TimesSet] /\ spec_ready' \in [Seqs' -> TimesSet]
           /\ exec_lat' \in [Seqs' -> 0 .. LatMax]
           /\ \A r \in Seqs : /\ ready'[r] = ready[r] /\ spec_ready'[r] = spec_ready[r]
                              /\ exec_lat'[r] = exec_lat[r]
           /\ \A r \in Seqs' : r \notin Seqs => ready'[r] = INF /\ spec_ready'[r] = INF
<1>1. /\ n \in Nat /\ n = Len(inst) + 1 /\ k \in {1, 2}
      /\ Seqs = 1 .. n - 1 /\ Seqs' = 1 .. n + k - 1
  BY AppendedSeqs DEF TimesInv
<1>2. Len(inst) \in Nat
  BY InstFacts DEF TimesInv, ListsInv
<1> DEFINE m == Len(inst)
<1>3. m \in Nat /\ k \in Nat /\ Seqs = 1 .. m /\ Seqs' = 1 .. m + k
  BY <1>1, <1>2
<1>4. /\ ready' = Fill(ready, k, INF) /\ spec_ready' = Fill(spec_ready, k, INF)
      /\ exec_lat' = Fill(exec_lat, k, stale) /\ stale \in {0} \cup MemLats
  BY DEF Appended
<1>5. INF \in TimesSet /\ stale \in 0 .. LatMax
  BY <1>4, LatsAssumption, SizesAssumption, TimesAreInts DEF INF, LatMax
<1> HIDE DEF m
<1>6. /\ ready \in [1 .. m -> TimesSet] /\ spec_ready \in [1 .. m -> TimesSet]
      /\ exec_lat \in [1 .. m -> 0 .. LatMax]
  BY <1>3 DEF TimesInv, Timed, ListsInv, Clocked
<1>7. /\ FilledOf(ready, m, k, INF, TimesSet) /\ FilledOf(spec_ready, m, k, INF, TimesSet)
      /\ FilledOf(exec_lat, m, k, stale, 0 .. LatMax)
  BY <1>3, <1>5, <1>6, Filled
<1>8. \A r \in 1 .. m + k : r \notin 1 .. m => r \in m + 1 .. m + k
  BY <1>3
<1> QED
  BY <1>3, <1>4, <1>7, <1>8 DEF FilledOf

LEMMA RenameTimes ==
    ASSUME TimesInv, Rename
    PROVE  Timed' /\ Supplied' /\ Exact'
<1>1. PICK c, kind, src, n, k, stale : Appended(c, kind, src, n, k, stale)
  BY RenameAppends DEF TimesInv
<1>2. /\ ready' \in [Seqs' -> TimesSet] /\ spec_ready' \in [Seqs' -> TimesSet]
      /\ \A r \in Seqs : /\ ready'[r] = ready[r] /\ spec_ready'[r] = spec_ready[r]
                         /\ exec_lat'[r] = exec_lat[r]
      /\ \A r \in Seqs' : r \notin Seqs => ready'[r] = INF /\ spec_ready'[r] = INF
  BY <1>1, AppendedTables
<1>3. /\ completed' = completed /\ issued' = issued /\ ready_queue' = ready_queue
      /\ issue_exec_queue' = issue_exec_queue /\ event_queue' = event_queue /\ core' = core
  BY <1>1 DEF Appended, flags, lists
<1>4. \A e \in Seqs : /\ inst'[e] = inst[e] /\ Dest(e)' = Dest(e) /\ Reads(e)' = Reads(e)
                      /\ (IsStore(e)' <=> IsStore(e))
  BY <1>1, AppendedSame DEF TimesInv
<1>5. /\ Live \subseteq Seqs /\ completed \subseteq Seqs /\ ready_queue \subseteq Seqs
      /\ (\A x \in issue_exec_queue : x.rs \in Seqs)
      /\ (\A x \in event_queue : x.rs \in Seqs)
  BY ListFacts, Home DEF TimesInv, ListsInv, Placement
<1>6. \A f \in Seqs : Dest(f) # NoReg => Dest(f) \in Seqs
  BY DestOf DEF TimesInv, ListsInv
<1>7. TimesSet' = TimesSet /\ recovery_model' = recovery_model
  BY <1>3, SameCore DEF TimesSet
<1>8. Timed'
  <2>1. ASSUME NEW f \in Live', Dest(f)' # NoReg, f \notin issued'
        PROVE  ready'[Dest(f)'] = INF /\ spec_ready'[Dest(f)'] = INF
    <3>1. CASE f \in Live
      <4>1. f \in Seqs /\ Dest(f)' = Dest(f) /\ Dest(f) \in Seqs /\ f \notin issued
        BY <1>3, <1>4, <1>5, <1>6, <2>1, <3>1
      <4>2. ready[Dest(f)] = INF /\ spec_ready[Dest(f)] = INF
        BY <2>1, <3>1, <4>1 DEF TimesInv, Timed
      <4> QED
        BY <1>2, <4>1, <4>2
    <3>2. CASE f \notin Live
      <4>1. f \in {n, n + 1} /\ (f = n \/ k = 2)
        BY <1>1, <2>1, <3>2, AppendedPlacement DEF TimesInv
      <4>2. inst'[f].physreg = IF WritesReg(kind) THEN n ELSE NoReg
        BY <1>1, <4>1, AppendedSame DEF TimesInv
      <4>3. Dest(f)' = n
        BY <2>1, <4>2 DEF Dest
      <4>4. n \in Seqs' /\ n \notin Seqs
        BY <1>1, AppendedSeqs DEF TimesInv
      <4> QED
        BY <1>2, <4>3, <4>4
    <3> QED
      BY <3>1, <3>2
  <2>2. ASSUME NEW x \in issue_exec_queue', Dest(x.rs)' # NoReg
        PROVE  ready'[Dest(x.rs)'] = x.when + exec_lat'[x.rs]
    <3>1. x \in issue_exec_queue /\ x.rs \in Seqs
      BY <1>3, <1>5
    <3>2. Dest(x.rs)' = Dest(x.rs) /\ exec_lat'[x.rs] = exec_lat[x.rs]
      BY <1>2, <1>4, <3>1
    <3> QED
      BY <1>2, <1>6, <2>2, <3>1, <3>2 DEF TimesInv, Timed
  <2>3. ASSUME NEW x \in event_queue', Dest(x.rs)' # NoReg
        PROVE  ready'[Dest(x.rs)'] = x.when
    <3>1. x \in event_queue /\ x.rs \in Seqs
      BY <1>3, <1>5
    <3>2. Dest(x.rs)' = Dest(x.rs)
      BY <1>4, <3>1
    <3> QED
      BY <1>2, <1>6, <2>3, <3>1, <3>2 DEF TimesInv, Timed
  <2>4. ASSUME NEW f \in completed', ~IsStore(f)', Dest(f)' # NoReg
        PROVE  ready'[Dest(f)'] <= 0
    <3>1. f \in completed /\ f \in Seqs
      BY <1>3, <1>5
    <3>2. Dest(f)' = Dest(f) /\ (IsStore(f)' <=> IsStore(f))
      BY <1>4, <3>1
    <3> QED
      BY <1>2, <1>6, <2>4, <3>1, <3>2 DEF TimesInv, Timed
  <2> QED
    BY <1>2, <1>7, <2>1, <2>2, <2>3, <2>4 DEF Timed
<1>9. ASSUME NEW f \in Seqs
      PROVE  /\ all_operands_ready(f) => all_operands_ready(f)'
             /\ all_operands_spec_ready(f) => all_operands_spec_ready(f)'
  <2>1. Reads(f) \subseteq {0, 1} /\ Reads(f)' = Reads(f) /\ inst'[f] = inst[f]
    BY <1>4, ReadsOperands
  <2>2. \A q \in {0, 1} : inst[f].src_physreg[q] # NoReg => inst[f].src_physreg[q] \in Seqs
    BY SourceFacts DEF TimesInv, ListsInv
  <2> QED
    BY <1>2, <2>1, <2>2
       DEF all_operands_ready, all_operands_spec_ready, operand_ready, operand_spec_ready
<1>10. Supplied'
  <2>1. \A x \in event_queue' : all_operands_ready(x.rs)'
    BY <1>3, <1>5, <1>9 DEF TimesInv, Supplied
  <2>2. \A f \in completed' : ~IsStore(f)' => all_operands_ready(f)'
    BY <1>3, <1>4, <1>5, <1>9 DEF TimesInv, Supplied
  <2>3. \A f \in ready_queue' : all_operands_spec_ready(f)'
    BY <1>3, <1>5, <1>9 DEF TimesInv, Supplied
  <2> QED
    BY <2>1, <2>2, <2>3 DEF Supplied
<1>11. Exact'
  <2> SUFFICES ASSUME recovery_model = "perfect"
               PROVE  Exact'
    BY <1>7 DEF Exact
  <2>1. /\ \A r \in Seqs : spec_ready[r] # INF =>
              /\ ready[r] # INF
              /\ ready[r] <= ISSUE_EXEC_DELAY + IF spec_ready[r] >= 0 THEN spec_ready[r] ELSE 0
        /\ \A x \in issue_exec_queue : \A q \in Reads(x.rs) :
              inst[x.rs].src_physreg[q] # NoReg => ready[inst[x.rs].src_physreg[q]] <= x.when
    BY DEF TimesInv, Exact
  <2>2. ASSUME NEW r \in Seqs', spec_ready'[r] # INF
        PROVE  /\ ready'[r] # INF
               /\ ready'[r] <= ISSUE_EXEC_DELAY + IF spec_ready'[r] >= 0 THEN spec_ready'[r] ELSE 0
    <3>1. r \in Seqs
      BY <1>2, <2>2
    <3>2. ready'[r] = ready[r] /\ spec_ready'[r] = spec_ready[r]
      BY <1>2, <3>1
    <3> QED
      BY <2>1, <2>2, <3>1, <3>2
  <2>3. ASSUME NEW x \in issue_exec_queue', NEW q \in Reads(x.rs)', inst'[x.rs].src_physreg[q] # NoReg
        PROVE  ready'[inst'[x.rs].src_physreg[q]] <= x.when
    <3>1. x \in issue_exec_queue /\ x.rs \in Seqs
      BY <1>3, <1>5
    <3>2. inst'[x.rs] = inst[x.rs] /\ Reads(x.rs)' = Reads(x.rs)
      BY <1>4, <3>1
    <3>3. q \in {0, 1} /\ inst[x.rs].src_physreg[q] \in Seqs
      BY <2>3, <3>1, <3>2, ReadsOperands, SourceFacts DEF TimesInv, ListsInv
    <3> QED
      BY <1>2, <2>1, <2>3, <3>1, <3>2, <3>3
  <2> QED
    BY <2>2, <2>3 DEF Exact
<1> QED
  BY <1>8, <1>10, <1>11

-----------------------------------------------------------------------------
(* The whole *)

\* What a step may do with the counters, the units and the write buffer.
BoundedStep ==
    /\ core' = core
    /\ count' \in {0, count, count + 1}
    /\ it' \in {0, it} \/ (Selecting /\ it' = Next_it)
    /\ \/ busy' = busy
       \/ busy' = [k \in FUClasses |-> IF busy[k] > 0 THEN busy[k] - 1 ELSE 0]
       \/ \E k \in FUClasses : busy' = [busy EXCEPT ![k] = issuelat]
    /\ \/ write_buf' = write_buf
       \/ \E lat \in MemLats : write_buf' = write_buf \cup {lat}
       \/ write_buf' = {t - 1 : t \in write_buf \ {0}}

LEMMA StepBounded == [Next]_vars => BoundedStep
<1>1. ASSUME commit
      PROVE  BoundedStep
  <2>1. core' = core /\ count' = count + 1 /\ it' = it
    BY <1>1 DEF commit
  <2>2. \/ busy' = busy /\ write_buf' = write_buf
        \/ /\ busy' = [busy EXCEPT !["memport"] = issuelat]
           /\ \E lat \in MemLats : write_buf' = write_buf \cup {lat}
    BY <1>1 DEF commit
  <2> QED
    BY <2>1, <2>2 DEF BoundedStep, FUClasses
<1>2. ASSUME issue
      PROVE  BoundedStep
  <2>1. Selecting /\ core' = core /\ count' = count + 1 /\ it' = Next_it /\ write_buf' = write_buf
    BY <1>2 DEF issue
  <2>2. busy' = IF FUClass(Next_it) = "NA" THEN busy
                ELSE [busy EXCEPT ![FUClass(Next_it)] = issuelat]
    BY <1>2 DEF issue
  <2>3. FUClass(Next_it) = "NA" \/ FUClass(Next_it) \in FUClasses
    BY DEF FUClass, FUClasses
  <2> QED
    BY <2>1, <2>2, <2>3 DEF BoundedStep
<1>3. ASSUME commit_done
      PROVE  BoundedStep
  BY <1>3 DEF commit_done, Enter, BoundedStep
<1>4. ASSUME writeback
      PROVE  BoundedStep
  BY <1>4 DEF writeback, loop, BoundedStep
<1>5. ASSUME lsq_refresh
      PROVE  BoundedStep
  BY <1>5 DEF lsq_refresh, Enter, BoundedStep
<1>6. ASSUME wakeup
      PROVE  BoundedStep
  BY <1>6 DEF wakeup, Enter, BoundedStep
<1>7. ASSUME select_store
      PROVE  BoundedStep
  BY <1>7 DEF select_store, BoundedStep
<1>8. ASSUME no_unit
      PROVE  BoundedStep
  BY <1>8 DEF no_unit, BoundedStep
<1>9. ASSUME selection_done
      PROVE  BoundedStep
  BY <1>9 DEF selection_done, Enter, BoundedStep
<1>10. ASSUME execute
      PROVE  BoundedStep
  BY <1>10 DEF execute, loop, BoundedStep
<1>11. ASSUME replay
      PROVE  BoundedStep
  BY <1>11 DEF replay, loop, BoundedStep
<1>12. ASSUME dispatch
      PROVE  BoundedStep
  BY <1>12 DEF dispatch, Enter, BoundedStep
<1>13. ASSUME dispatch_none
      PROVE  BoundedStep
  BY <1>13 DEF dispatch_none, Enter, BoundedStep
<1>14. ASSUME next_cycle
      PROVE  BoundedStep
  BY <1>14 DEF next_cycle, BoundedStep
<1>15. ASSUME UNCHANGED vars
      PROVE  BoundedStep
  BY <1>15 DEF vars, loop, BoundedStep
<1>16. ASSUME Rename
      PROVE  BoundedStep
  BY <1>16 DEF Rename, register_rename, loop, BoundedStep
<1> QED
  BY <1>1, <1>2, <1>3, <1>4, <1>5, <1>6, <1>7, <1>8, <1>9, <1>10, <1>11, <1>12, <1>13, <1>14, <1>15, <1>16 DEF Next, Pipeline

LEMMA NextBounds ==
    ASSUME TimesInv, [Next]_vars
    PROVE  Bounds'
<1>1. /\ count \in Nat /\ it \in {0} \cup Seqs
      /\ busy \in [FUClasses -> 0 .. issuelat] /\ write_buf \subseteq 0 .. INF
      /\ issuelat \in Nat \ {0}
  BY CoreFacts DEF TimesInv, ListsInv, Bounds
<1>2. BoundedStep
  BY StepBounded
<1>3. Selecting => Next_it \in Seqs
  BY NextItIn, ListFacts DEF TimesInv
<1>4. Seqs \subseteq Seqs'
  <2>1. CASE Rename
    BY <2>1, RenameAppends, AppendedSeqs DEF TimesInv
  <2>2. CASE ~Rename
    <3>1. inst' = inst
      BY <2>2 DEF Next, Pipeline, commit, commit_done, writeback, lsq_refresh, wakeup,
         select_store, issue, no_unit, selection_done, execute, replay, dispatch, dispatch_none,
         next_cycle, vars
    <3> QED
      BY <3>1 DEF Seqs
  <2> QED
    BY <2>1, <2>2
<1>5. count' \in Nat /\ it' \in {0} \cup Seqs' /\ issuelat' = issuelat
  BY <1>1, <1>2, <1>3, <1>4 DEF BoundedStep, issuelat
<1>6. busy' \in [FUClasses -> 0 .. issuelat]
  <2>1. \A k \in FUClasses : (IF busy[k] > 0 THEN busy[k] - 1 ELSE 0) \in 0 .. issuelat
    BY <1>1
  <2>2. issuelat \in 0 .. issuelat
    BY <1>1
  <2>3. CASE busy' = [k \in FUClasses |-> IF busy[k] > 0 THEN busy[k] - 1 ELSE 0]
    BY <2>1, <2>3
  <2>4. CASE \E k \in FUClasses : busy' = [busy EXCEPT ![k] = issuelat]
    BY <1>1, <2>2, <2>4
  <2> QED
    BY <1>1, <1>2, <2>3, <2>4 DEF BoundedStep
<1>7. write_buf' \subseteq 0 .. INF
  <2>1. MemLats \subseteq 0 .. INF
    BY LatsAssumption, SizesAssumption DEF INF
  <2>2. \A t \in write_buf \ {0} : t - 1 \in 0 .. INF
    BY <1>1 DEF INF
  <2>3. CASE write_buf' = {t - 1 : t \in write_buf \ {0}}
    BY <2>2, <2>3
  <2>4. CASE \E lat \in MemLats : write_buf' = write_buf \cup {lat}
    BY <1>1, <2>1, <2>4
  <2> QED
    BY <1>1, <1>2, <2>3, <2>4 DEF BoundedStep
<1> QED
  BY <1>5, <1>6, <1>7 DEF Bounds, FUClasses, INF

LEMMA InitTimes == Init => TimesInv
<1> SUFFICES ASSUME Init
             PROVE  TimesInv
  OBVIOUS
<1>1. ListsInv
  BY InitLists
<1>2. /\ Seqs = {} /\ Live = {} /\ ready = <<>> /\ spec_ready = <<>>
      /\ issue_exec_queue = {} /\ event_queue = {} /\ completed = {} /\ ready_queue = {}
      /\ count = 0 /\ it = 0 /\ busy = [k \in FUClasses |-> 0] /\ write_buf = {}
  BY DEF Init, Seqs, Live, AllROB, AllLSQ
<1>3. ready \in [Seqs -> TimesSet] /\ spec_ready \in [Seqs -> TimesSet]
  BY <1>2
<1>4. Timed
  BY <1>2, <1>3 DEF Timed
<1>5. Supplied /\ Exact
  BY <1>2 DEF Supplied, Exact
<1>6. Bounds
  BY <1>1, <1>2, CoreFacts DEF Bounds, ListsInv
<1> QED
  BY <1>1, <1>4, <1>5, <1>6 DEF TimesInv

LEMMA NextTimes == TimesInv /\ [Next]_vars => TimesInv'
<1> SUFFICES ASSUME TimesInv, [Next]_vars
             PROVE  TimesInv'
  OBVIOUS
<1>1. ListsInv' /\ Bounds'
  BY NextLists, NextBounds DEF TimesInv
<1>2. Timed' /\ Supplied' /\ Exact'
  BY commitQuiet, writebackQuiet, ListsQuiet, executeQuiet, dispatchQuiet, QuietTimes,
     SetsOffTimes, replayTimes, next_cycleTimes, RenameTimes
     DEF Next, Pipeline, Idle
<1> QED
  BY <1>1, <1>2 DEF TimesInv

LEMMA TimesInvariant == Spec => []TimesInv
BY InitTimes, NextTimes, PTL DEF Spec

-----------------------------------------------------------------------------
(* What it implies *)

LEMMA TimesInvTypes == TimesInv => TypeOK
<1> SUFFICES ASSUME TimesInv
             PROVE  TypeOK
  OBVIOUS
<1>1. ListsInv /\ Records /\ Placement /\ Clocked
  BY DEF TimesInv, ListsInv
<1>2. \A e \in Seqs :
        /\ inst[e].context_id \in Contexts /\ inst[e].kind \in Kinds
        /\ inst[e].addr \in Addrs /\ inst[e].physreg \in {NoReg} \cup Seqs
        /\ inst[e].src_physreg \in [{0, 1} -> {NoReg} \cup Seqs]
        /\ inst[e].in_LSQ \in BOOLEAN /\ inst[e].recover_inst \in BOOLEAN
  <2> SUFFICES ASSUME NEW e \in Seqs
               PROVE  /\ inst[e].context_id \in Contexts /\ inst[e].kind \in Kinds
                      /\ inst[e].addr \in Addrs /\ inst[e].physreg \in {NoReg} \cup Seqs
                      /\ inst[e].src_physreg \in [{0, 1} -> {NoReg} \cup Seqs]
                      /\ inst[e].in_LSQ \in BOOLEAN /\ inst[e].recover_inst \in BOOLEAN
    OBVIOUS
  <2>1. inst[e] \in InstType /\ WellFormed(e)
    BY <1>1, InstFacts
  <2>2. inst[e].physreg \in {NoReg} \cup Seqs
    BY <2>1 DEF WellFormed
  <2>3. inst[e].src_physreg \in [{0, 1} -> {NoReg} \cup Seqs]
    <3>1. inst[e].src_physreg \in [{0, 1} -> Nat]
      BY <2>1 DEF InstType
    <3>2. \A k \in {0, 1} : inst[e].src_physreg[k] \in {NoReg} \cup Seqs
      BY <2>1 DEF WellFormed
    <3> QED
      BY <3>1, <3>2
  <2> QED
    BY <2>1, <2>2, <2>3 DEF InstType
<1>3. /\ dispatched \subseteq Seqs /\ completed \subseteq Seqs /\ waiting_queue \subseteq Seqs
      /\ ready_queue \subseteq Seqs /\ Issuing \subseteq Seqs /\ Returning \subseteq Seqs
      /\ AllROB \subseteq Seqs
  BY <1>1, Home, ListFacts DEF Placement, Live
<1>4. queued \subseteq Seqs /\ issued \subseteq Seqs /\ in_IQ \subseteq Seqs
  BY <1>1, <1>3 DEF ListsInv, Listed, IssueQueueOK
<1>5. issue_exec_queue \subseteq Events /\ event_queue \subseteq Events
  <2>1. \A t \in 0 .. ISSUE_EXEC_DELAY : t \in 0 .. INF
    BY LatsAssumption, SizesAssumption DEF INF
  <2>2. \A t \in 0 .. LatMax : t \in 0 .. INF
    BY LatsAssumption, SizesAssumption DEF LatMax, INF
  <2> QED
    BY <1>1, <2>1, <2>2 DEF Clocked, Events
<1>6. exec_lat \in [Seqs -> 0 .. INF]
  <2>1. (0 .. LatMax) \subseteq 0 .. INF
    BY LatsAssumption, SizesAssumption DEF LatMax, INF
  <2> QED
    BY <1>1, <2>1 DEF Clocked
<1>7. iq \subseteq 0 .. IQSize - 1 /\ iq_entry_num \in [Seqs -> -1 .. IQSize - 1]
  BY <1>1 DEF ListsInv, IssueQueueOK
<1>8. ready \in [Seqs -> TimesSet] /\ spec_ready \in [Seqs -> TimesSet] /\ Bounds
  BY DEF TimesInv, Timed
<1>9. /\ stage \in {"commit", "writeback", "wakeup", "selection", "execute", "rename"}
      /\ turn \in Contexts
      /\ ROB \in [Contexts -> SUBSET Seqs] /\ LSQ \in [Contexts -> SUBSET Seqs]
  BY <1>1 DEF Clocked, Placement
<1> QED
  BY <1>2, <1>3, <1>4, <1>5, <1>6, <1>7, <1>8, <1>9 DEF TypeOK, Bounds

(* The state of the scheduler keeps its types: what is named anywhere is   *)
(* an entry that rename handed out, and times stay within their range.     *)
THEOREM TypeCorrect == Spec => []TypeOK
BY TimesInvariant, TimesInvTypes, PTL

(* A register is ready exactly when its writer has written it back: no     *)
(* entry begins execution with a value that is not there (execute,         *)
(* writeback).                                                             *)
THEOREM ReadyCorrect == Spec => []ReadyMeansWritten
<1>1. TimesInv => ReadyMeansWritten
  <2> SUFFICES ASSUME TimesInv, stage \notin {"commit", "writeback"},
                      NEW e \in Live, Dest(e) # NoReg, ~IsStore(e)
               PROVE  ready[Dest(e)] <= 0 <=> e \in completed
    BY DEF ReadyMeansWritten
  <2>1. e \in completed => ready[Dest(e)] <= 0
    BY DEF TimesInv, Timed
  <2>2. CASE e \notin issued
    <3>1. ready[Dest(e)] = INF /\ e \notin completed
      BY <2>2 DEF TimesInv, Timed, ListsInv, Listed
    <3> QED
      BY <3>1 DEF INF
  <2>3. CASE e \in Issuing
    <3>1. PICK x \in issue_exec_queue : x.rs = e
      BY <2>3 DEF Issuing, OnTheWay
    <3>2. ready[Dest(e)] = x.when + exec_lat[e] /\ x.when \in Nat /\ exec_lat[e] >= 1
      BY <3>1, SizesAssumption DEF TimesInv, Timed, ListsInv, Clocked
    <3>3. exec_lat[e] \in Nat /\ e \notin completed
      BY <2>3, <3>1, LatsAssumption, SizesAssumption DEF TimesInv, ListsInv, Clocked, Listed, LatMax, INF
    <3> QED
      BY <3>2, <3>3
  <2>4. CASE e \in Returning
    <3>1. PICK x \in event_queue : x.rs = e
      BY <2>4 DEF Returning, OnTheWay
    <3>2. ready[Dest(e)] = x.when /\ x.when >= 1 /\ x.when \in Nat /\ e \notin completed
      BY <2>4, <3>1, LatsAssumption, SizesAssumption
         DEF TimesInv, Timed, ListsInv, Clocked, Listed, LatMax, INF
    <3> QED
      BY <3>2
  <2> QED
    BY <2>1, <2>2, <2>3, <2>4 DEF TimesInv, ListsInv, Listed
<1> QED
  BY <1>1, TimesInvariant, PTL

(* A result comes back in the cycle its register was announced for, with   *)
(* its operands there, and selection takes only entries whose operands are *)
(* still expected (writeback, selection, replay).                          *)
THEOREM WritebackCorrect == Spec => []WritebackOnTime
<1>1. TimesInv => WritebackOnTime
  BY DEF TimesInv, Timed, Supplied, WritebackOnTime
<1> QED
  BY <1>1, TimesInvariant, PTL

(* With perfect knowledge of the latency of loads no entry that begins to  *)
(* execute is sent back: the assertion in the replay of execute holds.     *)
THEOREM ReplayCorrect == Spec => []NothingReplayed
<1>1. TimesInv => NothingReplayed
  <2> SUFFICES ASSUME TimesInv, recovery_model = "perfect",
                      NEW x \in issue_exec_queue, x.when <= 0
               PROVE  all_operands_ready(x.rs)
    BY DEF NothingReplayed
  <2>1. x.rs \in Seqs /\ x.when \in Nat /\ Reads(x.rs) \subseteq {0, 1}
    BY SizesAssumption, ReadsOperands DEF TimesInv, ListsInv, Clocked
  <2> SUFFICES ASSUME NEW k \in Reads(x.rs), inst[x.rs].src_physreg[k] # NoReg
               PROVE  ready[inst[x.rs].src_physreg[k]] <= 0
    BY DEF all_operands_ready, operand_ready
  <2>2. ready[inst[x.rs].src_physreg[k]] <= x.when
    BY DEF TimesInv, Exact
  <2>3. x.when = 0
    BY <2>1
  <2> QED
    BY <2>2, <2>3
<1> QED
  BY <1>1, TimesInvariant, PTL

-----------------------------------------------------------------------------
(* Commit in order *)

(* What an entry reads is there, or its writer is still before it in the   *)
(* reorder buffer of the context.                                          *)
InOrder ==
    \A e \in Live : \A k \in {0, 1} :
        LET r == inst[e].src_physreg[k]
        IN  r = NoReg \/ ready[r] <= 0 \/ r \in ROB[inst[e].context_id]

(* A value that is there stays there.                                      *)
LEMMA ValuesStay ==
    ASSUME TimesInv, [Next]_vars, NEW r \in Seqs, ready[r] <= 0
    PROVE  ready'[r] <= 0
<1>1. ASSUME Quiet PROVE ready'[r] <= 0
  BY <1>1 DEF Quiet
<1>2. ASSUME select_store \/ issue PROVE ready'[r] <= 0
  <2>1. PICK e, w, t : SetsOff(e, w, t)
    BY <1>2, select_storeSetsOff, issueSetsOff
  <2>2. Announces(e, w, t)
    BY <2>1 DEF SetsOff
  <2>3. /\ Dest(e) # NoReg => ready[Dest(e)] = INF
        /\ r # Dest(e) => ready'[r] = ready[r]
    BY <2>2, AnnounceFacts
  <2>4. r # NoReg
    BY InstFacts DEF TimesInv, ListsInv, Seqs, NoReg
  <2> QED
    BY <2>3, <2>4 DEF INF
<1>3. ASSUME replay PROVE ready'[r] <= 0
  <2>1. ready'[r] # ready[r] => ready[r] > 0
    BY <1>3, replayFacts
  <2>2. ready[r] \in TimesSet
    BY DEF TimesInv, Timed
  <2> QED
    BY <2>1, <2>2, TimesAreInts
<1>4. ASSUME next_cycle PROVE ready'[r] <= 0
  <2>1. ready[r] \in TimesSet /\ ready'[r] = Tick(ready[r])
    BY <1>4 DEF TimesInv, Timed, next_cycle
  <2> QED
    BY <2>1, Ticks DEF Past
<1>5. ASSUME Rename PROVE ready'[r] <= 0
  <2>1. PICK c, kind, src, n, k, stale : Appended(c, kind, src, n, k, stale)
    BY <1>5, RenameAppends DEF TimesInv
  <2> QED
    BY <2>1, AppendedTables
<1> QED
  BY <1>1, <1>2, <1>3, <1>4, <1>5, commitQuiet, writebackQuiet, ListsQuiet, executeQuiet,
     dispatchQuiet DEF Next, Pipeline, Idle

(* The oldest entry of a context, complete, has written its register.      *)
LEMMA CommitWrites ==
    ASSUME TimesInv, "store_c" \notin Kinds, NEW c \in Contexts, NEW e \in ROB[c],
           (IF ea_comp(e) THEN {e, AccessOf(e)} ELSE {e}) \subseteq completed,
           inst[e].physreg = e
    PROVE  ready[e] <= 0
<1>1. Records /\ Placement /\ e \in Seqs /\ e \in Nat /\ e # NoReg
  BY InstFacts DEF TimesInv, ListsInv, Placement, Seqs, NoReg
<1>2. ~inst[e].in_LSQ /\ WellFormed(e) /\ inst[e].kind \in Kinds /\ Kinds \subseteq {"alu", "branch", "nofu", "load", "store", "store_c"}
  BY <1>1, InstFacts, CoreFacts DEF Placement
<1>3. CASE ~ea_comp(e)
  <2>1. e \in completed /\ Dest(e) = e /\ ~IsStore(e)
    BY <1>2, <1>3 DEF Dest, IsStore
  <2> QED
    BY <1>1, <2>1 DEF TimesInv, Timed
<1>4. CASE ea_comp(e)
  <2> DEFINE a == AccessOf(e)
  <2>1. a \in completed /\ a \in LSQ[c]
    BY <1>1, <1>4 DEF Placement
  <2>2. inst[a].in_LSQ /\ a \in Seqs /\ a - 1 = e
    BY <1>1, <2>1 DEF Placement, AccessOf
  <2>3. inst[a].kind = inst[e].kind /\ WritesReg(inst[e].kind)
    <3>1. WellFormed(a)
      BY <1>1, <2>2, InstFacts
    <3>2. inst[a].kind = inst[e].kind
      BY <2>2, <3>1 DEF WellFormed
    <3> QED
      BY <1>1, <1>2, <3>2 DEF WellFormed
  <2>4. inst[e].kind = "load"
    BY <1>2, <1>4, <2>3 DEF ea_comp, WritesReg
  <2>5. inst[a].physreg = e
    BY <1>1, <2>2, <2>3, InstFacts DEF WellFormed
  <2>6. Dest(a) = e /\ ~IsStore(a)
    BY <2>2, <2>3, <2>4, <2>5 DEF Dest, ea_comp, IsStore
  <2> QED
    BY <1>1, <2>1, <2>6 DEF TimesInv, Timed
<1> QED
  BY <1>3, <1>4

LEMMA CommitInOrder ==
    ASSUME TimesInv, InOrder, "store_c" \notin Kinds, commit
    PROVE  InOrder' /\ \A e \in Live : e \notin Live' => all_operands_ready(e)
<1>1. PICK c \in Contexts : \E e \in ROB[c] :
             LET E == IF ea_comp(e) THEN {e, AccessOf(e)} ELSE {e}
             IN  /\ Closed(c, E) /\ Leave(c, E) /\ Cleared(E, {}) /\ E \subseteq completed
                 /\ \A f \in ROB[c] : e <= f
                 /\ stage = "commit" /\ UNCHANGED times
  BY commitFacts DEF TimesInv
<1>2. PICK e \in ROB[c] :
             LET E == IF ea_comp(e) THEN {e, AccessOf(e)} ELSE {e}
             IN  /\ Closed(c, E) /\ Leave(c, E) /\ Cleared(E, {}) /\ E \subseteq completed
                 /\ \A f \in ROB[c] : e <= f
                 /\ stage = "commit" /\ UNCHANGED times
  BY <1>1
<1> DEFINE E == IF ea_comp(e) THEN {e, AccessOf(e)} ELSE {e}
<1>3. /\ Closed(c, E) /\ Leave(c, E) /\ E \subseteq completed /\ \A f \in ROB[c] : e <= f
      /\ inst' = inst /\ ready' = ready
  BY <1>2 DEF Leave, times
<1>4. inst[e].physreg = e => ready[e] <= 0
  BY <1>3, CommitWrites
<1>5. \A f \in E : f = e \/ (ea_comp(e) /\ f = AccessOf(e))
  OBVIOUS
<1> HIDE DEF E
<1>6. Records /\ Placement
  BY DEF TimesInv, ListsInv
<1>7. Live' = Live \ E /\ \A d \in Contexts : ROB'[d] = ROB[d] \ E
  BY <1>3, <1>6, LeaveLive
<1>8. e \in Seqs /\ e \in Nat /\ e \in Live /\ inst[e].context_id = c
  BY <1>6, InstFacts, Home DEF Placement, Live
<1>9. ea_comp(e) => /\ AccessOf(e) \in Seqs /\ inst[AccessOf(e)].in_LSQ
                    /\ inst[AccessOf(e)].context_id = c
                    /\ inst[AccessOf(e)].src_physreg = inst[e].src_physreg
  <2> SUFFICES ASSUME ea_comp(e)
               PROVE  /\ AccessOf(e) \in Seqs /\ inst[AccessOf(e)].in_LSQ
                      /\ inst[AccessOf(e)].context_id = c
                      /\ inst[AccessOf(e)].src_physreg = inst[e].src_physreg
    OBVIOUS
  <2>1. /\ AccessOf(e) \in LSQ[c] /\ AccessOf(e) \in Seqs /\ inst[AccessOf(e)].in_LSQ
        /\ inst[AccessOf(e)].context_id = c
    BY <1>6 DEF Placement
  <2>2. AccessOf(e) - 1 = e
    BY <1>8 DEF AccessOf
  <2> QED
    BY <1>6, <2>1, <2>2, InstFacts DEF WellFormed
<1>10. ASSUME NEW f \in Live', NEW k \in {0, 1}, inst[f].src_physreg[k] # NoReg
       PROVE  \/ ready[inst[f].src_physreg[k]] <= 0
              \/ inst[f].src_physreg[k] \in ROB'[inst[f].context_id]
  <2> DEFINE r == inst[f].src_physreg[k]
             d == inst[f].context_id
  <2>1. f \in Live /\ f \in Seqs /\ d \in Contexts
    BY <1>6, <1>7, Home
  <2>2. r \in Seqs /\ inst[r].physreg = r /\ ~inst[r].in_LSQ
    BY <1>6, <1>10, <2>1, SourceFacts
  <2>3. ready[r] <= 0 \/ r \in ROB[d]
    BY <1>10, <2>1 DEF InOrder
  <2> HIDE DEF r, d
  <2>4. CASE r \in E
    BY <1>4, <1>5, <1>9, <2>2, <2>4 DEF r
  <2>5. CASE r \notin E
    BY <1>7, <2>1, <2>3, <2>5 DEF r, d
  <2> QED
    BY <2>4, <2>5
<1>11. InOrder'
  BY <1>3, <1>10 DEF InOrder
<1>12. ASSUME NEW f \in E PROVE all_operands_ready(f)
  <2>1. f \in Live /\ f \in Seqs /\ inst[f].context_id = c /\ inst[f].src_physreg = inst[e].src_physreg
    BY <1>3, <1>5, <1>6, <1>8, <1>9, Home DEF Placement
  <2>2. ASSUME NEW k \in {0, 1}, inst[e].src_physreg[k] # NoReg
        PROVE  ready[inst[e].src_physreg[k]] <= 0
    <3>1. inst[e].src_physreg[k] < e /\ inst[e].src_physreg[k] \in Nat
      BY <1>6, <1>8, <2>2, SourceFacts, InstFacts
    <3>2. inst[e].src_physreg[k] \notin ROB[c]
      BY <1>3, <1>8, <3>1
    <3> QED
      BY <1>8, <2>2, <3>2 DEF InOrder
  <2> QED
    BY <2>1, <2>2, ReadsOperands DEF all_operands_ready, operand_ready
<1> QED
  BY <1>7, <1>11, <1>12

LEMMA SquashInOrder ==
    ASSUME TimesInv, InOrder, writeback
    PROVE  InOrder'
<1>1. PICK ev \in event_queue :
             LET c == inst[ev.rs].context_id
                 E == IF inst[ev.rs].recover_inst THEN Younger(ev.rs) ELSE {}
             IN  /\ c \in Contexts /\ Closed(c, E) /\ Leave(c, E) /\ Cleared(E, {ev})
                 /\ ev.when <= 0 /\ ev.rs \notin E
                 /\ E = {} \/ (E = Younger(ev.rs) /\ ev.rs \in ROB[c])
                 /\ stage = "writeback" /\ UNCHANGED times
  BY writebackFacts DEF TimesInv
<1> DEFINE e == ev.rs
           c == inst[e].context_id
           E == IF inst[e].recover_inst THEN Younger(e) ELSE {}
<1>2. /\ c \in Contexts /\ Closed(c, E) /\ Leave(c, E)
      /\ E = {} \/ E = Younger(e)
      /\ inst' = inst /\ ready' = ready
  BY <1>1 DEF Leave, times
<1>3. e \in Nat /\ Records /\ Placement
  BY ListFacts DEF TimesInv, ListsInv
<1> HIDE DEF E, e
<1>4. Live' = Live \ E /\ \A d \in Contexts : ROB'[d] = ROB[d] \ E
  BY <1>2, <1>3, LeaveLive
<1>5. ASSUME NEW f \in Live', NEW k \in {0, 1}, inst[f].src_physreg[k] # NoReg
      PROVE  \/ ready[inst[f].src_physreg[k]] <= 0
             \/ inst[f].src_physreg[k] \in ROB'[inst[f].context_id]
  <2> DEFINE r == inst[f].src_physreg[k]
             d == inst[f].context_id
  <2>1. f \in Live /\ f \notin E /\ f \in Seqs /\ f \in Nat /\ d \in Contexts
    BY <1>3, <1>4, Home
  <2>2. r \in Seqs /\ r \in Nat /\ r < f /\ inst[r].context_id = d
    BY <1>3, <1>5, <2>1, SourceFacts, InstFacts
  <2>3. ready[r] <= 0 \/ r \in ROB[d]
    BY <1>5, <2>1 DEF InOrder
  <2> HIDE DEF r, d, c
  <2>4. CASE r \in E
    <3>1. r \in ROB[c] \cup LSQ[c] /\ r > e /\ inst[r].context_id = c
      BY <1>2, <1>3, <2>4 DEF Younger, Placement, c
    <3>2. f \in ROB[c] \cup LSQ[c] /\ f > e
      <4>1. f \in AllROB \/ f \in AllLSQ
        BY <2>1 DEF Live
      <4>2. f \in ROB[d] \cup LSQ[d]
        BY <1>3, <4>1, Home DEF d
      <4> QED
        BY <1>3, <2>1, <2>2, <3>1, <4>2
    <3> QED
      BY <1>2, <2>1, <2>4, <3>2 DEF Younger, c
  <2>5. CASE r \notin E
    BY <1>4, <2>1, <2>3, <2>5 DEF r, d
  <2> QED
    BY <2>4, <2>5
<1> QED
  BY <1>2, <1>5 DEF InOrder

LEMMA RenameInOrder ==
    ASSUME TimesInv, InOrder, Rename
    PROVE  InOrder'
<1>1. PICK c, kind, src, n, k, stale : Appended(c, kind, src, n, k, stale)
  BY RenameAppends DEF TimesInv
<1>2. c \in Contexts /\ src \in [{0, 1} -> Sources(c)] /\ Records /\ Placement
  BY <1>1 DEF Appended, TimesInv, ListsInv
<1>3. /\ Contexts' = Contexts
      /\ \A d \in Contexts : ROB[d] \subseteq ROB'[d]
      /\ Live' = Live \cup IF k = 2 THEN {n, n + 1} ELSE {n}
      /\ \A e \in Seqs : inst'[e] = inst[e]
      /\ \A e \in {n, n + 1} : e = n \/ k = 2 =>
            inst'[e].context_id = c /\ inst'[e].src_physreg = src
      /\ \A r \in Seqs : ready'[r] = ready[r]
  BY <1>1, AppendedPlacement, AppendedSame, AppendedSeqs, AppendedTables DEF TimesInv
<1>4. ASSUME NEW e \in Live', NEW q \in {0, 1}, inst'[e].src_physreg[q] # NoReg
      PROVE  \/ ready'[inst'[e].src_physreg[q]] <= 0
             \/ inst'[e].src_physreg[q] \in ROB'[inst'[e].context_id]
  <2>1. CASE e \in Live
    <3>1. e \in Seqs /\ inst[e].context_id \in Contexts /\ inst'[e] = inst[e]
      BY <1>2, <1>3, <2>1, Home
    <3>2. inst[e].src_physreg[q] \in Seqs
      BY <1>2, <1>4, <3>1, SourceFacts
    <3>3. \/ ready[inst[e].src_physreg[q]] <= 0
          \/ inst[e].src_physreg[q] \in ROB[inst[e].context_id]
      BY <1>4, <2>1, <3>1 DEF InOrder
    <3> QED
      BY <1>3, <3>1, <3>2, <3>3
  <2>2. CASE e \notin Live
    <3>1. inst'[e].context_id = c /\ inst'[e].src_physreg = src
      BY <1>3, <2>2
    <3>2. src[q] \in Sources(c) /\ src[q] # NoReg
      BY <1>2, <1>4, <3>1
    <3>3. src[q] \in ROB[c]
      BY <1>2, <3>2, SourceOf DEF TimesInv
    <3> QED
      BY <1>2, <1>3, <3>1, <3>3
  <2> QED
    BY <2>1, <2>2
<1> QED
  BY <1>4 DEF InOrder

LEMMA NextInOrder ==
    ASSUME TimesInv, InOrder, "store_c" \notin Kinds, [Next]_vars
    PROVE  /\ InOrder'
           /\ stage = "commit" => \A e \in Live : e \notin Live' => all_operands_ready(e)
<1>1. CASE commit
  BY <1>1, CommitInOrder
<1>2. CASE writeback
  BY <1>2, SquashInOrder DEF writeback
<1>3. CASE Rename
  <2>1. stage = "rename"
    BY <1>3 DEF Rename, register_rename
  <2> QED
    BY <1>3, <2>1, RenameInOrder
<1>4. CASE ~commit /\ ~writeback /\ ~Rename
  <2>1. core' = core /\ inst' = inst /\ ROB' = ROB /\ LSQ' = LSQ
    BY <1>4 DEF Next, Pipeline, commit_done, lsq_refresh, wakeup, select_store, issue, no_unit,
       selection_done, execute, replay, dispatch, dispatch_none, next_cycle, vars
  <2>2. Live' = Live
    BY <2>1, SameCore DEF Live, AllROB, AllLSQ
  <2>3. ASSUME NEW e \in Live', NEW k \in {0, 1}, inst[e].src_physreg[k] # NoReg
        PROVE  \/ ready'[inst[e].src_physreg[k]] <= 0
               \/ inst[e].src_physreg[k] \in ROB[inst[e].context_id]
    <3>1. e \in Live /\ e \in Seqs
      BY <2>2, Home DEF TimesInv, ListsInv
    <3>2. inst[e].src_physreg[k] \in Seqs
      BY <2>3, <3>1, SourceFacts DEF TimesInv, ListsInv
    <3> QED
      BY <2>3, <3>1, <3>2, ValuesStay DEF InOrder
  <2> QED
    BY <2>1, <2>2, <2>3 DEF InOrder
<1> QED
  BY <1>1, <1>2, <1>3, <1>4

(* On a core without conditional stores what commits had its operands: a   *)
(* store is complete as soon as they are expected, but it leaves in order, *)
(* after the entries that compute them (commit).                           *)
THEOREM CommitCorrect == Spec => CommitReady
<1> DEFINE Plain == "store_c" \notin Kinds
<1>1. Init => (Plain => InOrder)
  BY DEF Init, InOrder, Live, AllROB, AllLSQ
<1>2. ASSUME [Next]_vars PROVE Kinds' = Kinds
  <2>1. CASE Rename
    BY <2>1 DEF Rename, register_rename, Kinds
  <2>2. CASE commit
    BY <2>2 DEF commit, Kinds
  <2>3. CASE writeback
    BY <2>3 DEF writeback, Kinds
  <2>4. CASE ~Rename /\ ~commit /\ ~writeback
    BY <1>2, <2>4 DEF Next, Pipeline, commit_done, lsq_refresh, wakeup, select_store, issue,
       no_unit, selection_done, execute, replay, dispatch, dispatch_none, next_cycle, vars, Kinds
  <2> QED
    BY <2>1, <2>2, <2>3, <2>4
<1>3. TimesInv /\ (Plain => InOrder) /\ [Next]_vars => (Plain => InOrder)'
  BY <1>2, NextInOrder
<1>4. TimesInv /\ (Plain => InOrder) /\ [Next]_vars =>
        [stage = "commit" /\ Plain =>
           \A e \in Live : e \notin Live' => all_operands_ready(e)]_vars
  BY NextInOrder
<1> QED
  BY <1>1, <1>3, <1>4, TimesInvariant, PTL DEF Spec, CommitReady
=============================================================================
