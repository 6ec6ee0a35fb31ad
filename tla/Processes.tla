----------------------------- MODULE Processes -----------------------------
(***************************************************************************)
(* The processes of the simulated programs: the list of pid_handler_t      *)
(* (pid.c), the system calls that make and end processes and wait for them *)
(* (fork, exit, kill, wait4, select in syscall.c), the binding of contexts *)
(* to the places of a core (addcontext, ejectcontext in cmp.c) and the two *)
(* loops that run contexts and wake those that wait: the fast-forward loop *)
(* of sim_main and the loop of register_rename.                            *)
(*                                                                         *)
(* Pids are the positions 1, 2, ... in p_list (next_pid is stepped with    *)
(* it); contexts and places of a core are numbered from 1.  The five       *)
(* resources a core has per place (predictor, load latency predictor, ROB, *)
(* LSQ and IFQ size) move together and are one resource here, named by the *)
(* core and its first place.                                               *)
(***************************************************************************)
EXTENDS Integers, Sequences, SequencesExt, FiniteSets, Functions

CONSTANT Machines       \* the machines tried, each a record of
                        \*   Cores: number of cores
                        \*   MaxContexts: max_contexts, the places of a core
                        \*   Programs: contexts there are at the start
                        \*   MaxPids: bound on processes ever made
                        \*   Check: next_check of a select that failed
                        \*   KillKinds: the ways processes are killed, out of
                        \*     "kill", "group", "zero", "thread"
                        \*   FastForward: fastfwd_cnt of each program
                        \*   CycleBound: sim_cycle is kept modulo a number that
                        \*     the length of every list divides

VARIABLE machine        \* the one of a behaviour
Cores == machine.Cores
MaxContexts == machine.MaxContexts
Programs == machine.Programs
MaxPids == machine.MaxPids
Check == machine.Check
KillKinds == machine.KillKinds
FastForward == machine.FastForward
CycleBound == machine.CycleBound

None == 0               \* no pid, no core, no one waited for
AnyChild == -1          \* what wait4 is asked to wait for

VARIABLES
  contexts,     \* the contexts: pid, core_id, pred, waiting_for while the
                \* wait4 interrupt is set, next_check while the select
                \* interrupt is set, the wait4 to issue again, fastfwd_left
  context_ids,  \* of each core, the contexts attached to it
  pred,         \* of each core, its resources by place
  pred_list,    \* of each core, the context that has each place
  plist,        \* p_list of the pid handler
  mode,         \* "fast" (fast-forward loop) or "timing" (main loop)
  left, at,     \* contexts_left and the position the loop is at
  core,         \* the core that renames
  renamed,      \* n_renamed > 0
  cycle,        \* sim_cycle, as far as positions depend on it
  error         \* how the simulator left the defined behaviour

vars == <<machine, contexts, context_ids, pred, pred_list, plist, mode, left, at, core,
          renamed, cycle, error>>
held == <<context_ids, pred, pred_list>>
loop == <<mode, left, at, core, renamed, cycle>>

PidBound == Max({m.MaxPids : m \in Machines})
CoreSet == 1 .. Cores
Places == 1 .. MaxContexts
Ids == 1 .. Len(contexts)
Pids == 1 .. Len(plist)

Interrupted(c) == contexts[c].waiting # None \/ contexts[c].check > 0
-----------------------------------------------------------------------------
(* addcontext: the context takes the first place that is free. *)
AddLocation(k) == Len(context_ids[k]) + 1

HasRoom(k) == Len(context_ids[k]) < MaxContexts

(* The first core with room for a forked context, none if all are full. *)
CoreForFork ==
  IF \E k \in CoreSet : HasRoom(k)
  THEN CHOOSE k \in CoreSet : HasRoom(k) /\ \A l \in 1 .. k - 1 : ~HasRoom(l)
  ELSE None

Attached(k, c) ==
  /\ context_ids' = [context_ids EXCEPT ![k] = Append(@, c)]
  /\ pred_list' = [pred_list EXCEPT ![k][AddLocation(k)] = c]
  /\ UNCHANGED pred

(* Forgets to move the resource with the list (for a mutant). *)
EjectKeepsPred(c) ==
  LET k == contexts[c].core
      index == CHOOSE i \in DOMAIN context_ids[k] : context_ids[k][i] = c
  IN /\ context_ids' = [context_ids EXCEPT ![k] = RemoveAt(@, index)]
     /\ pred' = pred
     /\ pred_list' = [pred_list EXCEPT ![k] = Append(RemoveAt(@, index), None)]

(* Shortens the list of contexts by place (for a mutant). *)
EjectDropsPlace(c) ==
  LET k == contexts[c].core
      index == CHOOSE i \in DOMAIN context_ids[k] : context_ids[k][i] = c
  IN /\ context_ids' = [context_ids EXCEPT ![k] = RemoveAt(@, index)]
     /\ pred' = [pred EXCEPT ![k] = Append(RemoveAt(@, index), @[index])]
     /\ pred_list' = [pred_list EXCEPT ![k] = RemoveAt(@, index)]

(* ejectcontext: the places behind move up, the freed resource goes last. *)
Ejected(c) ==
  LET k == contexts[c].core
      index == CHOOSE i \in DOMAIN context_ids[k] : context_ids[k][i] = c
  IN /\ context_ids' = [context_ids EXCEPT ![k] = RemoveAt(@, index)]
     /\ pred' = [pred EXCEPT ![k] = Append(RemoveAt(@, index), @[index])]
     /\ pred_list' = [pred_list EXCEPT ![k] = Append(RemoveAt(@, index), None)]
-----------------------------------------------------------------------------
(* pid.c.  get_entry is the identity on the pids of the list. *)
Process(parent) == [alive |-> TRUE, parent |-> parent, children |-> <<>>]

kill_pid(list, pid) ==
  IF pid \in DOMAIN list THEN [list EXCEPT ![pid].alive = FALSE] ELSE list

(* get_new_pid and add_child, as fork calls them. *)
ForkedList(pid) ==
  Append([plist EXCEPT ![pid].children = Append(@, Len(plist) + 1)],
         Process(pid))

(* Hands over children that still run (for a mutant). *)
ReapableRunning(pid, who) ==
  {i \in DOMAIN plist[pid].children : who \in {AnyChild, plist[pid].children[i]}}

(* Where the children are that get_retval looks for: the one asked for, or *)
(* all that have ended, of which it hands over the first.                  *)
Reapable(pid, who) ==
  LET children == plist[pid].children
  IN {i \in DOMAIN children : who \in {AnyChild, children[i]} /\ ~plist[children[i]].alive}

FirstReapable(pid, who) ==
  CHOOSE i \in Reapable(pid, who) : \A o \in Reapable(pid, who) : i <= o

NoChildren(pid, who) == who = AnyChild /\ plist[pid].children = <<>>
get_retval(pid, who) == Reapable(pid, who) # {} \/ NoChildren(pid, who)

(* is_retval_avail: a named child that has ended counts even if it was     *)
(* handed over before.                                                     *)
is_retval_avail(pid, who) ==
  IF who = AnyChild
  THEN \/ plist[pid].children = <<>>
       \/ \E ch \in ToSet(plist[pid].children) : ~plist[ch].alive
  ELSE plist[who].parent = pid /\ ~plist[who].alive

(* A context that has ended, with pid 0, has no entry in the list. *)
Available(c) == /\ contexts[c].pid # None
                /\ is_retval_avail(contexts[c].pid, contexts[c].waiting)
-----------------------------------------------------------------------------
(* The system calls of context c, which has no interrupt pending; cs are   *)
(* the contexts with c's instruction counted.  A forked context does not   *)
(* count it.                                                               *)

(* The child is a copy of its parent; it wakes with nothing pending. *)
fork(cs, c) ==
  LET k == CoreForFork
      id == Len(contexts) + 1
      place == AddLocation(k)
  IN /\ Len(plist) < MaxPids
     /\ IF k = None
        THEN contexts' = cs /\ UNCHANGED <<held, plist>>         \* EAGAIN
        ELSE /\ Attached(k, id)
             /\ contexts' = Append(cs,
                  [contexts[c] EXCEPT !.pid = Len(plist) + 1, !.core = k,
                                      !.pred = pred[k][place]])
             /\ plist' = ForkedList(contexts[c].pid)
     /\ UNCHANGED error

(* exit and exit_group. *)
exit(cs, c) ==
  /\ plist' = kill_pid(plist, contexts[c].pid)
  /\ Ejected(c)
  /\ contexts' = [cs EXCEPT ![c].pid = None, ![c].core = None]
  /\ UNCHANGED error

(* kill and thread_kill.  The first context with the pid loses its place;  *)
(* the pid handler is told the argument as it came: the negative number, 0 *)
(* or, for thread_kill, an address, which it does not know.  A kill of 0   *)
(* takes the first context, and one that has ended has no core to be       *)
(* flushed from.                                                           *)
kill(cs, killwho, told) ==
  LET victims == {i \in Ids : killwho = 0 \/ contexts[i].pid = killwho}
      v == CHOOSE i \in victims : \A o \in victims : i <= o
  IN IF victims = {} THEN contexts' = cs /\ UNCHANGED <<held, plist, error>>
     ELSE IF contexts[v].core = None
     THEN error' = "flush" /\ contexts' = cs /\ UNCHANGED <<held, plist>>
     ELSE /\ Ejected(v)
          /\ plist' = kill_pid(plist, told)
          /\ contexts' = [cs EXCEPT ![v].pid = None, ![v].core = None]
          /\ UNCHANGED error

Kill(cs, kind) ==
  CASE kind = "kill"   -> \E p \in Pids : kill(cs, p, p)
    [] kind = "group"  -> \E p \in Pids : kill(cs, p, -p)
    [] kind = "thread" -> \E p \in Pids : kill(cs, p, None)
    [] kind = "zero"   -> kill(cs, 0, 0)

(* wait4 issues itself again later when there is nothing to collect. *)
wait4(cs, c, who) ==
  LET pid == contexts[c].pid
  IN /\ IF ~get_retval(pid, who)
        THEN /\ contexts' = [cs EXCEPT ![c].waiting = who,
                                             ![c].retry = who]
             /\ UNCHANGED plist
        ELSE /\ contexts' = [cs EXCEPT ![c].retry = None]
             /\ plist' = IF Reapable(pid, who) = {} THEN plist    \* ECHILD
                         ELSE [plist EXCEPT ![pid].children =
                                 RemoveAt(@, FirstReapable(pid, who))]
     /\ UNCHANGED <<held, error>>

(* select on descriptors that are not ready is tried again after a while;  *)
(* one that is ready, or that fails once too often, returns.               *)
select(cs, c) ==
  /\ contexts' = [cs EXCEPT ![c].check = Check]
  /\ UNCHANGED <<held, plist, error>>

Other(cs) == contexts' = cs /\ UNCHANGED <<held, plist, error>>

(* The next instruction of a context that was sent back to a wait4. *)
Syscall(cs, c) ==
  IF contexts[c].retry # None THEN wait4(cs, c, contexts[c].retry)
  ELSE \/ fork(cs, c)
       \/ exit(cs, c)
       \/ \E kind \in KillKinds : Kill(cs, kind)
       \/ \E who \in Pids \cup {AnyChild} : wait4(cs, c, who)
       \/ select(cs, c)
       \/ Other(cs)
-----------------------------------------------------------------------------
(* The fast-forward loop of sim_main. *)

Fast(cs, c) == cs[c].fast # 0 /\ cs[c].pid # None

(* continue_fastfwd returns at the first context that is to go on, so that *)
(* only those in front of it are dropped.                                  *)
continue_fastfwd(cs, list) ==
  LET firsts == {i \in DOMAIN list : Fast(cs, list[i])}
  IN IF firsts = {} THEN <<>>
     ELSE SubSeq(list, CHOOSE i \in firsts : \A o \in firsts : i <= o, Len(list))

(* Forked contexts join at the end of a pass. *)
Joined == left \o [i \in 1 .. Len(contexts) - Last(left) |-> Last(left) + i]

(* fastfwd_left of one turn; once negative it stays so. *)
Spent(n) == IF n < 0 THEN n ELSE n - 1
Counted(cs, c) == [cs EXCEPT ![c].fast = Spent(@)]

FastTurn(c) == mode = "fast" /\ error = "none" /\ at <= Len(left) /\ left[at] = c
Advanced == at' = at + 1 /\ UNCHANGED <<mode, left, core, renamed, cycle>>

(* One that waits in vain or for its select spends a turn. *)
FastWait(c) ==
  /\ FastTurn(c)
  /\ \/ /\ contexts[c].waiting # None /\ ~Available(c)
        /\ contexts' = Counted(contexts, c)
     \/ /\ contexts[c].check > 1
        /\ contexts' = Counted([contexts EXCEPT ![c].check = @ - 1], c)
  /\ Advanced
  /\ UNCHANGED <<held, plist, error>>

(* One that is woken first runs the instruction before its wait4 again. *)
FastWake(c) ==
  /\ FastTurn(c) /\ contexts[c].pid # None
  /\ (contexts[c].waiting # None /\ Available(c)) \/ contexts[c].check = 1
  /\ contexts' = Counted([contexts EXCEPT ![c].waiting = None, ![c].check = 0], c)
  /\ Advanced
  /\ UNCHANGED <<held, plist, error>>

FastRun(c) ==
  /\ FastTurn(c) /\ contexts[c].pid # None /\ ~Interrupted(c)
  /\ Syscall([contexts EXCEPT ![c].fast = Spent(@)], c)
  /\ Advanced

(* A context that has ended is still in the list when one before it goes   *)
(* on, and is run on the caches of core -1.                                *)
FastRunDetached(c) ==
  /\ FastTurn(c) /\ contexts[c].pid = None
  /\ contexts[c].waiting = None /\ contexts[c].check <= 1
  /\ error' = "run"
  /\ UNCHANGED <<contexts, held, plist, loop>>

FastPass ==
  /\ mode = "fast" /\ error = "none" /\ at > Len(left)
  /\ left' = continue_fastfwd(contexts, Joined) /\ at' = 1
  /\ mode' = IF left' = <<>> THEN "timing" ELSE "fast"
  /\ UNCHANGED <<contexts, held, plist, core, renamed, cycle, error>>
-----------------------------------------------------------------------------
(* The main loop: register_rename of each core in turn. *)
Timing == mode = "timing" /\ error = "none"

(* The next core begins at the position the cycle gives. *)
RenameStart ==
  /\ Timing /\ left = <<>> /\ core < Cores
  /\ core' = core + 1
  /\ left' = context_ids[core + 1]
  /\ at' = IF left' = <<>> THEN 1 ELSE (cycle % Len(left')) + 1
  /\ renamed' = FALSE
  /\ UNCHANGED <<contexts, held, plist, mode, cycle, error>>

CycleEnd ==
  /\ Timing /\ left = <<>> /\ core = Cores
  /\ \E k \in CoreSet : context_ids[k] # <<>>
  /\ core' = 0 /\ cycle' = (cycle + 1) % CycleBound
  /\ UNCHANGED <<contexts, held, plist, mode, left, at, renamed, error>>

(* decode_width, which is taken to be positive, is used up. *)
RenameStop ==
  /\ Timing /\ left # <<>> /\ renamed
  /\ left' = <<>>
  /\ UNCHANGED <<contexts, held, plist, mode, at, core, renamed, cycle, error>>

Here == ((at - 1) % Len(left)) + 1
Dropped == left' = RemoveAt(left, Here) /\ at' = Here /\ UNCHANGED <<mode, core, cycle>>

(* Always looks at the first context (for a mutant). *)
LookedFirst == 1
(* The interrupts looked at are those of the context whose NUMBER is the   *)
(* position in the list.                                                   *)
Looked == Here

StillWaits(c) == contexts[c].waiting # None /\ ~Available(c)
StillSelects(c) == contexts[c].check > 1

RenameWait ==
  /\ Timing /\ left # <<>> /\ UNCHANGED renamed
  /\ \/ StillWaits(Looked) /\ UNCHANGED contexts
     \/ /\ StillSelects(Looked)
        /\ contexts' = [contexts EXCEPT ![Looked].check = @ - 1]
  /\ Dropped
  /\ UNCHANGED <<held, plist, error>>

RenameWake ==
  /\ Timing /\ left # <<>>
  /\ Interrupted(Looked) /\ ~StillWaits(Looked) /\ ~StillSelects(Looked)
  /\ contexts' = [contexts EXCEPT ![Looked].waiting = None, ![Looked].check = 0]
  /\ UNCHANGED <<held, plist, error, loop>>

(* The context at the position renames instructions until it cannot go on: *)
(* a trap waits for an empty ROB, so there is one system call in a cycle.  *)
(* A context with interrupts has not been fetched from.                    *)
RenameRun ==
  /\ Timing /\ left # <<>> /\ ~Interrupted(Looked)
  /\ LET c == left[Here]
     IN IF contexts[c].pid # None /\ ~Interrupted(c)
        THEN Syscall(contexts, c) /\ renamed' = TRUE
        ELSE Other(contexts) /\ UNCHANGED renamed
  /\ Dropped
-----------------------------------------------------------------------------
Start(c) == [pid |-> c, core |-> ((c - 1) % Cores) + 1,
             pred |-> <<((c - 1) % Cores) + 1, ((c - 1) \div Cores) + 1>>,
             waiting |-> None, check |-> 0, retry |-> None, fast |-> FastForward[c]]

(* The programs of the command line go to the cores in turn. *)
Loaded(k, l) == (l - 1) * Cores + k

Init ==
  /\ machine \in Machines
  /\ contexts = [c \in 1 .. Programs |-> Start(c)]
  /\ context_ids = [k \in CoreSet |->
       [l \in {i \in Places : Loaded(k, i) <= Programs} |-> Loaded(k, l)]]
  /\ pred = [k \in CoreSet |-> [l \in Places |-> <<k, l>>]]
  /\ pred_list = [k \in CoreSet |-> [l \in Places |->
       IF l \in DOMAIN context_ids[k] THEN context_ids[k][l] ELSE None]]
  /\ plist = [c \in 1 .. Programs |-> Process(None)]
  /\ mode = "fast" /\ left = [c \in 1 .. Programs |-> c] /\ at = Programs + 1
  /\ core = 0 /\ renamed = FALSE /\ cycle = 0 /\ error = "none"

Next ==
  /\ UNCHANGED machine
  /\ \/ \E c \in Ids : FastWait(c) \/ FastWake(c) \/ FastRun(c) \/ FastRunDetached(c)
     \/ FastPass
     \/ RenameStart \/ CycleEnd \/ RenameStop \/ RenameWait \/ RenameWake \/ RenameRun

Spec == Init /\ [][Next]_vars

(* Both loops run on by themselves. *)
FairSpec == Spec /\ WF_vars(Next)
-----------------------------------------------------------------------------
(* Type invariant: the contexts, places and processes are those of the     *)
(* constants, and the list of a pass names contexts.                       *)
TypeOK ==
  /\ contexts \in Seq([pid : 0 .. MaxPids, core : 0 .. Cores,
                       pred : CoreSet \X Places, waiting : -1 .. MaxPids,
                       check : 0 .. Check, retry : -1 .. MaxPids, fast : Int])
  /\ \A k \in CoreSet : /\ context_ids[k] \in Seq(Ids)
                        /\ Len(context_ids[k]) <= MaxContexts
                        /\ DOMAIN pred[k] = Places /\ DOMAIN pred_list[k] = Places
  /\ plist \in Seq([alive : BOOLEAN, parent : 0 .. MaxPids, children : Seq(Nat)])
  /\ ToSet(left) \subseteq Ids

(* A context with a pid has one place on one core, the one its core_id     *)
(* names, and holds the resource of that place; no two contexts share a    *)
(* resource, whatever was ejected from in front of them (ejectcontext      *)
(* rotates ten lists by hand).                                             *)
PlacesAgree ==
  /\ \A c \in Ids :
       IF contexts[c].pid = None THEN \A k \in CoreSet : c \notin ToSet(context_ids[k])
       ELSE \E l \in Places :
              LET k == contexts[c].core
              IN /\ l <= Len(context_ids[k]) /\ context_ids[k][l] = c
                 /\ contexts[c].pred = pred[k][l] /\ pred_list[k][l] = c
  /\ \A k \in CoreSet :
       /\ IsInjective(context_ids[k]) /\ IsInjective(pred[k])
       /\ \A l \in Places : l > Len(context_ids[k]) => pred_list[k][l] = None

(* A process is alive exactly while a context runs it, so that a parent    *)
(* waits neither for one that is gone nor gets the status of one that      *)
(* still runs (exit and kill tell the pid handler and the core).           *)
AliveMatches ==
  \A p \in Pids : plist[p].alive <=> \E c \in Ids : contexts[c].pid = p

(* Every child is on the list of its parent alone, once, until its status  *)
(* was handed over, which is after its end (get_retval erases it).         *)
Families ==
  \A p, q \in Pids :
    /\ IsInjective(plist[p].children)
    /\ q \in ToSet(plist[p].children) => plist[q].parent = p
    /\ plist[q].parent = p /\ plist[q].alive => q \in ToSet(plist[p].children)

(* A context that waits for a child that has ended is woken, or ends.      *)
WaitReady(c) == /\ c \in Ids /\ contexts[c].pid # None /\ contexts[c].waiting # None
                /\ Available(c) /\ error = "none"
Woken == \A c \in 1 .. PidBound : WaitReady(c) ~> ~WaitReady(c)

(* One whose number is its position on its core is woken (the loop of      *)
(* register_rename comes to every position).                               *)
InPlace(c) == /\ contexts[c].core # None
              /\ c \in DOMAIN context_ids[contexts[c].core]
              /\ context_ids[contexts[c].core][c] = c
WokenInPlace ==
  \A c \in 1 .. PidBound :
    (WaitReady(c) /\ InPlace(c)) ~> (~WaitReady(c) \/ ~InPlace(c))
=============================================================================
