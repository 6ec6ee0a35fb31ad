----------------------------- MODULE FileTable -----------------------------
(***************************************************************************)
(* The descriptors of the simulated programs (file_table.c) and the system *)
(* calls that use them (syscall.c).  A program names files by simulated    *)
(* descriptors; the table of its context maps each to a descriptor of the  *)
(* host process, which all contexts share.                                 *)
(*                                                                         *)
(* A table is a function of the simulated descriptors that have an entry.  *)
(* get_entry leaves an entry with descriptor -1 behind when nobody fills   *)
(* it in; such a table is "poisoned": the next look-up of an unknown       *)
(* descriptor fails an assertion.  Entries are "std" (FE_STANDARD_IO),     *)
(* "pipe" (FE_PIPE, sockets too) or "file".  Offsets, names and flags are  *)
(* left out; which free descriptor the host takes does not matter.         *)
(***************************************************************************)
EXTENDS Integers, FiniteSets, FiniteSetsExt, Functions

CONSTANT Settings  \* the settings tried, each a record of
                   \*   MaxContexts: contexts ever made
                   \*   MaxHost: largest descriptor of the host
                   \*   MaxFd: largest simulated descriptor programs name
                   \*   MaxCalls: bound on the calls made
                   \*   Dup2Fds: what they duplicate to with dup2
                   \*   HostFull: the host has no descriptor beyond MaxHost;
                   \*     FALSE: MaxHost only bounds the exploration
                   \*   Redirected: -redir:prog was given
                   \*   Calls: the system calls the programs make, out of open,
                   \*     close, dup, dup2, pipe, setfd ("mark 0-2": of these
                   \*     too), exec, fork, exit, kill, access, retry, and "bad",
                   \*     descriptors without an entry

VARIABLE setting   \* the one of a behaviour
MaxContexts == setting.MaxContexts
MaxHost == setting.MaxHost
MaxFd == setting.MaxFd
MaxCalls == setting.MaxCalls
Dup2Fds == setting.Dup2Fds
HostFull == setting.HostFull
Redirected == setting.Redirected
Calls == setting.Calls

VARIABLES
  table,     \* of each context, its entries: real_fd, kind, cloexec
  poisoned,  \* the contexts whose table has an entry with descriptor -1
  live,      \* the contexts whose program runs
  host,      \* the open descriptors of the host: what each is of
  touched,   \* the descriptor asked for and the host descriptor used by the
             \* last read, write, ..., <<>> if another call came after it
  error,     \* the assertion or the undefined value the simulator met
  calls      \* calls made so far

vars == <<setting, table, poisoned, live, host, touched, error, calls>>

Contexts == 1 .. MaxContexts
Fds == 0 .. MaxFd
HostFds == 0 .. MaxHost
Closed == -1                       \* what dup returns when it fails
Kinds == {"std", "pipe", "file"}

Entry(real, kind, cloexec) == [real |-> real, kind |-> kind, cloexec |-> cloexec]
Known(c, fd) == fd \in DOMAIN table[c]
-----------------------------------------------------------------------------
(* The host. *)
Free == HostFds \ DOMAIN host
HostRoom(n) == Cardinality(Free) >= n
Lowest(S) == Min(S)

(* The n lowest free descriptors, given to the members of S in some order. *)
Given(S) ==
  LET taken == CHOOSE T \in kSubset(Cardinality(S), Free) :
                 \A f \in Free \ T, t \in T : t < f
  IN CHOOSE f \in Bijection(S, taken) : TRUE

(* What f maps, and what g maps beside.                                    *)
Over(f, g) == [x \in DOMAIN f \cup DOMAIN g |-> IF x \in DOMAIN f THEN f[x] ELSE g[x]]
One(x, y) == [z \in {x} |-> y]

Opened(fds, kind) == Over(host, [h \in fds |-> kind])
HostClosed(fds) == [h \in DOMAIN host \ fds |-> host[h]]
-----------------------------------------------------------------------------
(* file_table.c *)

(* The lowest simulated descriptor without an entry, from a given one on. *)
lowest_avail_sim_fd(c, from) == Lowest({fd \in from .. MaxFd + 1 : ~Known(c, fd)})

(* closer closes on the host only what is marked beyond FE_STANDARD_IO.    *)
ClosesOnHost(e) == e.kind = "pipe" \/ e.cloexec

ClosedEntries(c, fds) ==
  HostClosed({table[c][fd].real : fd \in {f \in fds : ClosesOnHost(table[c][f])}})

Without(c, fds) == Restrict(table[c], DOMAIN table[c] \ fds)
With(t, fd, e) == Over(One(fd, e), t)

(* Leaves the host's descriptor to parent and child (for a mutant). *)
CopySharesPipes(c, fd, given) ==
  LET e == table[c][fd]
  IN CASE e.kind = "std"  -> [e EXCEPT !.real = given]
       [] e.kind = "pipe" -> e
       [] e.kind = "file" -> Entry(given, "file", FALSE)

(* copy_from: standard io and pipes are duplicated, files opened again by  *)
(* name, which loses FD_CLOEXEC.                                           *)
copy_from(c, fd, given) ==
  LET e == table[c][fd]
  IN CASE e.kind \in {"std", "pipe"} -> [e EXCEPT !.real = given]
       [] e.kind = "file"            -> Entry(given, "file", FALSE)
-----------------------------------------------------------------------------
(* The system calls of context c. *)
Quiet == touched' = <<>> /\ UNCHANGED error
Fails(e) == error' = e /\ touched' = <<>> /\ UNCHANGED <<table, poisoned, live, host>>

(* A host descriptor is there for the call, or the host says there is not. *)
Bounded(n) == HostRoom(n) \/ HostFull

(* opener: a failing open changes nothing. *)
open(c) ==
  /\ "open" \in Calls /\ Bounded(1)
  /\ IF ~HostRoom(1) THEN Quiet /\ UNCHANGED <<table, poisoned, live, host>>
     ELSE IF c \in poisoned THEN Fails("get_entry")
     ELSE IF table[c] = <<>> THEN Fails("handles.back")
     ELSE /\ LET fd == lowest_avail_sim_fd(c, 0)
             IN /\ fd <= MaxFd
                /\ table' = [table EXCEPT ![c] =
                     With(@, fd, Entry(Lowest(Free), "file", FALSE))]
          /\ host' = Opened({Lowest(Free)}, "file")
          /\ Quiet /\ UNCHANGED <<poisoned, live>>

(* closer: an unknown descriptor leaves its new entry behind. *)
close(c, fd) ==
  /\ "close" \in Calls
  /\ IF Known(c, fd)
     THEN /\ table' = [table EXCEPT ![c] = Without(c, {fd})]
          /\ host' = ClosedEntries(c, {fd})
          /\ Quiet /\ UNCHANGED <<poisoned, live>>
     ELSE /\ "bad" \in Calls
          /\ IF c \in poisoned THEN Fails("get_entry")
             ELSE /\ poisoned' = poisoned \cup {c}
                  /\ Quiet /\ UNCHANGED <<table, live, host>>

(* What dup and dup2 give a duplicate: all that the original has. *)
Duplicate(e, real) == [e EXCEPT !.real = real]

(* The result of dup on the host: a failure is not recognised, the test is *)
(* of 32 bits against 64.                                                  *)
DupReal == IF HostRoom(1) THEN Lowest(Free) ELSE Closed
DupHost(e, h) == IF HostRoom(1) THEN Over(host, One(Lowest(Free), h)) ELSE host

(* duper, for dup and fcntl(F_DUPFD).  Of a descriptor without an entry    *)
(* the look-up of the new one fails.                                       *)
duper(c, fd) ==
  /\ "dup" \in Calls /\ Bounded(1)
  /\ IF ~Known(c, fd) \/ c \in poisoned
     THEN "bad" \in Calls /\ Fails("get_entry")
     ELSE /\ LET e == table[c][fd]
                 new == lowest_avail_sim_fd(c, 0)
             IN /\ new <= MaxFd
                /\ table' = [table EXCEPT ![c] = With(@, new, Duplicate(e, DupReal))]
                /\ host' = DupHost(e, e.kind)
          /\ Quiet /\ UNCHANGED <<poisoned, live>>

(* dup2 closes the new descriptor first; when there is no entry to close   *)
(* the bogus one of closer is met two look-ups later.                      *)
dup2(c, old, new) ==
  /\ "dup2" \in Calls /\ Bounded(1)
  /\ IF ~Known(c, old) \/ ~Known(c, new) \/ old = new \/ c \in poisoned
     THEN "bad" \in Calls /\ Fails("get_entry")
     ELSE /\ LET e == table[c][old]
                 after == ClosedEntries(c, {new})
                 free == HostFds \ DOMAIN after
                 real == IF free = {} THEN Closed ELSE Lowest(free)
             IN /\ table' = [table EXCEPT ![c] =
                     With(Without(c, {new}), new, Duplicate(e, real))]
                /\ host' = IF free = {} THEN after ELSE Over(after, One(real, e.kind))
          /\ Quiet /\ UNCHANGED <<poisoned, live>>

(* insert: from the host's number upwards. *)
InsertedAs(c, real) == lowest_avail_sim_fd(c, real)

(* pipe (socket inserts one descriptor in the same way).  When the host    *)
(* has no descriptors the two numbers inserted are uninitialized.          *)
pipe(c) ==
  /\ "pipe" \in Calls /\ Bounded(2)
  /\ IF c \in poisoned THEN Fails("get_entry")
     ELSE IF ~HostRoom(2) THEN Fails("uninitialized")
     ELSE /\ LET r == Lowest(Free)
                 w == Lowest(Free \ {r})
                 simr == InsertedAs(c, r)
                 simw == Lowest({fd \in w .. MaxFd + 2 : ~Known(c, fd) /\ fd # simr})
             IN /\ {simr, simw} \subseteq Fds
                /\ table' = [table EXCEPT ![c] =
                     With(With(@, simr, Entry(r, "pipe", FALSE)), simw,
                          Entry(w, "pipe", FALSE))]
                /\ host' = Opened({r, w}, "pipe")
          /\ Quiet /\ UNCHANGED <<poisoned, live>>

(* fcntl(F_SETFD): only ever sets the bit. *)
setfd_cloexec(c, fd) ==
  /\ "setfd" \in Calls
  /\ Known(c, fd) /\ table[c][fd].real \in 0 .. 2 => "mark 0-2" \in Calls
  /\ IF Known(c, fd)
     THEN /\ table' = [table EXCEPT ![c][fd].cloexec = TRUE]
          /\ Quiet /\ UNCHANGED <<poisoned, live, host>>
     ELSE /\ "bad" \in Calls
          /\ IF c \in poisoned THEN Fails("get_entry")
             ELSE Quiet /\ UNCHANGED <<table, poisoned, live, host>>

(* Leaves the host's descriptors open (for a mutant). *)
ExecForgets(c) ==
  /\ "exec" \in Calls
  /\ table' = [table EXCEPT ![c] = Without(c, {fd \in DOMAIN table[c] : table[c][fd].cloexec})]
  /\ Quiet /\ UNCHANGED <<poisoned, live, host>>

(* execve: handle_cloexec. *)
handle_cloexec(c) ==
  /\ "exec" \in Calls
  /\ LET marked == {fd \in DOMAIN table[c] : table[c][fd].cloexec}
     IN /\ table' = [table EXCEPT ![c] = Without(c, marked)]
        /\ host' = ClosedEntries(c, marked)
  /\ Quiet /\ UNCHANGED <<poisoned, live>>

(* fork: the files in gone cannot be opened again (removed, or made with   *)
(* O_EXCL) and the child goes without.                                     *)
fork(c, gone) ==
  LET child == Max(live \cup {0}) + 1
      kept == DOMAIN table[c] \ gone
  IN /\ "fork" \in Calls
     /\ child \in Contexts /\ \A d \in Contexts : d >= child => table[d] = <<>>
     /\ gone \subseteq {fd \in DOMAIN table[c] : table[c][fd].kind = "file"}
     /\ HostRoom(Cardinality(kept))
     /\ IF c \in poisoned THEN Fails("get_entry")
        ELSE /\ LET given == Given(kept)
                    copied == [fd \in kept |-> copy_from(c, fd, given[fd])]
                IN /\ table' = [table EXCEPT ![child] = copied]
                   /\ host' = Over(host, [h \in Range(given) |->
                                table[c][CHOOSE fd \in kept : given[fd] = h].kind])
             /\ live' = live \cup {child}
             /\ Quiet /\ UNCHANGED poisoned

(* exit, exit_group: closeall closes every host descriptor but 0, 1, 2. *)
exit(c) ==
  /\ "exit" \in Calls
  /\ host' = HostClosed({table[c][fd].real : fd \in DOMAIN table[c]} \ {0, 1, 2})
  /\ live' = live \ {c}
  /\ Quiet /\ UNCHANGED <<table, poisoned>>

(* kill, thread_kill: the descriptors stay open. *)
kill(c) ==
  /\ "kill" \in Calls
  /\ live' = live \ {c}
  /\ Quiet /\ UNCHANGED <<table, poisoned, host>>

(* read, write, lseek, ...: require_redirect leaves the number of an       *)
(* unknown descriptor as it is.                                            *)
Redirect(c, fd) == IF Known(c, fd) THEN table[c][fd].real ELSE fd

access(c, fd) ==
  /\ \/ "access" \in Calls /\ touched' = <<c, fd, Redirect(c, fd)>>
     (* EAGAIN: -1 was added to the descriptor as well *)
     \/ "retry" \in Calls /\ Known(c, fd) /\ touched' = <<c, fd, Redirect(c, fd) - 1>>
  /\ Known(c, fd) \/ "bad" \in Calls
  /\ UNCHANGED <<table, poisoned, live, host, error>>
-----------------------------------------------------------------------------
(* file_table_t, reassign: 0, 1 and 2, the second one perhaps redirected   *)
(* to the file the simulator opened for the output of all programs.        *)
FirstTable ==
  [fd \in 0 .. 2 |-> IF fd = 1 /\ Redirected THEN Entry(3, "file", FALSE)
                     ELSE Entry(fd, "std", FALSE)]

(* Programs on the command line; the others are forked. *)
Programs == IF "fork" \in Calls THEN {1} ELSE Contexts

Init ==
  /\ setting \in Settings
  /\ table = [c \in Contexts |-> IF c \in Programs THEN FirstTable ELSE <<>>]
  /\ poisoned = {} /\ live = Programs
  /\ host = [h \in IF Redirected THEN 0 .. 3 ELSE 0 .. 2 |-> "sim"]
  /\ touched = <<>> /\ error = "none" /\ calls = 0

Next ==
  /\ UNCHANGED setting
  /\ error = "none" /\ calls < MaxCalls /\ calls' = calls + 1
  /\ \E c \in live :
       \/ open(c) \/ pipe(c) \/ handle_cloexec(c) \/ exit(c) \/ kill(c)
       \/ \E gone \in SUBSET DOMAIN table[c] : fork(c, gone)
       \/ \E fd \in Fds : \/ close(c, fd) \/ duper(c, fd) \/ setfd_cloexec(c, fd)
                          \/ access(c, fd)
                          \/ \E new \in Dup2Fds : dup2(c, fd, new)

Spec == Init /\ [][Next]_vars
-----------------------------------------------------------------------------
Entries == {e \in live \X Fds : Known(e[1], e[2])}
RealOf(e) == table[e[1]][e[2]].real

(* Type invariant; numbers below 0 are touched by retries of low ones.     *)
TypeOK ==
  /\ \A c \in Contexts : \A fd \in DOMAIN table[c] :
       fd \in Fds /\ table[c][fd] \in [real : HostFds \cup {Closed}, kind : Kinds,
                                       cloexec : BOOLEAN]
  /\ poisoned \subseteq Contexts /\ live \subseteq Contexts
  /\ DOMAIN host \subseteq HostFds /\ \A h \in DOMAIN host : host[h] \in Kinds \cup {"sim"}
  /\ touched # <<>> => touched \in Contexts \X Fds \X (Closed - 1 .. Max({MaxHost, MaxFd}))

(* Every entry has an open descriptor of the host, and one of its own      *)
(* unless it is one the simulator opened for all programs: nothing one     *)
(* program closes is what another one uses (closer, closeall, copy_from).  *)
OwnHostFiles ==
  /\ \A e \in Entries : RealOf(e) \in DOMAIN host
  /\ \A e, f \in Entries : RealOf(e) = RealOf(f) => e = f \/ host[RealOf(e)] = "sim"

(* An end of a pipe is open on the host exactly while a program has a      *)
(* descriptor for it, so that a reader sees the end of the file when the   *)
(* last writer is gone (closer, handle_cloexec, closeall).                 *)
PipeEnds ==
  {h \in DOMAIN host : host[h] = "pipe"} =
    {RealOf(e) : e \in {f \in Entries : table[f[1]][f[2]].kind = "pipe"}}

(* A descriptor of the host is left open and out of reach of every program *)
(* only by the close, also that of dup2, of an entry that the table forgets *)
(* and nothing closes on the host (closer), by a kill, and by an exit that  *)
(* takes a reused 0, 1 or 2 for the simulator's (closeall).                *)
Orphans == {h \in DOMAIN host : host[h] # "sim" /\ \A e \in Entries : RealOf(e) # h}
Forgotten(c) == {table[c][fd].real : fd \in {f \in DOMAIN table[c] :
                   ~ClosesOnHost(table[c][f]) /\ With(table'[c], f, table[c][f]) # table'[c]}}
OrphanedOnlyByClose ==
  [][\A h \in Orphans' \ Orphans :
       \/ \E c \in live : h \in Forgotten(c)
       \/ live' # live /\ (host' = host \/ h \in 0 .. 2)]_vars

(* The descriptors that the simulator opened stay open until a program     *)
(* marks one and runs execve or closes it, or until one that has it under  *)
(* another number, as with -redir:prog, exits (closer, closeall).          *)
SimulatorsOwn ==
  [][\A h \in DOMAIN host \ DOMAIN host' : host[h] = "sim" =>
       \/ \E e \in Entries : RealOf(e) = h /\ table[e[1]][e[2]].cloexec
       \/ h > 2 /\ live' # live]_vars
=============================================================================
