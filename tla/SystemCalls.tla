---------------------------- MODULE SystemCalls -----------------------------
(***************************************************************************)
(* What sys_syscall (syscall.c) makes of the other system calls: which     *)
(* descriptor of the host a call is made on, what the program's buffer     *)
(* holds afterwards, and the answer in V0 and A3 (A3 # 0: an error, its    *)
(* number in V0).  All programs share the errno of the host process.       *)
(*                                                                         *)
(* The tables of descriptors stand still here (FileTable moves them).  A   *)
(* buffer is of Size cells, each "old", "new" (from the host), "zero" or   *)
(* "junk" (memory of the simulator never written).  Arguments, names and   *)
(* the layout of structures are left out.                                  *)
(***************************************************************************)
EXTENDS Integers, FiniteSets

CONSTANT Kits  \* the settings tried, each a record of
               \*   real: of each program, the host's descriptor of each of
               \*     its own; std: those that are FE_STANDARD_IO
               \*   Fds: descriptors named
               \*   Uses: "descriptors", "sockets", "paths", "process"
               \*   Values: what breaks, groups and audit flags are set to

VARIABLES
  kit,      \* the one of a behaviour
  errno,    \* of the host process, 0 before the first failure
  brk,      \* of each program, mem->ld_brk_point
  gpid,     \* of each program, its process group
  audcntl,  \* a static variable of sys_syscall
  result,   \* the last call: by whom, on what, what the host did, the answer
  told      \* history: the break each program last set, and the group that it
            \* set or that whoever made it join had set

vars == <<kit, errno, brk, gpid, audcntl, result, told>>

Programs == DOMAIN kit.real
Size == 2
Errors == {1}                      \* of the host; more come from the handlers
ENOTTY == 25
ENOBUFS == 105
EINVAL == 22
ENOENT == 1
Invalid == -1
NoFd == -1

Known(c, fd) == fd \in DOMAIN kit.real[c]
-----------------------------------------------------------------------------
(* The host: a call fails with an errno or gives a number. *)
Fails(errors) == {[n |-> Invalid, e |-> x] : x \in errors}
Gives(S) == {[n |-> k, e |-> 0] : k \in S}
Amounts == Gives(0 .. Size) \cup Fails(Errors)
Verdicts == Gives({0}) \cup Fails(Errors)
Unasked == [n |-> 0, e |-> 0]                     \* no call of the host
Left(r) == IF r.e # 0 THEN r.e ELSE errno         \* errno after it

Untouched == [k \in 1 .. Size |-> "old"]
Whole(cell) == [k \in 1 .. Size |-> cell]
Filled(r, rest) == [k \in 1 .. Size |-> IF k <= r.n THEN "new" ELSE rest]
Struct(r, other) == Whole(IF r.n = Invalid THEN other ELSE "new")
-----------------------------------------------------------------------------
(* Leaves connect out (for a mutant). *)
FewerRedirected ==
  {"read", "write", "lseek", "ioctl", "fstat", "ftruncate", "flock", "getdirentries",
   "setsockopt", "getsockopt", "send", "getsockname", "shutdown", "fsync"}

(* The calls whose descriptor is replaced by the host's beforehand. *)
Redirected ==
  {"read", "write", "lseek", "ioctl", "fstat", "ftruncate", "flock", "getdirentries",
   "setsockopt", "getsockopt", "send", "connect", "getsockname", "shutdown", "fsync"}

HostFd(c, call, fd) ==
  IF call \in Redirected /\ Known(c, fd) THEN kit.real[c][fd] ELSE fd

Answer(c, call, fd, r, buffer, A3, V0) ==
  /\ result' = [by |-> c, call |-> call, fd |-> fd, r |-> r, buffer |-> buffer,
                host |-> IF fd = NoFd THEN NoFd ELSE HostFd(c, call, fd),
                A3 |-> A3, V0 |-> V0]
  /\ errno' = Left(r)

(* Without check_error (for a mutant). *)
Unchecked(c, call, fd, r, buffer, V0) == Answer(c, call, fd, r, buffer, 0, V0)

(* check_error, at the end of sys_syscall, of a value of V0. *)
Checked(c, call, fd, r, buffer, V0) ==
  Answer(c, call, fd, r, buffer, IF V0 = Invalid THEN -1 ELSE 0,
         IF V0 = Invalid THEN Left(r) ELSE V0)

Simple(c, call, fd, r) == Checked(c, call, fd, r, Untouched, r.n)
Still == UNCHANGED <<brk, gpid, audcntl, told>>
-----------------------------------------------------------------------------
(* Files *)

(* A failure copies nothing: the number is -1 for mem_bcopy. *)
read(c, fd) ==
  \E r \in Amounts : Checked(c, "read", fd, r, Filled(r, "old"), r.n)

(* Everything but a complete write is an error. *)
write(c, fd) ==
  \E r \in Amounts :
    Answer(c, "write", fd, r, Untouched, IF r.n = Size THEN 0 ELSE -1,
           IF r.n = Size THEN r.n ELSE Left(r))

lseek(c, fd) == \E r \in Amounts : Simple(c, "lseek", fd, r)
fsync(c, fd) == \E r \in Verdicts : Simple(c, "fsync", fd, r)
ftruncate(c, fd) == \E r \in Verdicts : Simple(c, "ftruncate", fd, r)
flock(c, fd) == \E r \in Verdicts : Simple(c, "flock", fd, r)

(* The structure is translated and copied even if there is none. *)
fstat(c, fd) ==
  \E r \in Verdicts : Checked(c, "fstat", fd, r, Struct(r, "junk"), r.n)

getdirentries(c, fd) ==
  \E r \in Amounts : Checked(c, "getdirentries", fd, r, Filled(r, "old"), r.n)

writev(c, fd) == \E r \in Amounts : Simple(c, "writev", fd, r)

(* The buffers, of zeros, are copied whole whatever came in. *)
readv(c, fd) ==
  \E r \in Amounts : Checked(c, "readv", fd, r, Filled(r, "zero"), r.n)

(* Whether it is a terminal is known from the table (of a descriptor that  *)
(* has an entry here); the queries copy what the host left.                *)
ioctl(c, fd) ==
  \/ /\ Known(c, fd)
     /\ LET tty == fd \in kit.std[c]
        IN Answer(c, "isatty", fd, Unasked, Untouched, IF tty THEN 0 ELSE 1,
                  IF tty THEN 0 ELSE ENOTTY)
  \/ \E r \in Verdicts : \/ Checked(c, "ioctl", fd, r, Struct(r, "junk"), r.n)
                         \/ Simple(c, "ioctl", fd, r)

poll(c, fd) ==
  \E r \in Amounts : Checked(c, "poll", fd, r, Struct(r, "old"), r.n)

Descriptors(c, fd) ==
  \/ read(c, fd) \/ write(c, fd) \/ lseek(c, fd) \/ fsync(c, fd) \/ ftruncate(c, fd)
  \/ flock(c, fd) \/ fstat(c, fd) \/ getdirentries(c, fd) \/ writev(c, fd)
  \/ readv(c, fd) \/ ioctl(c, fd) \/ poll(c, fd)
-----------------------------------------------------------------------------
(* Sockets *)
bind(c, fd) == \E r \in Verdicts : Simple(c, "bind", fd, r)
shutdown(c, fd) == \E r \in Verdicts : Simple(c, "shutdown", fd, r)

(* send, sendto: the buffer is copied back as it was. *)
send(c, fd) == \E r \in Amounts : Simple(c, "send", fd, r)

recvfrom(c, fd) ==
  \E r \in Amounts : Checked(c, "recvfrom", fd, r, Filled(r, "old"), r.n)

(* An address that is too long is refused without asking the host. *)
connect(c, fd) ==
  \/ \E r \in Verdicts : Simple(c, "connect", fd, r)
  \/ Simple(c, "connect", fd, [n |-> Invalid, e |-> EINVAL])

setsockopt(c, fd) == \E r \in Verdicts : Simple(c, "setsockopt", fd, r)

(* What the host says of the option stays in the simulator. *)
getsockopt(c, fd) == \E r \in Verdicts : Simple(c, "getsockopt", fd, r)

getsockname(c, fd) ==
  \/ \E r \in Verdicts : Checked(c, "getsockname", fd, r, Struct(r, "zero"), r.n)
  \/ Simple(c, "getsockname", fd, [n |-> Invalid, e |-> ENOBUFS])

getpeername(c, fd) ==
  \E r \in Verdicts : Checked(c, "getpeername", fd, r, Struct(r, "zero"), r.n)

Sockets(c, fd) ==
  \/ bind(c, fd) \/ shutdown(c, fd) \/ send(c, fd) \/ recvfrom(c, fd) \/ connect(c, fd)
  \/ setsockopt(c, fd) \/ getsockopt(c, fd) \/ getsockname(c, fd) \/ getpeername(c, fd)
-----------------------------------------------------------------------------
(* Names of files, and what is asked of the host as it is. *)
link(c) == \E r \in Verdicts : Simple(c, "link, unlink, chdir, chmod, chown", NoFd, r)
access(c) == \E r \in Verdicts : Simple(c, "access", NoFd, r)
stat(c) == \E r \in Verdicts : Checked(c, "stat", NoFd, r, Struct(r, "junk"), r.n)
statfs(c) == \E r \in Verdicts : Checked(c, "statfs", NoFd, r, Struct(r, "junk"), r.n)
setreuid(c) == \E r \in Verdicts : Simple(c, "setregid, setreuid", NoFd, r)
mkdir(c) == \E r \in Verdicts : Simple(c, "mkdir, rmdir, rename", NoFd, r)

(* The name goes into a variable of the handler and no further. *)
readlink(c) == \E r \in Amounts : Simple(c, "readlink", NoFd, r)

(* All of the buffer is copied, beyond the name that the host put in it.   *)
gethostname(c) ==
  \E r \in Verdicts : Checked(c, "gethostname", NoFd, r,
                              [k \in 1 .. Size |-> IF k = 1 /\ r.n = 0 THEN "new" ELSE "junk"], r.n)

(* An advice that does not exist is reported and then forgotten. *)
madvise(c) == Checked(c, "madvise", NoFd, Unasked, Untouched, 0)

(* profil sets neither register: A3 still is the fourth argument. *)
profil(c) == \E A3 \in {0, 1} : Answer(c, "profil", NoFd, Unasked, Untouched, A3, 0)

pathconf(c) == Answer(c, "pathconf", NoFd, Unasked, Untouched, -1, 0)
unimplemented(c) == Answer(c, "unimplemented", NoFd, Unasked, Untouched, -1, 0)

(* execve of a file that is not there: the registers changed places. *)
execve(c) ==
  Answer(c, "execve", NoFd, [n |-> Invalid, e |-> ENOENT], Untouched, ENOENT, Invalid)

Paths(c) ==
  \/ link(c) \/ access(c) \/ stat(c) \/ statfs(c) \/ setreuid(c) \/ mkdir(c) \/ readlink(c)
  \/ gethostname(c) \/ madvise(c) \/ profil(c) \/ pathconf(c) \/ unimplemented(c)
  \/ execve(c)
-----------------------------------------------------------------------------
(* The state that the simulator keeps of a program itself. *)

(* The new break is the answer, also of sbrk. *)
sbrk(c, delta) ==
  /\ brk[c] + delta \in kit.Values
  /\ brk' = [brk EXCEPT ![c] = @ + delta]
  /\ told' = [told EXCEPT ![c].brk = brk[c] + delta]
  /\ Checked(c, "sbrk", NoFd, Unasked, Untouched, brk[c] + delta)
  /\ UNCHANGED <<gpid, audcntl>>

(* obreak: of 0 the break is asked. *)
obreak(c, addr) ==
  /\ brk' = IF addr = 0 THEN brk ELSE [brk EXCEPT ![c] = addr]
  /\ told' = IF addr = 0 THEN told ELSE [told EXCEPT ![c].brk = addr]
  /\ Checked(c, "obreak", NoFd, Unasked, Untouched, IF addr = 0 THEN brk[c] ELSE 0)
  /\ UNCHANGED <<gpid, audcntl>>

(* getpgrp, ioctl(TIOCGPGRP) *)
getpgrp(c) == Checked(c, "getpgrp", NoFd, Unasked, Untouched, gpid[c]) /\ Still

(* ioctl(TIOCSPGRP), setpgid(0, group) *)
SetsOwnGroup(c, group) ==
  /\ gpid' = [gpid EXCEPT ![c] = group]
  /\ told' = [told EXCEPT ![c].gpid = group]
  /\ Checked(c, "setpgid", NoFd, Unasked, Untouched, 0)
  /\ UNCHANGED <<brk, audcntl>>

(* Puts the caller in the group of the other (for a mutant). *)
Follows(c, who) ==
  IF who \in Programs
  THEN /\ gpid' = [gpid EXCEPT ![c] = gpid[who]]
       /\ told' = [told EXCEPT ![who].gpid = told[c].gpid]
       /\ Checked(c, "setpgid", NoFd, Unasked, Untouched, 0)
       /\ UNCHANGED <<brk, audcntl>>
  ELSE Checked(c, "setpgid", NoFd, Unasked, Untouched, Invalid) /\ Still

(* setpgid(who, 0): the other joins the group of the caller.  The error    *)
(* for a process that is not there sets no errno.                          *)
Joins(c, who) ==
  IF who \in Programs
  THEN /\ gpid' = [gpid EXCEPT ![who] = gpid[c]]
       /\ told' = [told EXCEPT ![who].gpid = told[c].gpid]
       /\ Checked(c, "setpgid", NoFd, Unasked, Untouched, 0)
       /\ UNCHANGED <<brk, audcntl>>
  ELSE Checked(c, "setpgid", NoFd, Unasked, Untouched, Invalid) /\ Still

(* setpgid(who, group) of another group than 0 succeeds and does nothing.  *)
setpgid(c, who, group) ==
  CASE who = 0                -> SetsOwnGroup(c, group)
    [] who # 0 /\ group = 0   -> Joins(c, who)
    [] who # 0 /\ group # 0   -> Checked(c, "setpgid", NoFd, Unasked, Untouched, 0) /\ Still

(* The answer to SET_PROC_ACNTL is the old value; without a buffer the     *)
(* masks fail and set no errno.                                            *)
audit(c, value) ==
  /\ \/ /\ Checked(c, "audcntl", NoFd, Unasked, Untouched, audcntl)
        /\ audcntl' \in {audcntl, value}
     \/ /\ Checked(c, "audcntl", NoFd, Unasked, Untouched, Invalid)
        /\ UNCHANGED audcntl
     \/ /\ Checked(c, "audcntl", NoFd, Unasked, Whole("zero"), Size)
        /\ UNCHANGED audcntl
  /\ UNCHANGED <<brk, gpid, told>>

Process(c) ==
  \/ getpgrp(c)
  \/ \E v \in kit.Values \cup {0} :
       \/ obreak(c, v) \/ audit(c, v)
       \/ \E who \in 0 .. Cardinality(Programs) + 1 : setpgid(c, who, v)
  \/ \E delta \in {-1, 1} : sbrk(c, delta)
-----------------------------------------------------------------------------
None == [by |-> 0, call |-> "none", fd |-> NoFd, r |-> Unasked, buffer |-> Untouched,
         host |-> NoFd, A3 |-> 0, V0 |-> 0]

Init ==
  /\ kit \in Kits
  /\ errno = 0 /\ audcntl = 2 /\ result = None
  /\ brk = [c \in Programs |-> 1] /\ gpid = [c \in Programs |-> 15]
  /\ told = [c \in Programs |-> [brk |-> 1, gpid |-> 15]]

Next ==
  /\ UNCHANGED kit
  /\ \E c \in Programs :
       \/ "descriptors" \in kit.Uses /\ (\E fd \in kit.Fds : Descriptors(c, fd)) /\ Still
       \/ "sockets" \in kit.Uses /\ (\E fd \in kit.Fds : Sockets(c, fd)) /\ Still
       \/ "paths" \in kit.Uses /\ Paths(c) /\ Still
       \/ "process" \in kit.Uses /\ Process(c)

Spec == Init /\ [][Next]_vars
-----------------------------------------------------------------------------
(* Type invariant *)
TypeOK ==
  /\ errno \in {0, EINVAL, ENOBUFS} \cup Errors /\ audcntl \in {0, 2} \cup kit.Values
  /\ brk \in [Programs -> kit.Values]
  /\ gpid \in [Programs -> {0, 15} \cup kit.Values]
  /\ result.buffer \in [1 .. Size -> {"old", "new", "zero", "junk"}]
  /\ result.by \in Programs \cup {0} /\ result.A3 \in {-1, 0, 1} /\ result.V0 \in Int

(* A call is made on the host's descriptor behind the program's, but for   *)
(* six that are missing from the list in sys_syscall and reach whatever   *)
(* has that number on the host.                                            *)
Unlisted == {"bind", "recvfrom", "readv", "writev", "getpeername", "poll"}
OnOwnDescriptor ==
  result.fd # NoFd /\ Known(result.by, result.fd) /\ result.call \notin Unlisted \cup {"isatty"}
    => result.host = kit.real[result.by][result.fd]

(* A program is told of an error exactly when the host met one, and which  *)
(* one, with these exceptions: a write cut short, setpgid and audcntl show *)
(* what an earlier call, of any program, left in errno; profil shows its   *)
(* argument; pathconf and unknown calls fail without a number, and execve  *)
(* gives it in the wrong register.                                         *)
Own == result.call \notin {"setpgid", "audcntl", "profil", "pathconf", "unimplemented",
                           "execve", "isatty"}
CutShort == result.call = "write" /\ result.r.n \in 0 .. Size - 1
ErrorsTold ==
  /\ Own /\ ~CutShort =>
       /\ (result.A3 # 0) <=> (result.r.n = Invalid)
       /\ result.A3 # 0 => result.V0 = result.r.e
  /\ CutShort => result.A3 # 0 /\ result.V0 = errno

(* A call that gives a number of bytes puts these in the buffer and leaves *)
(* the rest alone, and one that fails leaves all of it, with exceptions:   *)
(* readv clears the rest, the structures of stat and statfs and of the     *)
(* ioctl queries are copied though they are not filled in, getsockname and *)
(* getpeername clear theirs, gethostname adds what was in the simulator's  *)
(* memory, and audcntl clears a mask.                                      *)
Clears == {"readv", "getsockname", "getpeername", "audcntl"}
Leaks == {"fstat", "stat", "statfs", "ioctl", "gethostname"}
BuffersKept ==
  \A k \in 1 .. Size :
    /\ result.buffer[k] = "zero" => result.call \in Clears
    /\ result.buffer[k] = "junk" => result.call \in Leaks
    /\ result.buffer[k] = "new" => result.r.n # Invalid
    /\ result.call \in {"read", "recvfrom", "getdirentries", "readv"} /\ k <= result.r.n
         => result.buffer[k] = "new"

(* A break is what the program set it to, whatever the others do; a group  *)
(* is what the program, or the one that made it join its own, had set.     *)
OwnBreakAndGroup ==
  \A c \in Programs : brk[c] = told[c].brk /\ gpid[c] = told[c].gpid

CallsSound == OnOwnDescriptor /\ ErrorsTold /\ BuffersKept /\ OwnBreakAndGroup
=============================================================================
