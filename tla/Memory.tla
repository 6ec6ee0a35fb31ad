------------------------------- MODULE Memory -------------------------------
(***************************************************************************)
(* Simulated memory (memory.c): the inverted page table of each program, a *)
(* list of pages per bucket in the order of their last use; the mappings   *)
(* that mmap makes, inside simulated memory (internal_map) and of the host *)
(* (memory_map); and what fork, execve and a checkpoint do to them.        *)
(*                                                                         *)
(* The unit of addresses is the quad word, which mem_map rounds lengths    *)
(* to; an access is of one unit or of two.                                 *)
(***************************************************************************)
EXTENDS Integers, Sequences, SequencesExt, FiniteSets, FiniteSetsExt, TLC

CONSTANT Memories   \* the settings tried, each a record of
                    \*   PageSize, Sets: units of a page, buckets of the table
                    \*   Top: addresses are 0 .. Top - 1
                    \*   MapBase: where mem_map looks for room first
                    \*   FileLen: of the file that is mapped
                    \*   MaxPrograms, MaxMaps, MaxPages: bounds
                    \*   Uses: the operations tried
                    \*   Accessed, Sizes, Writes: addresses, sizes, values written
                    \*   Hints, Lens, Kinds, Files, Rights, Inherit: what mmap is asked for
VARIABLE setting
PageSize == setting.PageSize
Addresses == 0 .. setting.Top - 1

VARIABLES
  mem,        \* of each program, its mem_t: see Blank
  host,       \* of each mapping of the host, what it shows, and whether it still exists
  file,       \* the contents of the file
  base_addr,  \* static in acquire_address
  checkpoint, \* what eio_write_chkpt wrote
  mem_error   \* where the simulator ends or hangs

vars == <<setting, mem, host, file, base_addr, checkpoint, mem_error>>

Programs == DOMAIN mem
Fresh == <<>>                 \* no checkpoint
FromFile == 9                 \* what the file holds at first

Blank == [ptab |-> [s \in 0 .. setting.Sets - 1 |-> <<>>],
          memory_map |-> <<>>, internal_map |-> <<>>, page_count |-> 0]

(* Page tables *)
MEM_PTAB_SET(addr) == (addr \div PageSize) % setting.Sets
MEM_PTAB_TAG(addr) == (addr \div PageSize) \div setting.Sets
MEM_PTE_ADDR(tag, s) == PageSize * (tag * setting.Sets + s)
MEM_OFFSET(addr) == addr % PageSize

\* the place of a page in its bucket
Found(m, addr) ==
  LET bucket == m.ptab[MEM_PTAB_SET(addr)]
  IN {i \in DOMAIN bucket : bucket[i].tag = MEM_PTAB_TAG(addr)}

(* The page found is dropped from behind the one before it (for a mutant). *)
SwappedToHead(bucket, i) == <<bucket[i]>> \o SubSeq(bucket, 2, Len(bucket))

MovedToHead(bucket, i) == <<bucket[i]>> \o RemoveAt(bucket, i)

\* the page is the first of its bucket afterwards
mem_translate(m, addr) ==
  IF Found(m, addr) = {} THEN m
  ELSE [m EXCEPT !.ptab[MEM_PTAB_SET(addr)] = MovedToHead(@, Min(Found(m, addr)))]

mem_newpage(m, addr) ==
  [m EXCEPT !.ptab[MEM_PTAB_SET(addr)] =
              <<[tag |-> MEM_PTAB_TAG(addr), page |-> [o \in 0 .. PageSize - 1 |-> 0]]>> \o @,
            !.page_count = @ + 1]

\* MEM_READ: nothing is allocated
PageValue(m, addr) ==
  IF Found(m, addr) = {} THEN 0
  ELSE m.ptab[MEM_PTAB_SET(addr)][Min(Found(m, addr))].page[MEM_OFFSET(addr)]

\* MEM_TICKLE, MEM_WRITE
PageWritten(m, addr, v) ==
  LET t == IF Found(m, addr) = {} THEN mem_newpage(m, addr) ELSE mem_translate(m, addr)
  IN [t EXCEPT !.ptab[MEM_PTAB_SET(addr)][1].page[MEM_OFFSET(addr)] = v]
-----------------------------------------------------------------------------
(* Mappings *)
is_within(r, addr) == addr >= r.base /\ addr - r.base < r.size
bounds_check(r, addr, n) == is_within(r, addr) /\ is_within(r, addr + n - 1)

\* the mapping of the host that an access meets, 0 if none
Meets(m, addr) ==
  LET at == {i \in DOMAIN m.memory_map : is_within(m.memory_map[i], addr)}
  IN IF at = {} THEN 0 ELSE Min(at)

\* what a mapping of the host shows: a shared one the file itself
HostValue(h, f, r, addr) ==
  IF h[r.id].kind = "shared" THEN f[addr - r.base] ELSE h[r.id].data[addr - r.base]

Value(c, addr) ==
  LET i == Meets(mem[c], addr)
  IN IF i = 0 THEN PageValue(mem[c], addr)
     ELSE HostValue(host, file, mem[c].memory_map[i], addr)

(* An access of n units: the fault, and if there is none what it works on. *)
Fault(m, addr, n, right, direct) ==
  LET i == Meets(m, addr)
  IN IF ~direct /\ addr % n # 0 THEN "alignment"
     ELSE IF i = 0 THEN "none"
     ELSE IF ~bounds_check(m.memory_map[i], addr, n) THEN "segfault"
     ELSE IF right \notin m.memory_map[i].prot THEN "access" ELSE "none"

\* one unit of an access: at is the mapping, 0 for the pages, v what is written
Nothing == -1
Unit(at, addr, v) == [at |-> at, addr |-> addr, v |-> v]

\* s has mem (of one program), host and file
UnitDone(s, u) ==
  LET r == s.mem.memory_map[u.at]
  IN IF u.at = 0 /\ u.v = Nothing THEN [s EXCEPT !.mem = mem_translate(@, u.addr)]
     ELSE IF u.at = 0 THEN [s EXCEPT !.mem = PageWritten(@, u.addr, u.v)]
     ELSE IF u.v = Nothing THEN s
     ELSE IF s.host[r.id].kind = "shared" THEN [s EXCEPT !.file[u.addr - r.base] = u.v]
     ELSE [s EXCEPT !.host[r.id].data[u.addr - r.base] = u.v]
Done(s, units) == FoldLeft(UnitDone, s, units)

\* all of an access is in the mapping that it begins in, or in no mapping
Units(m, addr, n, v) == [k \in 1 .. n |-> Unit(Meets(m, addr), addr + k - 1, v)]
\* mem_bcopy, mem_bzero: unit by unit, up to the first fault
Copied(s, addr, values) ==
  LET fits == {k \in 0 .. Len(values) :
                 \A j \in 1 .. k : Fault(s.mem, addr + j - 1, 1, "write", FALSE) = "none"}
  IN Done(s, [k \in 1 .. Max(fits) |->
                Unit(Meets(s.mem, addr + k - 1), addr + k - 1, values[k])])

State(c) == [mem |-> mem[c], host |-> host, file |-> file]
Becomes(c, s) == mem' = [mem EXCEPT ![c] = s.mem] /\ host' = s.host /\ file' = s.file

Dead(c, addr) == Meets(mem[c], addr) # 0
                   /\ ~host[mem[c].memory_map[Meets(mem[c], addr)].id].exists
Crashes(c, addr, n, right, direct) ==
  Dead(c, addr) /\ Fault(mem[c], addr, n, right, direct) = "none"

\* a read, or a write of v
mem_access(c, addr, n, v, direct) ==
  LET right == IF v = Nothing THEN "read" ELSE "write"
  IN /\ right \in setting.Uses
     /\ IF Crashes(c, addr, n, right, direct)
        THEN mem_error' = "unmapped on the host" /\ UNCHANGED <<mem, host, file>>
        ELSE /\ IF Fault(mem[c], addr, n, right, direct) # "none" THEN UNCHANGED <<mem, host, file>>
                ELSE Becomes(c, Done(State(c), Units(mem[c], addr, n, v)))
             /\ UNCHANGED mem_error
     /\ v # Nothing =>
          Cardinality({p \in Addresses : Found(mem'[c], p) # {}}) <= PageSize * setting.MaxPages
     /\ UNCHANGED <<setting, base_addr, checkpoint>>
-----------------------------------------------------------------------------
RoundUp(addr) == ((addr + PageSize - 1) \div PageSize) * PageSize

(* A mapping is taken for its first page (for a mutant). *)
FirstPageOnly(source, addr, len) ==
  \A i \in DOMAIN source : ~is_within([base |-> addr, size |-> len], source[i].base)

\* it is the starts of the pages of a mapping that are looked for
bounds_verify(source, addr, len) ==
  \A i \in DOMAIN source :
    \A p \in 0 .. (RoundUp(source[i].base + source[i].size) - source[i].base - 1) \div PageSize :
      ~is_within([base |-> addr, size |-> len], source[i].base + p * PageSize)

Free(m, addr, len) ==
  bounds_verify(m.memory_map, addr, len) /\ bounds_verify(m.internal_map, addr, len)

\* the first place that is free, page after page; there is one in Above
Above == 0 .. 2 * setting.Top
acquire_address(m, addr, len) ==
  LET from == IF addr = 0 THEN base_addr ELSE addr
      steps == {k \in Above : Free(m, from + k * PageSize, len)}
  IN from + Min(steps) * PageSize

(* mem_map.  fd is "file" or "none"; kind is what the flags ask for.  A     *)
(* file that is shorter than the mapping is read for ever.                 *)
Contents(fd, len) == [k \in 1 .. len |-> IF fd = "file" THEN file[k - 1] ELSE 0]
Hangs(kind, hint, fd, len) ==
  /\ fd = "file" /\ len > setting.FileLen
  /\ kind = "fixed" \/ hint # 0

Region(base, len, id, prot, flags) ==
  [base |-> base, size |-> len, id |-> id, prot |-> prot, flags |-> flags]
NewHost(kind, len) ==
  [kind |-> kind, exists |-> TRUE,
   data |-> IF kind = "shared" THEN <<>>
            ELSE [o \in 0 .. len - 1 |-> IF o < setting.FileLen THEN file[o] ELSE 0]]

WithRegion(s, r, first) ==
  [s EXCEPT !.mem.internal_map = IF first THEN <<r>> \o @ ELSE Append(@, r)]
WithHostRegion(s, r, kind) ==
  [s EXCEPT !.mem.memory_map = Append(@, r), !.host = Append(@, NewHost(kind, r.size))]

mem_map(c, hint, fd, len, prot, flags, kind) ==
  LET place == acquire_address(mem[c], hint, len)
      base == IF kind = "fixed" THEN hint ELSE place
      inside == Region(base, len, 0, prot,
                       IF kind = "fixed" THEN flags \cup {"fixed"} ELSE flags)
      outside(p) == Region(base, len, Len(host) + 1, p, flags)
  IN /\ "map" \in setting.Uses
     /\ Len(mem[c].memory_map) + Len(mem[c].internal_map) < setting.MaxMaps
     /\ Max({base, place}) + len <= setting.Top
     /\ kind = "shared" => len <= setting.FileLen
     /\ base_addr' = IF hint = 0 THEN RoundUp(place + len) ELSE base_addr
     /\ IF Hangs(kind, hint, fd, len)
        THEN mem_error' = "read for ever" /\ UNCHANGED <<mem, host, file>>
        ELSE /\ UNCHANGED mem_error
             /\ CASE kind = "fixed" ->
                       Becomes(c, Copied(WithRegion(State(c), inside, TRUE), base, Contents(fd, len)))
                  [] kind # "fixed" /\ hint # 0 ->
                       Becomes(c, WithRegion(Copied(State(c), base, Contents(fd, len)), inside, FALSE))
                  [] kind = "anon" /\ hint = 0 ->
                       IF fd = "file" THEN UNCHANGED <<mem, host, file>>
                       ELSE Becomes(c, WithRegion(Copied(State(c), base, Contents(fd, len)),
                                                  inside, FALSE))
                  [] kind \in {"shared", "private"} /\ hint = 0 ->
                       IF fd = "none" THEN UNCHANGED <<mem, host, file>>   \* mmap fails
                       ELSE Becomes(c, WithHostRegion(State(c),
                                outside(IF kind = "shared" THEN prot ELSE {"read", "write"}), kind))
     /\ UNCHANGED <<setting, checkpoint>>

At(maps, addr) == {i \in DOMAIN maps : maps[i].base = addr}
mem_unmap(c, addr) ==
  LET m == mem[c]
      h == At(m.memory_map, addr)
      i == At(m.internal_map, addr)
  IN /\ "unmap" \in setting.Uses /\ h \cup i # {}
     /\ IF h # {}
        THEN /\ mem' = [mem EXCEPT ![c].memory_map = RemoveAt(@, Min(h))]
             /\ host' = [host EXCEPT ![m.memory_map[Min(h)].id].exists = FALSE]
        ELSE /\ mem' = [mem EXCEPT ![c].internal_map = RemoveAt(@, Min(i))]
             /\ UNCHANGED host
     /\ UNCHANGED <<setting, file, base_addr, checkpoint, mem_error>>
-----------------------------------------------------------------------------
\* the copy constructor: the buckets turn round, the host's mappings are shared
CopyOf(m) == [m EXCEPT !.ptab = [s \in DOMAIN @ |-> Reverse(@[s])]]

NewProgram == Len(mem) + 1
fork(c) ==
  /\ "fork" \in setting.Uses /\ Len(mem) < setting.MaxPrograms
  /\ mem' = Append(mem, CopyOf(mem[c]))
  /\ UNCHANGED <<setting, host, file, base_addr, checkpoint, mem_error>>

(* execve: what is not to be inherited goes, on the host also for others   *)
(* who got the mapping by fork; the pages of what stays are kept.          *)
WithInherited(kept, r) == IF "inherit" \in r.flags THEN Append(kept, r) ELSE kept
Inherited(maps) == FoldLeft(WithInherited, <<>>, maps)
KeptPages(m, s) ==
  SelectSeq(m.ptab[s], LAMBDA e : ~Free(m, MEM_PTE_ADDR(e.tag, s), 1))

exec_flush(c) ==
  LET m == [mem[c] EXCEPT !.memory_map = Inherited(@), !.internal_map = Inherited(@)]
      kept == [s \in DOMAIN m.ptab |-> KeptPages(m, s)]
      gone == MapThenSumSet(LAMBDA s : Len(m.ptab[s]) - Len(kept[s]), DOMAIN kept)
  IN /\ "exec" \in setting.Uses
     /\ mem' = [mem EXCEPT ![c] = [m EXCEPT !.ptab = kept, !.page_count = @ - gone]]
     /\ host' = [h \in DOMAIN host |->
          IF \E r \in ToSet(mem[c].memory_map) : r.id = h /\ "inherit" \notin r.flags
          THEN [host[h] EXCEPT !.exists = FALSE] ELSE host[h]]
     /\ UNCHANGED <<setting, file, base_addr, checkpoint, mem_error>>

(* A checkpoint holds the pages and nothing of the mappings; the buckets   *)
(* turn round when it is read into a fresh memory.                         *)
Saved(m) == [Blank EXCEPT !.ptab = m.ptab, !.page_count = m.page_count]
ReadBack(m) == CopyOf(m)

eio_write_chkpt ==
  /\ "checkpoint" \in setting.Uses /\ checkpoint = Fresh
  /\ checkpoint' = <<Saved(mem[1])>>
  /\ UNCHANGED <<setting, mem, host, file, base_addr, mem_error>>
eio_read_chkpt ==
  /\ checkpoint # Fresh /\ Len(mem) < setting.MaxPrograms
  /\ mem' = Append(mem, ReadBack(checkpoint[1]))
  /\ UNCHANGED <<setting, host, file, base_addr, checkpoint, mem_error>>
-----------------------------------------------------------------------------
Init ==
  /\ setting \in Memories
  /\ mem = <<Blank>> /\ host = <<>> /\ checkpoint = Fresh /\ mem_error = "none"
  /\ file = [o \in 0 .. setting.FileLen - 1 |-> FromFile]
  /\ base_addr = setting.MapBase

Access(c) ==
  \E addr \in setting.Accessed, n \in setting.Sizes, v \in setting.Writes \cup {Nothing},
     direct \in BOOLEAN :
    /\ n = 1 => ~direct       \* one unit is aligned
    /\ addr + n <= setting.Top
    /\ mem_access(c, addr, n, v, direct)

Mapping(c) ==
  \/ \E hint \in setting.Hints, len \in setting.Lens, fd \in setting.Files,
        prot \in setting.Rights, flags \in {{}} \cup setting.Inherit, kind \in setting.Kinds :
       mem_map(c, hint, fd, len, prot, flags, kind)
  \/ \E addr \in Addresses : mem_unmap(c, addr)

Next ==
  /\ mem_error = "none"
  /\ \/ \E c \in Programs : Access(c) \/ Mapping(c) \/ fork(c) \/ exec_flush(c)
     \/ eio_write_chkpt \/ eio_read_chkpt

Spec == Init /\ [][Next]_vars
-----------------------------------------------------------------------------
(* Type invariant: a page is once in the bucket of its address, and        *)
(* page_count is the number of pages.                                      *)
TypeOK ==
  \A c \in Programs :
    /\ \A s \in DOMAIN mem[c].ptab :
         IsInjective([i \in DOMAIN mem[c].ptab[s] |-> mem[c].ptab[s][i].tag])
    /\ mem[c].page_count =
         MapThenSumSet(LAMBDA s : Len(mem[c].ptab[s]), DOMAIN mem[c].ptab)

(* Each program has an address space of its own, whatever pages were moved *)
(* in their buckets by reads, copied by fork, dropped by execve and read   *)
(* back from a checkpoint.                                                 *)
Covered(r) == {a \in Addresses : a >= (r.base \div PageSize) * PageSize /\ a < RoundUp(r.base + r.size)}
Regions(c) == mem[c].memory_map \o mem[c].internal_map
Mapped(c) == UNION {Covered(r) : r \in ToSet(Regions(c))}
Spaces == INSTANCE AddressSpaces WITH
  contents <- [c \in Programs |-> [a \in Addresses |-> Value(c, a)]],
  mapped <- [c \in Programs |-> Mapped(c)],
  saved <- IF checkpoint = Fresh THEN Fresh
           ELSE [a \in Addresses |-> PageValue(checkpoint[1], a)]
MemoryIsMap == Spaces!Spec

(* mmap gives no two regions that overlap, but for those whose address the *)
(* program insists on or asks for inside a page; and what is mapped from   *)
(* the host exists there, unless a fork has shared it (the copy            *)
(* constructor copies the host's addresses).                               *)
Chosen(r) == r.base % PageSize = 0 /\ "fixed" \notin r.flags
MappingsSound ==
  \A c \in Programs :
    /\ \A i, j \in DOMAIN Regions(c) :
         i # j /\ Chosen(Regions(c)[i]) /\ Chosen(Regions(c)[j]) =>
           Covered(Regions(c)[i]) \cap Covered(Regions(c)[j]) = {}
    /\ Len(mem) = 1 => \A r \in ToSet(mem[c].memory_map) : host[r.id].exists
=============================================================================
