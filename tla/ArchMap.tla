------------------------------- MODULE ArchMap -------------------------------
(***************************************************************************)
(* What renaming promises to a program: its architectural registers.       *)
(*                                                                         *)
(* A core owns banks of registers.  A context that is attached takes a     *)
(* bank and gives one back when it is detached; in between its map changes *)
(* one entry at a time, when an instruction retires, to a register that no *)
(* bank holds.  Nothing else is visible: no instruction in flight, no      *)
(* wrong path, no other context.                                           *)
(***************************************************************************)
EXTENDS Integers, Sequences

CONSTANTS NArch, RFSize, MaxContexts, Contexts

ArchRegs == 0 .. 2 * NArch - 1
PhysRegs == 0 .. RFSize - 1
TypeOf(a) == IF a < NArch THEN "INT" ELSE "FP"

VARIABLES
    Holders,  \* the attached contexts
    pool,     \* the banks that wait for a context, the last one on top
    map       \* the bank of every attached context

vars == <<Holders, pool, map>>

Unused(t, r) ==
    /\ \A k \in DOMAIN pool : \A a \in ArchRegs : TypeOf(a) = t => pool[k][a] # r
    /\ \A c \in Holders : \A a \in ArchRegs : TypeOf(a) = t => map[c][a] # r

Init ==
    /\ Holders = {}
    /\ map = [c \in {} |-> 0]
    /\ pool = [k \in 1 .. MaxContexts |->
                [a \in ArchRegs |-> (k - 1) * NArch
                                    + (IF a < NArch THEN a ELSE a - NArch)]]

Attach(c) ==
    /\ c \notin Holders /\ pool # <<>>
    /\ Holders' = Holders \cup {c}
    /\ map' = [d \in Holders' |-> IF d = c THEN pool[Len(pool)] ELSE map[d]]
    /\ pool' = SubSeq(pool, 1, Len(pool) - 1)

Detach(c) ==
    /\ c \in Holders
    /\ Holders' = Holders \ {c}
    /\ map' = [d \in Holders' |-> map[d]]
    /\ pool' = Append(pool, map[c])

Retire(c, a, r) ==
    /\ c \in Holders /\ Unused(TypeOf(a), r)
    /\ map' = [map EXCEPT ![c][a] = r]
    /\ UNCHANGED <<Holders, pool>>

Next == \E c \in Contexts :
            \/ Attach(c) \/ Detach(c)
            \/ \E a \in ArchRegs, r \in PhysRegs : Retire(c, a, r)

Spec == Init /\ [][Next]_vars

=============================================================================
