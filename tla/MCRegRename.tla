----------------------------- MODULE MCRegRename -----------------------------
(***************************************************************************)
(* Instances of RegRename for TLC.  Two registers of each type, the zero   *)
(* register and one more (0, 1 integer, 2, 3 floating point, 4 DFPCR).     *)
(***************************************************************************)
EXTENDS RegRename, TLC

CONSTANTS c1, c2

Ids1 == {c1}
Ids2 == {c1, c2}

Inst(kind, dest, out, src1, in1, src2, in2) ==
    [kind |-> kind, dest |-> dest, out |-> out,
     src |-> <<src1, src2>>, in |-> <<in1, in2>>]

\* addq r, r -> r: reads the register it renames
AddInt == Inst("alu", "INT", 1, "INT", 1, "INT", 1)
\* addq r, r -> zero register: has a destination type, is not renamed
AddZero == Inst("alu", "INT", 0, "INT", 1, "INT", 0)
\* bsr: renames the return address register
CallInt == Inst("branch", "INT", 1, "NONE", 0, "NONE", 0)
\* ldt f <- (r)
LoadFP == Inst("load", "FP", 3, "NONE", 0, "INT", 1)
\* stq_c r -> (r): a store that writes a register
StoreCond == Inst("store", "INT", 1, "INT", 1, "INT", 1)
\* call_pal callsys
Syscall == Inst("trap", "NONE", 0, "NONE", 0, "NONE", 0)
\* mt_fpcr f -> fpcr: the only opcode that renames DFPCR
MoveToFPCR == Inst("alu", "FP", 4, "NONE", 0, "NONE", 0)

InstsSMT == {AddInt, CallInt, Syscall}
InstsDeep == {AddInt, AddZero, CallInt, LoadFP, StoreCond, Syscall}
InstsLive == {AddInt, CallInt, StoreCond, Syscall}
InstsFPCR == {MoveToFPCR}

Symm2 == Permutations(Ids2)
=============================================================================
