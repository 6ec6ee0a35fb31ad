-------------------------------- MODULE Dram --------------------------------
(***************************************************************************)
(* Main memory (dram.c): the latency of a request, and for the "basic"     *)
(* model the banks that it keeps busy.  Addresses count transfers, that is *)
(* the bus width.  All times are counted from the present cycle, a time in *)
(* the past being 0: they only enter the code as the later of two times.   *)
(***************************************************************************)
EXTENDS Integers, Sequences, SequencesExt, FiniteSetsExt

(* The parameters are a record p of                                        *)
(*   kind: "chunk" or "basic"; mem_lat, mem_chunk_lat                      *)
(*   to_dram, from_dram, pre, closed, conflict, num_banks, row_size        *)

(* row_bits counts the digits of the row size, one more than its logarithm *)
(* so that a row spans twice what the option says.                         *)
RowSpan(p) == 2 * p.row_size
BankOf(p, addr) == (addr \div RowSpan(p)) % p.num_banks
RowOf(p, addr) == (addr \div RowSpan(p)) \div p.num_banks

NewBanks(p) ==
  [b \in 0 .. p.num_banks - 1 |-> [row |-> 0, status |-> "closed", until |-> 0]]

(* mem_access_latency_helper: one transfer of a bank. *)
Transfer(p, bank, row, cont, at) ==
  LET free == Max({bank.until, at})
  IN [row |-> row, status |-> "precharge",
      until |-> IF bank.status = "closed" THEN at + p.pre + p.closed + p.from_dram
                ELSE IF bank.row # row
                     THEN free + p.pre + p.closed + p.conflict + p.from_dram
                ELSE IF cont THEN bank.until + p.from_dram
                ELSE free + p.pre + p.from_dram]

(* mem_access_latency: the latency and the banks after it.  The latency is *)
(* that of the last transfer: the earlier ones are compared with it as a   *)
(* number of cycles with a point in time, which is the larger.             *)
Request(p, banks, addr, size, at) ==
  IF p.kind = "chunk"
  THEN [banks |-> banks, lat |-> p.mem_lat + p.mem_chunk_lat * (size - 1)]
  ELSE LET One(done, offset) ==
             LET b == BankOf(p, addr + offset)
                 bank == Transfer(p, done.banks[b], RowOf(p, addr + offset),
                                  done.target = b, at + p.to_dram)
             IN [banks |-> [done.banks EXCEPT ![b] = bank], target |-> b,
                 lat |-> bank.until - at]
       IN FoldLeft(One, [banks |-> banks, target |-> -1, lat |-> 0],
                   [k \in 1 .. size |-> k - 1])

reset(banks) == [b \in DOMAIN banks |-> [banks[b] EXCEPT !.until = 0]]

Later(banks) == [b \in DOMAIN banks |-> [banks[b] EXCEPT !.until = Max({0, @ - 1})]]
=============================================================================
