---------------------------- MODULE MCScheduler ----------------------------
(* Small instances of Scheduler. *)
EXTENDS Scheduler

ACore(contexts, iq_size, lat, model, kinds) ==
    [NumContexts |-> contexts, IQSize |-> iq_size, issuelat |-> lat,
     recovery_model |-> model, Kinds |-> kinds, Addrs |-> {1}, MaxSeq |-> 4]

\* chains of loads whose latency is guessed
ReplayCore == ACore(1, 2, 2, "squash", {"alu", "load"})
\* operations without a unit among them
NoUnitCore == ACore(1, 2, 2, "squash", {"load", "nofu"})
\* two contexts and one entry in the issue queue
ThreadsCore == ACore(2, 1, 1, "squash", {"branch", "load"})
\* latencies are known
PerfectCore == ACore(1, 2, 1, "perfect", {"alu", "load"})
ConditionalCore == ACore(1, 2, 1, "perfect", {"load", "store_c"})
\* units stay busy
BusyCore == ACore(1, 1, 2, "squash", {"branch", "load", "store", "store_c"})
\* three loads and stores of one address
StoresCore == [ACore(1, 3, 1, "squash", {"load", "store"}) EXCEPT !.MaxSeq = 6]
\* loads and stores that may pass each other
AddressesCore == [ACore(1, 2, 1, "squash", {"load", "store"}) EXCEPT !.Addrs = {1, 2}]

CoresMixed == {ReplayCore, NoUnitCore, ThreadsCore, PerfectCore, ConditionalCore, StoresCore,
               AddressesCore}
CoresBusy == {BusyCore}
CoresStores == {StoresCore}
============================================================================
