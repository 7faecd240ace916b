---------------------------- MODULE MCMockSession ----------------------------
(* Three instances, one of them chosen at the start: two tabs that submit   *)
(* and write again, one tab that submits under three keys, and two tabs     *)
(* that write and run.  The properties depend on no constant, so those of   *)
(* MockSession speak of all three.                                          *)
EXTENDS MockSession, TLC

CONSTANTS t1, t2, t3, c1, c2

VARIABLE instance

FreshKeys == INSTANCE MockSession WITH
  Tabs <- {t3}, Slots <- {c1, c2}, Works <- {"a"},
  MaxKeys <- 3, MaxRevs <- 5, MaxRuns <- 0

TwoWriters == INSTANCE MockSession WITH
  Tabs <- {t1, t2}, Slots <- {c1}, Works <- {"a", "b"},
  MaxKeys <- 2, MaxRevs <- 4, MaxRuns <- 2

MCInit ==
  \/ instance = "two tabs" /\ Init
  \/ instance = "fresh keys" /\ FreshKeys!Init
  \/ instance = "two writers" /\ TwoWriters!Init

MCNext ==
  /\ UNCHANGED instance
  /\ \/ instance = "two tabs" /\ Next
     \/ instance = "fresh keys" /\ FreshKeys!Next
     \/ instance = "two writers" /\ TwoWriters!Next

MCSpec == MCInit /\ [][MCNext]_<<instance, vars>>

AnySlotOrTab == Permutations({c1, c2}) \cup Permutations({t1, t2})
==============================================================================
