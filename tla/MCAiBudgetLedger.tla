-------------------------- MODULE MCAiBudgetLedger --------------------------
(* Small instance of AiBudgetLedger: days of MCTicksPerDay ticks; the first *)
(* day ends a month.  Or, chosen at the start, the loop of                  *)
(* AiBudgetExpiryLoop from any three rows, expired or live, on both days.   *)
EXTENDS AiBudgetExpiryLoop, TLC

CONSTANT MCTicksPerDay

VARIABLE instance

MCDayOf   == [t \in 0..MaxTime |-> t \div MCTicksPerDay]
MCDays    == {t \div MCTicksPerDay : t \in 0..MaxTime}
MCMonthOf == [d \in MCDays |-> IF d = 0 THEN 0 ELSE 1]
MCMonths  == {MCMonthOf[d] : d \in MCDays}

MCRows ==
  {[status |-> "running", requested |-> q, actual |-> 0, day |-> d,
    dispatched |-> s, expires |-> e] :
      q \in Amounts, d \in MCDays, s \in BOOLEAN, e \in {MaxTime, MaxTime + 1}}
  \cup {[status |-> "none", requested |-> 0, actual |-> 0, day |-> 0,
         dispatched |-> FALSE, expires |-> 0]}

\* Amounts that no table of these rows would have; the second is behind its charges.
MCAggregates == {[reserved |-> 3, actual |-> 0, floor |-> 1],
                 [reserved |-> 1, actual |-> 2, floor |-> 0]}

ASSUME RowsAssumption == LoopAssumption

NoLoop ==
  /\ rows0 = [i \in Ids |-> NoRow] /\ loopRows = rows0
  /\ daily0 = [d \in Days |-> EmptyDay] /\ loopDaily = daily0
  /\ monthly0 = [m \in Months |-> EmptyMonth] /\ loopMonthly = monthly0
  /\ loopClock = 0

Init ==
  /\ LedgerInit
  /\ \/ instance = "ledger" /\ NoLoop
     \/ instance = "loop" /\ LoopInit

Next ==
  /\ UNCHANGED instance
  /\ \/ instance = "ledger" /\ LedgerNext /\ UNCHANGED loopVars
     \/ instance = "loop" /\ LoopNext /\ UNCHANGED ledgerVars

Spec == Init /\ [][Next]_<<instance, ledgerVars, loopVars>>

MCSymmetry == Permutations(Ids)
=============================================================================
