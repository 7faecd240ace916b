------------------------- MODULE AiBudgetExpiryLoop -------------------------
(***************************************************************************)
(* The body of expire_ai_budget_reservations, one iteration per step: each *)
(* expired row is closed and its month's and its day's aggregate rewritten *)
(* from the sum of the rows STILL running at that iteration.  The ledger   *)
(* takes the whole loop as one Settle; here the loop starts from any rows  *)
(* and any aggregates, also ones an older deployment left inconsistent     *)
(* with the rows, and runs in any order of the expired rows.  Its tables    *)
(* are the transaction's own: nobody sees them until it commits.           *)
(***************************************************************************)
EXTENDS AiBudgetLedger

CONSTANTS SomeRows,      \* rows the loop may find
          SomeAggregates \* [reserved, actual, floor] it may find

VARIABLES loopRows, loopDaily, loopMonthly, \* the tables as the transaction sees them
          loopClock,                        \* its now()
          rows0, daily0, monthly0           \* what the loop found

loopVars == <<loopRows, loopDaily, loopMonthly, loopClock, rows0, daily0, monthly0>>

\* What the table's checks admit; nothing relates the rows to the aggregates.
LoopAssumption ==
  /\ SomeRows \subseteq Row
  /\ SomeAggregates \subseteq [reserved : Nat, actual : Nat, floor : Nat]

Expired == {i \in Ids : loopRows[i].status = "running" /\ loopRows[i].expires <= loopClock}

\* Mutant: the floor misses what the aggregate had already been charged.
RewriteBareFloor(agg, row, remaining) ==
  LET charge == IF row.dispatched THEN row.requested ELSE 0
  IN  [agg EXCEPT
        !.reserved = Greatest(0, Greatest(@ - row.requested, remaining)),
        !.floor    = @ + charge,
        !.actual   = @ + charge,
        !.count    = @ + IF row.dispatched THEN 1 ELSE 0]

\* One row's rewrite of one aggregate, in the loop's words.
Rewrite(agg, row, remaining) ==
  LET charge == IF row.dispatched THEN row.requested ELSE 0
  IN  [agg EXCEPT
        !.reserved = Greatest(0, Greatest(@ - row.requested, remaining)),
        !.floor    = IF row.dispatched THEN Greatest(@, agg.actual) + charge ELSE @,
        !.actual   = @ + charge,
        !.count    = @ + IF row.dispatched THEN 1 ELSE 0]

CloseOne(i) ==
  LET row  == loopRows[i]
      d    == row.day
      m    == MonthOf[d]
      left == [loopRows EXCEPT ![i] = IF row.dispatched THEN Finalized(row, row.requested)
                                                        ELSE Released(row)]
  IN  /\ i \in Expired
      /\ loopRows' = left
      /\ loopMonthly' = [loopMonthly EXCEPT ![m] = Rewrite(@, row, HeldBy(left, InMonth(left, m)))]
      /\ loopDaily' = [loopDaily EXCEPT ![d] = Rewrite(@, row, HeldBy(left, OnDay(left, d)))]
      /\ UNCHANGED <<loopClock, rows0, daily0, monthly0>>

\* An aggregate with these amounts.
Found(amounts, empty) == [empty EXCEPT !.reserved = amounts.reserved, !.actual = amounts.actual,
                                       !.floor = amounts.floor]

LoopInit ==
  /\ rows0 \in [Ids -> SomeRows]
  /\ \E D \in [Days -> SomeAggregates] :
       daily0 = [d \in Days |-> Found(D[d], EmptyDay)]
  /\ \E M \in [Months -> SomeAggregates] :
       monthly0 = [m \in Months |-> Found(M[m], EmptyMonth)]
  /\ loopRows = rows0 /\ loopDaily = daily0 /\ loopMonthly = monthly0
  /\ loopClock = MaxTime

LoopNext == \E i \in Ids : CloseOne(i)

LoopSpec == LoopInit /\ [][LoopNext]_loopVars /\ WF_loopVars(LoopNext)

\* When the loop is through, rows and aggregates are what one Settle of the
\* swept rows gives, so taking the sweep as a single step of the ledger loses
\* nothing, in whatever order the rows were visited.
LoopIsOneSweep ==
  Expired = {} =>
    /\ loopRows = SweptRows(rows0, loopClock)
    /\ loopDaily = SettleDays(daily0, rows0, SweptRows(rows0, loopClock))
    /\ loopMonthly = SettleMonths(monthly0, rows0, SweptRows(rows0, loopClock))
=============================================================================
