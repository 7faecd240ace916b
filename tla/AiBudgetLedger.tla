--------------------------- MODULE AiBudgetLedger ---------------------------
(***************************************************************************)
(* The durable accounting ledger for interactive AI calls, one account:    *)
(* web/supabase/migrations/20260730190000_ai_budget_reservation_ledger.sql *)
(* and reconcile_ai_costs of 20260729120000.                               *)
(*                                                                         *)
(* Every RPC takes the account's advisory transaction lock first, so one   *)
(* RPC is one action; what stays stale is now(), the START of the          *)
(* transaction, which may precede the lock by up to LockWait ticks.  Every *)
(* RPC first sweeps the rows that have expired and an RPC that raises      *)
(* rolls its sweep back with everything else (it is no step at all).       *)
(***************************************************************************)
EXTENDS Integers, FiniteSets, Totals

CONSTANTS Ids,           \* reservation UUIDs the application may create
          Amounts,       \* usd micros an RPC may ask to reserve
          Charges,       \* usd micros a finalization may report
          AmountCap,     \* bound of both: 500000 and 4000000 in the code
          DailyLimit,    \* p_daily_limit_usd_micros
          RowCap,        \* rows per account and day, 256 in the code
          ReserveLease,  \* 10 minutes
          DispatchLease, \* 2 hours
          LockWait,      \* how old now() may be once the lock is held
          MaxTime,       \* bound of the clock
          Days, Months,  \* buckets of the aggregates
          DayOf,         \* [Times -> Days], Vietnam calendar day of an instant
          MonthOf,       \* [Days -> Months]
          ProviderTotals \* month totals the provider's cost API may report

Times == 0..MaxTime

ASSUME LedgerAssumption ==
  /\ IsFiniteSet(Ids)
  /\ AmountCap \in Nat
  /\ Amounts \subseteq 1..AmountCap
  /\ Charges \subseteq 0..AmountCap
  /\ DailyLimit \in Nat
  /\ RowCap \in Nat
  /\ ReserveLease \in Nat
  /\ DispatchLease \in Nat
  /\ LockWait \in Nat
  /\ MaxTime \in Nat
  /\ DayOf \in [Times -> Days]
  /\ MonthOf \in [Days -> Months]
  /\ ProviderTotals \subseteq Nat

VARIABLES rows,    \* ai_budget_reservations of the account, by reservation_id
          daily,   \* ai_usage_daily, by usage_date
          monthly, \* ai_usage_monthly, by month_start
          clock    \* the database's clock

ledgerVars == <<rows, daily, monthly, clock>>

-----------------------------------------------------------------------------
(* Rows.  "none" is an id that has no row; dispatched is dispatched_at is  *)
(* not null.  month_start is MonthOf of usage_date (the table's check).    *)

Row == [status     : {"none", "running", "finalized", "released"},
        requested  : 0..AmountCap,
        actual     : 0..AmountCap,
        day        : Days,
        dispatched : BOOLEAN,
        expires    : Nat]

NoRow == [status |-> "none", requested |-> 0, actual |-> 0,
          day |-> DayOf[0], dispatched |-> FALSE, expires |-> 0]

NewRow(amount, now) ==
  [status |-> "running", requested |-> amount, actual |-> 0,
   day |-> DayOf[now], dispatched |-> FALSE, expires |-> now + ReserveLease]

Finalized(row, charge) == [row EXCEPT !.status = "finalized", !.actual = charge]
Released(row) == [row EXCEPT !.status = "released"]
Dispatched(row, now) ==
  [row EXCEPT !.dispatched = TRUE,
              !.expires = Greatest(row.expires, now + DispatchLease)]

OnDay(R, d)   == {i \in Ids : R[i].status # "none" /\ R[i].day = d}
InMonth(R, m) == {i \in Ids : R[i].status # "none" /\ MonthOf[R[i].day] = m}
Running(R, B)   == {i \in B : R[i].status = "running"}
Charged(R, B)   == {i \in B : R[i].status = "finalized"}

Requested(R) == [i \in Ids |-> R[i].requested]
Actual(R)    == [i \in Ids |-> R[i].actual]

\* The two sums the ledger computes and the accounting it must agree with.
HeldBy(R, B)    == Total(Running(R, B), Requested(R), AmountCap)
ChargedTo(R, B) == Total(Charged(R, B), Actual(R), AmountCap)

-----------------------------------------------------------------------------
(* Aggregates.                                                             *)

DailyRow   == [reserved : Nat, actual : Nat, floor : Nat, count : Nat]
MonthlyRow == [reserved : Nat, actual : Nat, floor : Nat, count : Nat,
               provider : Nat, baseline : Nat]

EmptyDay   == [reserved |-> 0, actual |-> 0, floor |-> 0, count |-> 0]
EmptyMonth == [reserved |-> 0, actual |-> 0, floor |-> 0, count |-> 0,
               provider |-> 0, baseline |-> 0]

\* Mutant: the reported charge, not the held amount, leaves the counter.
SettleFreesCharge(agg, before, after, B) ==
  LET gone   == {i \in B : before[i].status = "running" /\ after[i].status # "running"}
      paid   == {i \in gone : after[i].status = "finalized"}
      charge == Total(paid, Actual(after), AmountCap)
  IN  IF gone = {} THEN agg
      ELSE [agg EXCEPT !.reserved = Greatest(0, @ - charge),
                       !.floor    = Greatest(@, agg.actual) + charge,
                       !.actual   = @ + charge,
                       !.count    = @ + Cardinality(paid)]

\* What leaving "running" does to the aggregate of one bucket.  The sweep's
\* loop applies it row by row; AiBudgetExpiryLoop checks that the loop and this
\* closed form agree from every aggregate, consistent or not.
Settle(agg, before, after, B) ==
  LET gone    == {i \in B : before[i].status = "running" /\ after[i].status # "running"}
      paid    == {i \in gone : after[i].status = "finalized"}
      charge  == Total(paid, Actual(after), AmountCap)
      freed   == Total(gone, Requested(before), AmountCap)
  IN  IF gone = {} THEN agg
      ELSE [agg EXCEPT
             !.reserved = Greatest(Greatest(0, agg.reserved - freed), HeldBy(after, B)),
             !.floor    = IF paid = {} THEN agg.floor
                          ELSE Greatest(agg.floor, agg.actual) + charge,
             !.actual   = agg.actual + charge,
             !.count    = agg.count + Cardinality(paid)]

SettleDays(D, before, after) ==
  [d \in Days |-> Settle(D[d], before, after, OnDay(before, d))]
SettleMonths(M, before, after) ==
  [m \in Months |-> Settle(M[m], before, after, InMonth(before, m))]

\* Mutants: an expired row is always released; one kind of row never expires.
SweptRowAlwaysReleased(row, now) ==
  IF row.status = "running" /\ row.expires <= now THEN Released(row) ELSE row
SweptRowKeepsDispatched(row, now) ==
  IF row.status = "running" /\ row.expires <= now /\ ~row.dispatched
    THEN Released(row) ELSE row
SweptRowKeepsUndispatched(row, now) ==
  IF row.status = "running" /\ row.expires <= now /\ row.dispatched
    THEN Finalized(row, row.requested) ELSE row

\* expire_ai_budget_reservations
SweptRow(row, now) ==
  IF row.status = "running" /\ row.expires <= now
    THEN IF row.dispatched THEN Finalized(row, row.requested) ELSE Released(row)
    ELSE row

SweptRows(R, now)  == [i \in Ids |-> SweptRow(R[i], now)]
Swept(now)         == SweptRows(rows, now)
SweptDaily(now)    == SettleDays(daily, rows, Swept(now))
SweptMonthly(now)  == SettleMonths(monthly, rows, Swept(now))

\* The transaction commits its sweep and nothing else.
OnlySweep(now) ==
  /\ rows' = Swept(now)
  /\ daily' = SweptDaily(now)
  /\ monthly' = SweptMonthly(now)

\* The transaction commits its sweep and then one row's closing.
SweepAndClose(now, after) ==
  /\ rows' = after
  /\ daily' = SettleDays(SweptDaily(now), Swept(now), after)
  /\ monthly' = SettleMonths(SweptMonthly(now), Swept(now), after)

-----------------------------------------------------------------------------
(* The RPCs.                                                               *)

\* now() of a transaction that holds the lock at this instant.
Starts == {t \in Times : clock - LockWait <= t /\ t <= clock}

\* Mutant: held amounts are forgotten.
AdmitsIgnoringHeld(id, amount, now) ==
  /\ Cardinality(OnDay(Swept(now), DayOf[now])) < RowCap
  /\ SweptDaily(now)[DayOf[now]].actual + amount <= DailyLimit

\* reserve: the checks between "no row with this id" and the insert.
Admits(id, amount, now) ==
  LET d    == DayOf[now]
      held == Greatest(SweptDaily(now)[d].reserved, HeldBy(Swept(now), OnDay(Swept(now), d)))
  IN  /\ Cardinality(OnDay(Swept(now), d)) < RowCap
      /\ Greatest(SweptDaily(now)[d].actual, SweptDaily(now)[d].floor)
           + held + amount <= DailyLimit

Admit(id, amount, now) ==
  LET d == DayOf[now]
      m == MonthOf[d]
      R == Swept(now)
  IN  /\ rows' = [R EXCEPT ![id] = NewRow(amount, now)]
      /\ daily' = [SweptDaily(now) EXCEPT
            ![d].reserved = Greatest(@, HeldBy(R, OnDay(R, d))) + amount,
            ![d].floor = Greatest(@, SweptDaily(now)[d].actual)]
      /\ monthly' = [SweptMonthly(now) EXCEPT
            ![m].reserved = Greatest(@, HeldBy(R, InMonth(R, m))) + amount]

\* A fresh id is admitted or refused; a repeated id gets its row back as it
\* stands; a repeated id with another amount raises.
Reserve(id, amount, now) ==
  \/ /\ Swept(now)[id].status = "none"
     /\ Admits(id, amount, now)
     /\ Admit(id, amount, now)
  \/ /\ Swept(now)[id].status = "none"
     /\ ~Admits(id, amount, now)
     /\ OnlySweep(now)
  \/ /\ Swept(now)[id].status # "none"
     /\ Swept(now)[id].requested = amount
     /\ OnlySweep(now)

MarkDispatched(id, now) ==
  \/ /\ Swept(now)[id].status = "running"
     /\ rows' = [Swept(now) EXCEPT ![id] = Dispatched(@, now)]
     /\ daily' = SweptDaily(now)
     /\ monthly' = SweptMonthly(now)
  \/ /\ Swept(now)[id].status \in {"finalized", "released"}
     /\ OnlySweep(now)

\* Mutant: a repeated finalize charges again.
FinalizeAgain(id, charge, now) ==
  /\ Swept(now)[id].status # "none"
  /\ Swept(now)[id].dispatched
  /\ SweepAndClose(now, [Swept(now) EXCEPT ![id] = Finalized(@, charge)])

Finalize(id, charge, now) ==
  \/ /\ Swept(now)[id].status = "running"
     /\ Swept(now)[id].dispatched
     /\ SweepAndClose(now, [Swept(now) EXCEPT ![id] = Finalized(@, charge)])
  \/ /\ Swept(now)[id].status \in {"finalized", "released"}
     /\ OnlySweep(now)

Release(id, now) ==
  \/ /\ Swept(now)[id].status = "running"
     /\ SweepAndClose(now, [Swept(now) EXCEPT ![id] = Released(@)])
  \/ /\ Swept(now)[id].status \in {"finalized", "released"}
     /\ OnlySweep(now)

\* reconcile_ai_costs takes no advisory lock and sweeps nothing; its row
\* locks serialize it against the RPCs, which lock the same month row first.
Reconcile(total, now) ==
  LET d == DayOf[now]
      m == MonthOf[d]
      M == monthly[m]
      sinceSync == Greatest(0, M.actual - M.baseline)
  IN  /\ monthly' = [monthly EXCEPT ![m] =
            [M EXCEPT !.floor = Greatest(Greatest(M.floor, M.actual),
                                         Greatest(M.provider + sinceSync, total)),
                      !.provider = total,
                      !.baseline = M.actual]]
      /\ daily' = [daily EXCEPT ![d].floor = daily[d].actual]
      /\ UNCHANGED rows

Tick == /\ clock < MaxTime
        /\ clock' = clock + 1
        /\ UNCHANGED <<rows, daily, monthly>>

-----------------------------------------------------------------------------
LedgerInit ==
  /\ rows = [i \in Ids |-> NoRow]
  /\ daily = [d \in Days |-> EmptyDay]
  /\ monthly = [m \in Months |-> EmptyMonth]
  /\ clock = 0

Rpc(id, now) ==
  \/ \E amount \in Amounts : Reserve(id, amount, now)
  \/ MarkDispatched(id, now)
  \/ \E charge \in Charges : Finalize(id, charge, now)
  \/ Release(id, now)

LedgerNext ==
  \/ \E now \in Starts : /\ \/ \E id \in Ids : Rpc(id, now)
                            \/ \E total \in ProviderTotals : Reconcile(total, now)
                         /\ UNCHANGED clock
  \/ Tick

LedgerSpec == LedgerInit /\ [][LedgerNext]_ledgerVars

-----------------------------------------------------------------------------
LedgerTypeOK ==
  /\ rows \in [Ids -> Row]
  /\ daily \in [Days -> DailyRow]
  /\ monthly \in [Months -> MonthlyRow]
  /\ clock \in Times

\* A held amount is in its day's and its month's reserved counter exactly as
\* long as its row is running: no lost release, no double release, and a
\* close on a later day still frees the counter of the day of admission.
ReservedMatchesRunningRows ==
  /\ \A d \in Days : daily[d].reserved = HeldBy(rows, OnDay(rows, d))
  /\ \A m \in Months : monthly[m].reserved = HeldBy(rows, InMonth(rows, m))

\* Cost and request counters hold every finalized row once, on the day and in
\* the month that admitted it, however often the call that closed it is
\* repeated and however late a sweep closes it.
ChargesMatchFinalizedRows ==
  /\ \A d \in Days :
        /\ daily[d].actual = ChargedTo(rows, OnDay(rows, d))
        /\ daily[d].count = Cardinality(Charged(rows, OnDay(rows, d)))
  /\ \A m \in Months :
        /\ monthly[m].actual = ChargedTo(rows, InMonth(rows, m))
        /\ monthly[m].count = Cardinality(Charged(rows, InMonth(rows, m)))

\* The daily allowance is drained by this ledger's charges alone: what the
\* provider bills the whole project never raises the day's floor above them.
DailyFloorIsWebOnly == \A d \in Days : daily[d].floor = daily[d].actual

\* However reserves, closes and sweeps interleave over midnight and behind
\* stale clocks, a day's held amounts and the part of its charges that was
\* reserved for stay within the limit; only a charge above its own
\* reservation can carry the day beyond it.
CoveredCharge(R) == [i \in Ids |-> Least(R[i].actual, R[i].requested)]
CommittedWithinDailyLimit ==
  \A d \in Days :
    HeldBy(rows, OnDay(rows, d))
      + Total(Charged(rows, OnDay(rows, d)), CoveredCharge(rows), AmountCap) <= DailyLimit

\* Reserve/close churn cannot create more than RowCap rows on one day.
RowsPerDayBounded == \A d \in Days : Cardinality(OnDay(rows, d)) <= RowCap

\* Nothing is ever charged for a row that no dispatch marker preceded.
OnlyDispatchedIsCharged ==
  \A i \in Ids : rows[i].status = "finalized" => rows[i].dispatched

\* A terminal row is never rewritten: a late release cannot free a charge, a
\* repeated finalize cannot change it and a repeated reserve cannot reopen it.
TerminalRowsFrozen ==
  [][\A i \in Ids : rows[i].status \in {"finalized", "released"}
                      => rows'[i] = rows[i]]_ledgerVars

\* The month's floor absorbs every charge on top of what it already held and
\* nothing else lowers it, whatever total the provider reports and however late.
MonthlyFloorAbsorbsCharges ==
  [][\A m \in Months :
       monthly'[m].floor >= monthly[m].floor
                              + Greatest(0, monthly'[m].actual - monthly[m].actual)]_ledgerVars
=============================================================================
