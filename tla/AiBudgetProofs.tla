--------------------------- MODULE AiBudgetProofs ---------------------------
(***************************************************************************)
(* Proofs about the AI budget: first the ledger (AiBudgetLedger), then the *)
(* loop of its sweep (AiBudgetExpiryLoop), then the calls that use it      *)
(* (BudgetedCall).                                                         *)
(***************************************************************************)
EXTENDS BudgetedCall, AiBudgetExpiryLoop, TotalsProofs

-----------------------------------------------------------------------------
(***************************************************************************)
(* The ledger's accounting, for any number of reservations, any amounts,   *)
(* limits, leases, clocks and calendars: counters equal the rows they      *)
(* count, and admitted amounts stay within the daily limit.                *)
(*                                                                         *)
(* The argument: Sound relates any rows to any aggregates.  Closing rows   *)
(* with Settle keeps it, whether a sweep closes many rows or an RPC closes *)
(* one; inserting an admitted row keeps it; a dispatch marker changes no   *)
(* column it reads.  Every RPC is a composition of these.                  *)
(***************************************************************************)

SoundDay(R, agg, d) ==
  /\ agg.reserved = HeldBy(R, OnDay(R, d))
  /\ agg.actual = ChargedTo(R, OnDay(R, d))
  /\ agg.count = Cardinality(Charged(R, OnDay(R, d)))
  /\ agg.floor = agg.actual
  /\ HeldBy(R, OnDay(R, d))
       + Total(Charged(R, OnDay(R, d)), CoveredCharge(R), AmountCap) <= DailyLimit
  /\ Cardinality(OnDay(R, d)) <= RowCap

SoundMonth(R, agg, m) ==
  /\ agg.reserved = HeldBy(R, InMonth(R, m))
  /\ agg.actual = ChargedTo(R, InMonth(R, m))
  /\ agg.count = Cardinality(Charged(R, InMonth(R, m)))

Typed(R, D, M) ==
  /\ R \in [Ids -> Row]
  /\ D \in [Days -> DailyRow]
  /\ M \in [Months -> MonthlyRow]

Sound(R, D, M) ==
  /\ Typed(R, D, M)
  /\ \A d \in Days : SoundDay(R, D[d], d)
  /\ \A m \in Months : SoundMonth(R, M[m], m)
  /\ \A i \in Ids : R[i].status = "finalized" => R[i].dispatched

\* The inductive invariant: the invariants the runs check, taken together.
LedgerInv == Sound(rows, daily, monthly) /\ clock \in Times

\* What a sweep, a finalize and a release do to the rows: some running rows
\* become terminal, a finalized one only if it was dispatched.
Closing(R, S) ==
  \A i \in Ids :
    \/ S[i] = R[i]
    \/ /\ R[i].status = "running"
       /\ S[i].status \in {"finalized", "released"}
       /\ S[i].requested = R[i].requested
       /\ S[i].day = R[i].day
       /\ S[i].dispatched = R[i].dispatched
       /\ S[i].status = "finalized" => S[i].dispatched

Gone(R, S, B) == {i \in B : R[i].status = "running" /\ S[i].status # "running"}
Paid(R, S, B) == {i \in Gone(R, S, B) : S[i].status = "finalized"}

-----------------------------------------------------------------------------
(* Facts about totals over a ledger's rows.                                *)

\* Any set of rows is finite, and so are its parts.
LEMMA RowSetsFinite ==
  ASSUME NEW B \in SUBSET Ids
  PROVE  IsFiniteSet(B) /\ Cardinality(B) \in Nat
BY LedgerAssumption, FS_Subset, FS_CardinalityType

\* Held and charged sums are natural numbers.
LEMMA SumsAreNat ==
  ASSUME NEW B \in SUBSET Ids, NEW R, NEW f
  PROVE  /\ HeldBy(R, B) \in Nat
         /\ ChargedTo(R, B) \in Nat
         /\ Total(B, f, AmountCap) \in Nat
<1>1. Running(R, B) \in SUBSET Ids /\ Charged(R, B) \in SUBSET Ids
  BY DEF Running, Charged
<1>2. IsFiniteSet(Running(R, B)) /\ IsFiniteSet(Charged(R, B)) /\ IsFiniteSet(B)
  BY <1>1, RowSetsFinite
<1> QED
  BY <1>2, TotalIsNat, LedgerAssumption DEF HeldBy, ChargedTo

\* The total over a part is at most the total over the whole.
LEMMA TotalOfPart ==
  ASSUME NEW B \in SUBSET Ids, NEW C \in SUBSET B, NEW f
  PROVE  Total(C, f, AmountCap) <= Total(B, f, AmountCap)
<1>1. IsFiniteSet(C) /\ IsFiniteSet(B \ C)
  BY RowSetsFinite
<1>2. C \cap (B \ C) = {} /\ C \cup (B \ C) = B
  OBVIOUS
<1>3. Total(C \cup (B \ C), f, AmountCap)
        = Total(C, f, AmountCap) + Total(B \ C, f, AmountCap)
  BY <1>1, <1>2, TotalOfUnion, LedgerAssumption
<1>4. Total(C, f, AmountCap) \in Nat /\ Total(B \ C, f, AmountCap) \in Nat
  BY <1>1, TotalIsNat, LedgerAssumption
<1>5. Total(B, f, AmountCap) = Total(C, f, AmountCap) + Total(B \ C, f, AmountCap)
  BY <1>2, <1>3
<1> QED
  BY <1>4, <1>5

\* Closing rows moves them out of the held sum and the paid ones into the
\* charged sum and count; nothing else in the bucket moves.
LEMMA ClosingMovesSums ==
  ASSUME NEW R \in [Ids -> Row], NEW S \in [Ids -> Row], Closing(R, S),
         NEW B \in SUBSET Ids
  PROVE  /\ HeldBy(R, B) = HeldBy(S, B) + Total(Gone(R, S, B), Requested(R), AmountCap)
         /\ ChargedTo(S, B) = ChargedTo(R, B) + Total(Paid(R, S, B), Actual(S), AmountCap)
         /\ Cardinality(Charged(S, B))
              = Cardinality(Charged(R, B)) + Cardinality(Paid(R, S, B))
         /\ Total(Charged(S, B), CoveredCharge(S), AmountCap)
              <= Total(Charged(R, B), CoveredCharge(R), AmountCap)
                   + Total(Gone(R, S, B), Requested(R), AmountCap)
<1> DEFINE G == Gone(R, S, B)
           P == Paid(R, S, B)
           RR == Running(R, B)
           RS == Running(S, B)
           CR == Charged(R, B)
           CS == Charged(S, B)
<1>1. RR = RS \cup G /\ RS \cap G = {}
  BY DEF Running, Gone, Closing, Row
<1>2. CS = CR \cup P /\ CR \cap P = {}
  BY DEF Charged, Paid, Gone, Closing, Row
<1>3. /\ RS \in SUBSET Ids /\ G \in SUBSET Ids /\ P \in SUBSET G
      /\ CR \in SUBSET Ids /\ P \in SUBSET Ids
  BY DEF Running, Charged, Gone, Paid
<1>4. IsFiniteSet(RS) /\ IsFiniteSet(G) /\ IsFiniteSet(CR) /\ IsFiniteSet(P)
  BY <1>3, RowSetsFinite
<1>5. HeldBy(R, B) = HeldBy(S, B) + Total(G, Requested(R), AmountCap)
  <2>1. Total(RS \cup G, Requested(R), AmountCap)
          = Total(RS, Requested(R), AmountCap) + Total(G, Requested(R), AmountCap)
    BY <1>1, <1>4, TotalOfUnion, LedgerAssumption
  <2>2. \A i \in RS : Requested(R)[i] = Requested(S)[i]
    BY <1>3 DEF Running, Requested, Closing, Row
  <2>3. Total(RS, Requested(R), AmountCap) = Total(RS, Requested(S), AmountCap)
    BY <2>2, TotalCongruent, LedgerAssumption
  <2> QED
    BY <1>1, <2>1, <2>3 DEF HeldBy
<1>6. ChargedTo(S, B) = ChargedTo(R, B) + Total(P, Actual(S), AmountCap)
  <2>1. Total(CR \cup P, Actual(S), AmountCap)
          = Total(CR, Actual(S), AmountCap) + Total(P, Actual(S), AmountCap)
    BY <1>2, <1>4, TotalOfUnion, LedgerAssumption
  <2>2. \A i \in CR : Actual(S)[i] = Actual(R)[i]
    BY <1>3 DEF Charged, Actual, Closing, Row
  <2>3. Total(CR, Actual(S), AmountCap) = Total(CR, Actual(R), AmountCap)
    BY <2>2, TotalCongruent, LedgerAssumption
  <2> QED
    BY <1>2, <2>1, <2>3 DEF ChargedTo
<1>7. Cardinality(CS) = Cardinality(CR) + Cardinality(P)
  <2>1. Cardinality(CR \cup P)
          = Cardinality(CR) + Cardinality(P) - Cardinality(CR \cap P)
    BY <1>4, FS_Union
  <2>2. Cardinality(CR \cap P) = 0
    BY <1>2, FS_EmptySet
  <2>3. Cardinality(CR) \in Nat /\ Cardinality(P) \in Nat
    BY <1>4, FS_CardinalityType
  <2> QED
    BY <1>2, <2>1, <2>2, <2>3
<1>8. Total(CS, CoveredCharge(S), AmountCap)
        <= Total(CR, CoveredCharge(R), AmountCap) + Total(G, Requested(R), AmountCap)
  <2>1. Total(CR \cup P, CoveredCharge(S), AmountCap)
          = Total(CR, CoveredCharge(S), AmountCap) + Total(P, CoveredCharge(S), AmountCap)
    BY <1>2, <1>4, TotalOfUnion, LedgerAssumption
  <2>2. \A i \in CR : CoveredCharge(S)[i] = CoveredCharge(R)[i]
    BY <1>3 DEF Charged, CoveredCharge, Closing, Row
  <2>3. Total(CR, CoveredCharge(S), AmountCap) = Total(CR, CoveredCharge(R), AmountCap)
    BY <2>2, TotalCongruent, LedgerAssumption
  <2>4. \A i \in P : /\ CoveredCharge(S)[i] \in Int
                     /\ Requested(R)[i] \in Int
                     /\ CoveredCharge(S)[i] <= Requested(R)[i]
    <3>1. SUFFICES ASSUME NEW i \in P
                   PROVE  /\ CoveredCharge(S)[i] \in Int
                          /\ Requested(R)[i] \in Int
                          /\ CoveredCharge(S)[i] <= Requested(R)[i]
      OBVIOUS
    <3>2. i \in Ids /\ R[i] \in Row /\ S[i] \in Row
      BY <1>3
    <3>3. S[i].requested = R[i].requested
      BY <3>2 DEF Closing, Paid, Gone
    <3>4. R[i].requested \in Int /\ S[i].actual \in Int
      BY <3>2, LedgerAssumption DEF Row
    <3> QED
      BY <3>2, <3>3, <3>4 DEF CoveredCharge, Requested, Least
  <2>5. Total(P, CoveredCharge(S), AmountCap) <= Total(P, Requested(R), AmountCap)
    BY <1>4, <2>4, TotalMonotone, LedgerAssumption
  <2>6. Total(P, Requested(R), AmountCap) <= Total(G, Requested(R), AmountCap)
    BY <1>3, TotalOfPart
  <2>7. /\ Total(P, CoveredCharge(S), AmountCap) \in Nat
        /\ Total(CR, CoveredCharge(R), AmountCap) \in Nat
        /\ Total(P, Requested(R), AmountCap) \in Nat
        /\ Total(G, Requested(R), AmountCap) \in Nat
    BY <1>3, SumsAreNat
  <2> QED
    BY <1>2, <2>1, <2>3, <2>5, <2>6, <2>7
<1> QED
  BY <1>5, <1>6, <1>7, <1>8

\* What Settle gives, field by field, for a daily or a monthly aggregate.
LEMMA SettleFields ==
  ASSUME NEW R, NEW S, NEW B, NEW agg \in DailyRow \cup MonthlyRow,
         Gone(R, S, B) # {}
  PROVE  LET T == Settle(agg, R, S, B)
             charge == Total(Paid(R, S, B), Actual(S), AmountCap)
             freed == Total(Gone(R, S, B), Requested(R), AmountCap)
         IN  /\ T.reserved = Greatest(Greatest(0, agg.reserved - freed), HeldBy(S, B))
             /\ T.actual = agg.actual + charge
             /\ T.count = agg.count + Cardinality(Paid(R, S, B))
             /\ T.floor = IF Paid(R, S, B) = {} THEN agg.floor
                          ELSE Greatest(agg.floor, agg.actual) + charge
<1>1. CASE agg \in DailyRow
  BY <1>1 DEF Settle, Gone, Paid, DailyRow
<1>2. CASE agg \in MonthlyRow
  BY <1>2 DEF Settle, Gone, Paid, MonthlyRow
<1> QED
  BY <1>1, <1>2

\* Settling a bucket whose counters match its rows gives counters that match
\* the closed rows, and a floor that equalled the actual still does.
LEMMA SettleAccounts ==
  ASSUME NEW R \in [Ids -> Row], NEW S \in [Ids -> Row], Closing(R, S),
         NEW B \in SUBSET Ids, NEW agg \in DailyRow \cup MonthlyRow,
         agg.reserved = HeldBy(R, B),
         agg.actual = ChargedTo(R, B),
         agg.count = Cardinality(Charged(R, B))
  PROVE  LET T == Settle(agg, R, S, B)
         IN  /\ T.reserved = HeldBy(S, B)
             /\ T.actual = ChargedTo(S, B)
             /\ T.count = Cardinality(Charged(S, B))
             /\ agg.floor = agg.actual => T.floor = T.actual
             /\ T.floor \in Nat
<1> DEFINE G == Gone(R, S, B)
           P == Paid(R, S, B)
           T == Settle(agg, R, S, B)
           charge == Total(P, Actual(S), AmountCap)
           freed == Total(G, Requested(R), AmountCap)
<1>1. G \in SUBSET Ids /\ P \in SUBSET Ids /\ P \in SUBSET G
  BY DEF Gone, Paid
<1>2. /\ HeldBy(R, B) = HeldBy(S, B) + freed
      /\ ChargedTo(S, B) = ChargedTo(R, B) + charge
      /\ Cardinality(Charged(S, B)) = Cardinality(Charged(R, B)) + Cardinality(P)
  BY ClosingMovesSums
<1>3. /\ freed \in Nat /\ charge \in Nat
      /\ HeldBy(S, B) \in Nat /\ HeldBy(R, B) \in Nat /\ ChargedTo(R, B) \in Nat
  BY <1>1, SumsAreNat
<1>4. agg.floor \in Nat
  BY DEF DailyRow, MonthlyRow
<1>5. CASE G = {}
  <2>1. P = {}
    BY <1>1, <1>5
  <2>2. freed = 0 /\ charge = 0
    BY <1>5, <2>1, TotalOfNone, LedgerAssumption
  <2>3. Cardinality(P) = 0
    BY <2>1, FS_EmptySet
  <2>4. T = agg
    BY <1>5 DEF Settle, Gone
  <2>5. Charged(R, B) \in SUBSET Ids
    BY DEF Charged
  <2>6. Cardinality(Charged(R, B)) \in Nat
    BY <2>5, RowSetsFinite
  <2> HIDE DEF G, P, T, charge, freed
  <2> QED
    BY <1>2, <1>3, <1>4, <2>2, <2>3, <2>4, <2>6 DEF T
<1>6. CASE G # {}
  <2>1. /\ T.reserved = Greatest(Greatest(0, agg.reserved - freed), HeldBy(S, B))
        /\ T.actual = agg.actual + charge
        /\ T.count = agg.count + Cardinality(P)
        /\ T.floor = IF P = {} THEN agg.floor ELSE Greatest(agg.floor, agg.actual) + charge
    BY <1>6, SettleFields
  <2>2. P = {} => charge = 0
    BY TotalOfNone, LedgerAssumption
  <2> HIDE DEF G, P, T, charge, freed
  <2>3. T.reserved = HeldBy(S, B)
    BY <1>2, <1>3, <2>1 DEF Greatest
  <2>4. T.actual = ChargedTo(S, B) /\ T.count = Cardinality(Charged(S, B))
    BY <1>2, <2>1
  <2>5. agg.floor = agg.actual => T.floor = T.actual
    BY <1>3, <1>4, <2>1, <2>2 DEF Greatest
  <2>6. T.floor \in Nat
    BY <1>3, <1>4, <2>1 DEF Greatest
  <2> QED
    BY <2>3, <2>4, <2>5, <2>6 DEF T
<1> QED
  BY <1>5, <1>6

\* Settle returns an aggregate of the same table.
LEMMA SettleTyped ==
  ASSUME NEW R \in [Ids -> Row], NEW S \in [Ids -> Row], Closing(R, S),
         NEW B \in SUBSET Ids, NEW agg \in DailyRow \cup MonthlyRow
  PROVE  /\ agg \in DailyRow => Settle(agg, R, S, B) \in DailyRow
         /\ agg \in MonthlyRow => Settle(agg, R, S, B) \in MonthlyRow
<1> DEFINE G == Gone(R, S, B)
           P == Paid(R, S, B)
           charge == Total(P, Actual(S), AmountCap)
           freed == Total(G, Requested(R), AmountCap)
<1>1. G \in SUBSET Ids /\ P \in SUBSET Ids
  BY DEF Gone, Paid
<1>2. freed \in Nat /\ charge \in Nat /\ HeldBy(S, B) \in Nat /\ Cardinality(P) \in Nat
  BY <1>1, SumsAreNat, RowSetsFinite
<1>3. Settle(agg, R, S, B) =
        IF G = {} THEN agg
        ELSE [agg EXCEPT
               !.reserved = Greatest(Greatest(0, agg.reserved - freed), HeldBy(S, B)),
               !.floor    = IF P = {} THEN agg.floor
                            ELSE Greatest(agg.floor, agg.actual) + charge,
               !.actual   = agg.actual + charge,
               !.count    = agg.count + Cardinality(P)]
  BY DEF Settle, Gone, Paid
<1>4. /\ agg.reserved \in Nat /\ agg.floor \in Nat
      /\ agg.actual \in Nat /\ agg.count \in Nat
  BY DEF DailyRow, MonthlyRow
<1> HIDE DEF G, P, charge, freed
<1>5. /\ Greatest(Greatest(0, agg.reserved - freed), HeldBy(S, B)) \in Nat
      /\ (IF P = {} THEN agg.floor ELSE Greatest(agg.floor, agg.actual) + charge) \in Nat
      /\ agg.actual + charge \in Nat
      /\ agg.count + Cardinality(P) \in Nat
  BY <1>2, <1>4 DEF Greatest
<1>6. ASSUME agg \in DailyRow PROVE Settle(agg, R, S, B) \in DailyRow
  BY <1>3, <1>5, <1>6 DEF DailyRow
<1>7. ASSUME agg \in MonthlyRow PROVE Settle(agg, R, S, B) \in MonthlyRow
  BY <1>3, <1>5, <1>7 DEF MonthlyRow
<1> QED
  BY <1>6, <1>7

-----------------------------------------------------------------------------
(* The steps of an RPC keep Sound.                                         *)

\* Closing rows does not move a row to another bucket.
LEMMA ClosingKeepsBuckets ==
  ASSUME NEW R \in [Ids -> Row], NEW S \in [Ids -> Row], Closing(R, S)
  PROVE  /\ \A d : OnDay(S, d) = OnDay(R, d)
         /\ \A m : InMonth(S, m) = InMonth(R, m)
BY DEF OnDay, InMonth, Closing, Row

\* Rows closed and both aggregates settled: the ledger stays sound.
LEMMA CloseSound ==
  ASSUME NEW R, NEW D, NEW M, Sound(R, D, M),
         NEW S \in [Ids -> Row], Closing(R, S)
  PROVE  Sound(S, SettleDays(D, R, S), SettleMonths(M, R, S))
<1>1. /\ R \in [Ids -> Row]
      /\ D \in [Days -> DailyRow]
      /\ M \in [Months -> MonthlyRow]
  BY DEF Sound, Typed
<1>2. /\ \A d : OnDay(S, d) = OnDay(R, d) /\ OnDay(R, d) \in SUBSET Ids
      /\ \A m : InMonth(S, m) = InMonth(R, m) /\ InMonth(R, m) \in SUBSET Ids
  BY <1>1, ClosingKeepsBuckets DEF OnDay, InMonth
<1>3. Typed(S, SettleDays(D, R, S), SettleMonths(M, R, S))
  <2>1. \A d \in Days : Settle(D[d], R, S, OnDay(R, d)) \in DailyRow
    BY <1>1, <1>2, SettleTyped
  <2>2. \A m \in Months : Settle(M[m], R, S, InMonth(R, m)) \in MonthlyRow
    BY <1>1, <1>2, SettleTyped
  <2> QED
    BY <2>1, <2>2 DEF Typed, SettleDays, SettleMonths
<1>4. ASSUME NEW d \in Days
      PROVE  SoundDay(S, SettleDays(D, R, S)[d], d)
  <2> DEFINE B == OnDay(R, d)
             T == Settle(D[d], R, S, B)
  <2>1. SoundDay(R, D[d], d) /\ D[d] \in DailyRow
    BY <1>1 DEF Sound
  <2>2. /\ T.reserved = HeldBy(S, B)
        /\ T.actual = ChargedTo(S, B)
        /\ T.count = Cardinality(Charged(S, B))
        /\ T.floor = T.actual
    BY <1>1, <1>2, <2>1, SettleAccounts DEF SoundDay
  <2>3. HeldBy(S, B) + Total(Charged(S, B), CoveredCharge(S), AmountCap) <= DailyLimit
    <3>1. /\ HeldBy(R, B) = HeldBy(S, B) + Total(Gone(R, S, B), Requested(R), AmountCap)
          /\ Total(Charged(S, B), CoveredCharge(S), AmountCap)
               <= Total(Charged(R, B), CoveredCharge(R), AmountCap)
                    + Total(Gone(R, S, B), Requested(R), AmountCap)
      BY <1>1, <1>2, ClosingMovesSums
    <3>2. HeldBy(R, B) + Total(Charged(R, B), CoveredCharge(R), AmountCap) <= DailyLimit
      BY <2>1 DEF SoundDay
    <3>3. /\ HeldBy(S, B) \in Nat /\ HeldBy(R, B) \in Nat
          /\ Total(Gone(R, S, B), Requested(R), AmountCap) \in Nat
          /\ Total(Charged(S, B), CoveredCharge(S), AmountCap) \in Nat
          /\ Total(Charged(R, B), CoveredCharge(R), AmountCap) \in Nat
      <4>1. /\ Gone(R, S, B) \in SUBSET Ids /\ Charged(S, B) \in SUBSET Ids
            /\ Charged(R, B) \in SUBSET Ids
        BY <1>2 DEF Gone, Charged
      <4> QED
        BY <1>2, <4>1, SumsAreNat
    <3> QED
      BY <3>1, <3>2, <3>3, LedgerAssumption
  <2>4. Cardinality(OnDay(S, d)) <= RowCap
    BY <1>2, <2>1 DEF SoundDay
  <2>5. SettleDays(D, R, S)[d] = T
    BY DEF SettleDays
  <2>6. OnDay(S, d) = B
    BY <1>2
  <2> HIDE DEF B, T
  <2> QED
    BY <2>2, <2>3, <2>4, <2>5, <2>6 DEF SoundDay
<1>5. ASSUME NEW m \in Months
      PROVE  SoundMonth(S, SettleMonths(M, R, S)[m], m)
  <2>1. SoundMonth(R, M[m], m) /\ M[m] \in MonthlyRow
    BY <1>1 DEF Sound
  <2>2. LET T == Settle(M[m], R, S, InMonth(R, m))
        IN  /\ T.reserved = HeldBy(S, InMonth(R, m))
            /\ T.actual = ChargedTo(S, InMonth(R, m))
            /\ T.count = Cardinality(Charged(S, InMonth(R, m)))
    BY <1>1, <1>2, <2>1, SettleAccounts DEF SoundMonth
  <2> QED
    BY <1>2, <2>2 DEF SoundMonth, SettleMonths
<1>6. \A i \in Ids : S[i].status = "finalized" => S[i].dispatched
  BY DEF Sound, Closing
<1> QED
  BY <1>3, <1>4, <1>5, <1>6 DEF Sound

\* The sweep closes rows, finalizing only the dispatched ones, so a swept
\* ledger is sound.
LEMMA SweepSound ==
  ASSUME Sound(rows, daily, monthly), NEW now \in Times
  PROVE  /\ Swept(now) \in [Ids -> Row]
         /\ Closing(rows, Swept(now))
         /\ Sound(Swept(now), SweptDaily(now), SweptMonthly(now))
<1>1. rows \in [Ids -> Row]
  BY DEF Sound, Typed
<1>2. ASSUME NEW i \in Ids
      PROVE  /\ Swept(now)[i] \in Row
             /\ \/ Swept(now)[i] = rows[i]
                \/ /\ rows[i].status = "running"
                   /\ Swept(now)[i].status \in {"finalized", "released"}
                   /\ Swept(now)[i].requested = rows[i].requested
                   /\ Swept(now)[i].day = rows[i].day
                   /\ Swept(now)[i].dispatched = rows[i].dispatched
                   /\ Swept(now)[i].status = "finalized" => Swept(now)[i].dispatched
  <2>1. rows[i] \in Row /\ Swept(now)[i] = SweptRow(rows[i], now)
    BY <1>1 DEF Swept, SweptRows
  <2>2. CASE ~(rows[i].status = "running" /\ rows[i].expires <= now)
    BY <2>1, <2>2 DEF SweptRow
  <2>3. CASE /\ rows[i].status = "running" /\ rows[i].expires <= now
             /\ rows[i].dispatched
    BY <2>1, <2>3 DEF SweptRow, Finalized, Row
  <2>4. CASE /\ rows[i].status = "running" /\ rows[i].expires <= now
             /\ ~rows[i].dispatched
    BY <2>1, <2>4 DEF SweptRow, Released, Row
  <2> QED
    BY <2>2, <2>3, <2>4
<1>3. Swept(now) \in [Ids -> Row]
  BY <1>2 DEF Swept, SweptRows
<1>4. Closing(rows, Swept(now))
  BY <1>2 DEF Closing
<1> QED
  BY <1>3, <1>4, CloseSound DEF SweptDaily, SweptMonthly

\* Closing one running row on top of a sound ledger keeps it sound.
LEMMA CloseOneSound ==
  ASSUME NEW R, NEW D, NEW M, Sound(R, D, M),
         NEW id \in Ids, R[id].status = "running",
         NEW row \in Row, row.status \in {"finalized", "released"},
         row.requested = R[id].requested, row.day = R[id].day,
         row.dispatched = R[id].dispatched,
         row.status = "finalized" => row.dispatched
  PROVE  LET S == [R EXCEPT ![id] = row]
         IN  Sound(S, SettleDays(D, R, S), SettleMonths(M, R, S))
<1> DEFINE S == [R EXCEPT ![id] = row]
<1>1. R \in [Ids -> Row]
  BY DEF Sound, Typed
<1>2. S \in [Ids -> Row]
  BY <1>1
<1>3. Closing(R, S)
  BY <1>1 DEF Closing
<1> QED
  BY <1>2, <1>3, CloseSound

\* A row that only gains a dispatch marker or a later expiry leaves every sum
\* and every count alone.
LEMMA DispatchSound ==
  ASSUME NEW R, NEW D, NEW M, Sound(R, D, M),
         NEW id \in Ids, R[id].status = "running", NEW now \in Times
  PROVE  Sound([R EXCEPT ![id] = Dispatched(R[id], now)], D, M)
<1> DEFINE S == [R EXCEPT ![id] = Dispatched(R[id], now)]
<1>1. R \in [Ids -> Row]
  BY DEF Sound, Typed
<1>2. Dispatched(R[id], now) \in Row
  <2>1. R[id] \in Row
    BY <1>1
  <2>2. Greatest(R[id].expires, now + DispatchLease) \in Nat
    BY <2>1, LedgerAssumption DEF Greatest, Row, Times
  <2> HIDE DEF S
  <2> QED
    BY <2>1, <2>2 DEF Dispatched, Row
<1>3. \A i \in Ids : /\ S[i].status = R[i].status
                     /\ S[i].requested = R[i].requested
                     /\ S[i].actual = R[i].actual
                     /\ S[i].day = R[i].day
                     /\ R[i].dispatched => S[i].dispatched
  BY <1>1 DEF Dispatched, Row
<1>4. S \in [Ids -> Row]
  BY <1>1, <1>2
<1> HIDE DEF S
<1>5. \A B \in SUBSET Ids : Running(S, B) = Running(R, B) /\ Charged(S, B) = Charged(R, B)
  BY <1>3 DEF Running, Charged
<1>6. /\ Requested(S) = Requested(R)
      /\ Actual(S) = Actual(R)
      /\ CoveredCharge(S) = CoveredCharge(R)
  BY <1>3 DEF Requested, Actual, CoveredCharge
<1>7. /\ \A d : OnDay(S, d) = OnDay(R, d) /\ OnDay(R, d) \in SUBSET Ids
      /\ \A m : InMonth(S, m) = InMonth(R, m) /\ InMonth(R, m) \in SUBSET Ids
  BY <1>3 DEF OnDay, InMonth
<1>8. \A B \in SUBSET Ids : HeldBy(S, B) = HeldBy(R, B) /\ ChargedTo(S, B) = ChargedTo(R, B)
  BY <1>5, <1>6 DEF HeldBy, ChargedTo
<1>9. \A d \in Days : SoundDay(S, D[d], d)
  BY <1>5, <1>6, <1>7, <1>8 DEF Sound, SoundDay
<1>10. \A m \in Months : SoundMonth(S, M[m], m)
  BY <1>5, <1>7, <1>8 DEF Sound, SoundMonth
<1>11. Typed(S, D, M)
  BY <1>4 DEF Sound, Typed
<1>12. \A i \in Ids : S[i].status = "finalized" => S[i].dispatched
  BY <1>3 DEF Sound
<1> QED
  BY <1>9, <1>10, <1>11, <1>12 DEF Sound, S

\* One more row of a bucket: the held sum grows by its request, and charges
\* stay; rows of other buckets do not move.
LEMMA InsertMovesSums ==
  ASSUME NEW R \in [Ids -> Row], NEW id \in Ids, R[id].status = "none",
         NEW row \in Row, row.status = "running", NEW B \in SUBSET Ids, id \notin B
  PROVE  LET S == [R EXCEPT ![id] = row]
         IN  /\ HeldBy(S, B) = HeldBy(R, B)
             /\ HeldBy(S, B \cup {id}) = HeldBy(R, B) + row.requested
             /\ Charged(S, B) = Charged(R, B)
             /\ Charged(S, B \cup {id}) = Charged(R, B)
             /\ ChargedTo(S, B) = ChargedTo(R, B)
             /\ Total(Charged(R, B), CoveredCharge(S), AmountCap)
                  = Total(Charged(R, B), CoveredCharge(R), AmountCap)
<1> DEFINE S == [R EXCEPT ![id] = row]
<1>1. \A i \in Ids : S[i] = IF i = id THEN row ELSE R[i]
  OBVIOUS
<1>2. \A i \in B : i \in Ids /\ S[i] = R[i]
  BY <1>1
<1> HIDE DEF S
<1>3. Running(S, B) = Running(R, B) /\ Charged(S, B) = Charged(R, B)
  BY <1>2 DEF Running, Charged
<1>4. /\ Running(S, B \cup {id}) = Running(R, B) \cup {id}
      /\ Charged(S, B \cup {id}) = Charged(R, B)
      /\ Running(R, B) \cap {id} = {}
  BY <1>1, <1>2 DEF Running, Charged
<1>5. /\ \A i \in Running(R, B) : Requested(S)[i] = Requested(R)[i]
      /\ \A i \in Charged(R, B) : Actual(S)[i] = Actual(R)[i]
      /\ \A i \in Charged(R, B) : CoveredCharge(S)[i] = CoveredCharge(R)[i]
  BY <1>2 DEF Running, Charged, Requested, Actual, CoveredCharge
<1>6. /\ Total(Running(R, B), Requested(S), AmountCap) = HeldBy(R, B)
      /\ Total(Charged(R, B), Actual(S), AmountCap) = ChargedTo(R, B)
      /\ Total(Charged(R, B), CoveredCharge(S), AmountCap)
           = Total(Charged(R, B), CoveredCharge(R), AmountCap)
  BY <1>5, TotalCongruent, LedgerAssumption DEF HeldBy, ChargedTo
<1>7. IsFiniteSet(Running(R, B)) /\ IsFiniteSet({id})
  <2>1. Running(R, B) \in SUBSET Ids /\ {id} \in SUBSET Ids
    BY DEF Running
  <2> QED
    BY <2>1, RowSetsFinite
<1>8. Total({id}, Requested(S), AmountCap) = row.requested
  <2>1. Requested(S)[id] = row.requested /\ Requested(S)[id] \in 0..AmountCap
    BY <1>1 DEF Requested, Row
  <2> QED
    BY <2>1, TotalOfOne, LedgerAssumption
<1>9. Total(Running(R, B) \cup {id}, Requested(S), AmountCap)
        = HeldBy(R, B) + row.requested
  <2>1. Total(Running(R, B) \cup {id}, Requested(S), AmountCap)
          = Total(Running(R, B), Requested(S), AmountCap)
              + Total({id}, Requested(S), AmountCap)
    BY <1>4, <1>7, TotalOfUnion, LedgerAssumption
  <2> QED
    BY <1>6, <1>8, <2>1
<1> QED
  BY <1>3, <1>4, <1>6, <1>9 DEF HeldBy, ChargedTo, S

\* An admitted reservation fits under the limit next to everything held and
\* charged on its day, so inserting it keeps the ledger sound.
LEMMA AdmitSound ==
  ASSUME NEW R, NEW D, NEW M, Sound(R, D, M),
         NEW id \in Ids, NEW amount \in Amounts, NEW now \in Times,
         R[id].status = "none",
         NEW d, d = DayOf[now], NEW m, m = MonthOf[d],
         Cardinality(OnDay(R, d)) < RowCap,
         Greatest(D[d].actual, D[d].floor)
           + Greatest(D[d].reserved, HeldBy(R, OnDay(R, d))) + amount <= DailyLimit
  PROVE  Sound([R EXCEPT ![id] = NewRow(amount, now)],
               [D EXCEPT ![d].reserved = Greatest(@, HeldBy(R, OnDay(R, d))) + amount,
                         ![d].floor = Greatest(@, D[d].actual)],
               [M EXCEPT ![m].reserved = Greatest(@, HeldBy(R, InMonth(R, m))) + amount])
<1> DEFINE row == NewRow(amount, now)
           S == [R EXCEPT ![id] = row]
           D2 == [D EXCEPT ![d].reserved = Greatest(@, HeldBy(R, OnDay(R, d))) + amount,
                           ![d].floor = Greatest(@, D[d].actual)]
           M2 == [M EXCEPT ![m].reserved = Greatest(@, HeldBy(R, InMonth(R, m))) + amount]
<1>1. /\ R \in [Ids -> Row]
      /\ D \in [Days -> DailyRow]
      /\ M \in [Months -> MonthlyRow]
  BY DEF Sound, Typed
<1>2. d \in Days /\ m \in Months
  BY LedgerAssumption
<1>3. /\ row \in Row
      /\ row.status = "running" /\ row.requested = amount /\ row.day = d
  BY <1>2, LedgerAssumption DEF NewRow, Row, Times
<1>4. amount \in Nat
  BY LedgerAssumption
<1>5. S \in [Ids -> Row]
  BY <1>1, <1>3
<1>6. \A i \in Ids : S[i] = IF i = id THEN row ELSE R[i]
  BY <1>1
<1>7. /\ \A e : OnDay(S, e) = IF e = d THEN OnDay(R, e) \cup {id} ELSE OnDay(R, e)
      /\ \A e : InMonth(S, e) = IF e = m THEN InMonth(R, e) \cup {id} ELSE InMonth(R, e)
  BY <1>3, <1>6 DEF OnDay, InMonth
<1>8. /\ \A e : OnDay(R, e) \in SUBSET Ids /\ id \notin OnDay(R, e)
      /\ \A e : InMonth(R, e) \in SUBSET Ids /\ id \notin InMonth(R, e)
  BY DEF OnDay, InMonth
<1>9. \A B \in SUBSET Ids : id \notin B =>
        /\ HeldBy(S, B) = HeldBy(R, B)
        /\ HeldBy(S, B \cup {id}) = HeldBy(R, B) + amount
        /\ Charged(S, B) = Charged(R, B)
        /\ Charged(S, B \cup {id}) = Charged(R, B)
        /\ ChargedTo(S, B) = ChargedTo(R, B)
        /\ ChargedTo(S, B \cup {id}) = ChargedTo(R, B)
        /\ Total(Charged(R, B), CoveredCharge(S), AmountCap)
             = Total(Charged(R, B), CoveredCharge(R), AmountCap)
  <2>1. SUFFICES ASSUME NEW B \in SUBSET Ids, id \notin B
                 PROVE  /\ HeldBy(S, B) = HeldBy(R, B)
                        /\ HeldBy(S, B \cup {id}) = HeldBy(R, B) + amount
                        /\ Charged(S, B) = Charged(R, B)
                        /\ Charged(S, B \cup {id}) = Charged(R, B)
                        /\ ChargedTo(S, B) = ChargedTo(R, B)
                        /\ ChargedTo(S, B \cup {id}) = ChargedTo(R, B)
                        /\ Total(Charged(R, B), CoveredCharge(S), AmountCap)
                             = Total(Charged(R, B), CoveredCharge(R), AmountCap)
    OBVIOUS
  <2> HIDE DEF row
  <2>2. /\ HeldBy(S, B) = HeldBy(R, B)
        /\ HeldBy(S, B \cup {id}) = HeldBy(R, B) + row.requested
        /\ Charged(S, B) = Charged(R, B)
        /\ Charged(S, B \cup {id}) = Charged(R, B)
        /\ ChargedTo(S, B) = ChargedTo(R, B)
        /\ Total(Charged(R, B), CoveredCharge(S), AmountCap)
             = Total(Charged(R, B), CoveredCharge(R), AmountCap)
    BY <1>1, <1>3, <2>1, InsertMovesSums
  <2> HIDE DEF S
  <2> QED
    BY <1>3, <2>2 DEF ChargedTo
<1> HIDE DEF row, S
<1>10. /\ D2 \in [Days -> DailyRow]
       /\ D2[d].reserved = HeldBy(R, OnDay(R, d)) + amount
       /\ D2[d].floor = D2[d].actual
       /\ D2[d].actual = D[d].actual /\ D2[d].count = D[d].count
       /\ \A e \in Days : e # d => D2[e] = D[e]
  <2>1. /\ D[d] \in DailyRow
        /\ D[d].reserved = HeldBy(R, OnDay(R, d)) /\ D[d].floor = D[d].actual
    BY <1>1, <1>2 DEF Sound, SoundDay
  <2>2. /\ D[d].reserved \in Nat /\ D[d].actual \in Nat
        /\ D[d].floor \in Nat /\ D[d].count \in Nat
    BY <2>1 DEF DailyRow
  <2>3. /\ Greatest(D[d].reserved, HeldBy(R, OnDay(R, d))) + amount
             = HeldBy(R, OnDay(R, d)) + amount
        /\ HeldBy(R, OnDay(R, d)) + amount \in Nat
        /\ Greatest(D[d].floor, D[d].actual) = D[d].actual
    BY <1>4, <2>1, <2>2 DEF Greatest
  <2>4. D2 = [D EXCEPT ![d] = [D[d] EXCEPT
                 !.reserved = Greatest(D[d].reserved, HeldBy(R, OnDay(R, d))) + amount,
                 !.floor = Greatest(D[d].floor, D[d].actual)]]
    BY <1>1, <1>2, <2>1 DEF DailyRow
  <2> HIDE DEF D2
  <2> QED
    BY <1>1, <1>2, <2>1, <2>2, <2>3, <2>4 DEF DailyRow
<1>11. /\ M2 \in [Months -> MonthlyRow]
       /\ M2[m].reserved = HeldBy(R, InMonth(R, m)) + amount
       /\ M2[m].actual = M[m].actual /\ M2[m].count = M[m].count
       /\ \A e \in Months : e # m => M2[e] = M[e]
  <2>1. M[m] \in MonthlyRow /\ M[m].reserved = HeldBy(R, InMonth(R, m))
    BY <1>1, <1>2 DEF Sound, SoundMonth
  <2>2. M[m].reserved \in Nat
    BY <2>1 DEF MonthlyRow
  <2>3. /\ Greatest(M[m].reserved, HeldBy(R, InMonth(R, m))) + amount
             = HeldBy(R, InMonth(R, m)) + amount
        /\ HeldBy(R, InMonth(R, m)) + amount \in Nat
    BY <1>4, <2>1, <2>2 DEF Greatest
  <2> QED
    BY <1>1, <1>2, <2>1, <2>3 DEF MonthlyRow
<1> HIDE DEF D2, M2
<1>12. ASSUME NEW e \in Days PROVE SoundDay(S, D2[e], e)
  <2>1. SoundDay(R, D[e], e) /\ D[e] \in DailyRow
    BY <1>1 DEF Sound
  <2>2. CASE e # d
    <3>1. OnDay(S, e) = OnDay(R, e) /\ D2[e] = D[e]
      BY <1>7, <1>10, <2>2
    <3> QED
      BY <1>8, <1>9, <2>1, <3>1 DEF SoundDay
  <2>3. CASE e = d
    <3> DEFINE B == OnDay(R, d)
    <3>1. OnDay(S, e) = B \cup {id} /\ B \in SUBSET Ids /\ id \notin B
      BY <1>7, <1>8, <2>3
    <3>2. /\ D[d].reserved = HeldBy(R, B) /\ D[d].actual = ChargedTo(R, B)
          /\ D[d].count = Cardinality(Charged(R, B)) /\ D[d].floor = D[d].actual
      BY <2>1, <2>3 DEF SoundDay
    <3>3. HeldBy(R, B) + amount + Total(Charged(R, B), CoveredCharge(R), AmountCap)
            <= DailyLimit
      <4>1. ChargedTo(R, B) + HeldBy(R, B) + amount <= DailyLimit
        <5>1. HeldBy(R, B) \in Nat /\ ChargedTo(R, B) \in Nat
          BY <3>1, SumsAreNat
        <5> QED
          BY <5>1, <3>2 DEF Greatest
      <4>2. Total(Charged(R, B), CoveredCharge(R), AmountCap) <= ChargedTo(R, B)
        <5>1. Charged(R, B) \in SUBSET Ids /\ IsFiniteSet(Charged(R, B))
          BY <3>1, RowSetsFinite DEF Charged
        <5>2. \A i \in Charged(R, B) :
                /\ CoveredCharge(R)[i] \in Int /\ Actual(R)[i] \in Int
                /\ CoveredCharge(R)[i] <= Actual(R)[i]
          <6>1. \A i \in Charged(R, B) :
                  R[i] \in Row /\ R[i].actual \in Int /\ R[i].requested \in Int
            BY <1>1, <5>1, LedgerAssumption DEF Row
          <6> QED
            BY <5>1, <6>1 DEF CoveredCharge, Actual, Least
        <5> QED
          BY <5>1, <5>2, TotalMonotone, LedgerAssumption DEF ChargedTo
      <4>3. /\ HeldBy(R, B) \in Nat /\ ChargedTo(R, B) \in Nat
            /\ Total(Charged(R, B), CoveredCharge(R), AmountCap) \in Nat
        <5>1. Charged(R, B) \in SUBSET Ids
          BY <3>1 DEF Charged
        <5> QED
          BY <3>1, <5>1, SumsAreNat
      <4> QED
        BY <1>4, <4>1, <4>2, <4>3, LedgerAssumption
    <3>4. Cardinality(B \cup {id}) <= RowCap
      <4>1. IsFiniteSet(B) /\ Cardinality(B) \in Nat
        BY <3>1, RowSetsFinite
      <4>2. Cardinality(B \cup {id}) = Cardinality(B) + 1
        BY <3>1, <4>1, FS_AddElement
      <4> QED
        BY <4>1, <4>2, LedgerAssumption
    <3> HIDE DEF B
    <3>5. /\ HeldBy(S, B \cup {id}) = HeldBy(R, B) + amount
          /\ Charged(S, B \cup {id}) = Charged(R, B)
          /\ ChargedTo(S, B \cup {id}) = ChargedTo(R, B)
          /\ Total(Charged(R, B), CoveredCharge(S), AmountCap)
               = Total(Charged(R, B), CoveredCharge(R), AmountCap)
      BY <1>9, <3>1
    <3> QED
      BY <1>10, <2>3, <3>1, <3>2, <3>3, <3>4, <3>5 DEF SoundDay, B
  <2> QED
    BY <2>2, <2>3
<1>13. ASSUME NEW e \in Months PROVE SoundMonth(S, M2[e], e)
  <2>1. SoundMonth(R, M[e], e)
    BY DEF Sound
  <2>2. CASE e # m
    <3>1. InMonth(S, e) = InMonth(R, e) /\ M2[e] = M[e]
      BY <1>7, <1>11, <2>2
    <3>2. InMonth(R, e) \in SUBSET Ids /\ id \notin InMonth(R, e)
      BY <1>8
    <3>3. /\ HeldBy(S, InMonth(R, e)) = HeldBy(R, InMonth(R, e))
          /\ ChargedTo(S, InMonth(R, e)) = ChargedTo(R, InMonth(R, e))
          /\ Charged(S, InMonth(R, e)) = Charged(R, InMonth(R, e))
      BY <1>9, <3>2
    <3> QED
      BY <2>1, <3>1, <3>3 DEF SoundMonth
  <2>3. CASE e = m
    <3>1. InMonth(S, m) = InMonth(R, m) \cup {id}
      BY <1>7
    <3>2. InMonth(R, m) \in SUBSET Ids /\ id \notin InMonth(R, m)
      BY <1>8
    <3>3. /\ HeldBy(S, InMonth(S, m)) = HeldBy(R, InMonth(R, m)) + amount
          /\ ChargedTo(S, InMonth(S, m)) = ChargedTo(R, InMonth(R, m))
          /\ Charged(S, InMonth(S, m)) = Charged(R, InMonth(R, m))
      BY <1>9, <3>1, <3>2
    <3>4. /\ M[m].actual = ChargedTo(R, InMonth(R, m))
          /\ M[m].count = Cardinality(Charged(R, InMonth(R, m)))
      BY <2>1, <2>3 DEF SoundMonth
    <3>5. SoundMonth(S, M2[m], m)
      BY <1>11, <3>3, <3>4 DEF SoundMonth
    <3> QED
      BY <2>3, <3>5
  <2> QED
    BY <2>2, <2>3
<1>14. \A i \in Ids : S[i].status = "finalized" => S[i].dispatched
  BY <1>3, <1>6 DEF Sound
<1> QED
  BY <1>5, <1>10, <1>11, <1>12, <1>13, <1>14 DEF Sound, Typed, S, D2, M2, row

-----------------------------------------------------------------------------
(* The theorems.                                                           *)

\* The ledger starts empty, hence sound.
LEMMA LedgerInitSound == LedgerInit => LedgerInv
<1> SUFFICES ASSUME LedgerInit PROVE LedgerInv
  OBVIOUS
<1>1. DayOf[0] \in Days /\ 0 \in Times
  BY LedgerAssumption DEF Times
<1>2. NoRow \in Row
  BY <1>1, LedgerAssumption DEF NoRow, Row
<1>3. Typed(rows, daily, monthly)
  BY <1>2 DEF LedgerInit, Typed, DailyRow, MonthlyRow, EmptyDay, EmptyMonth
<1>4. \A i \in Ids : rows[i].status = "none"
  BY DEF LedgerInit, NoRow
<1>5. /\ \A d : OnDay(rows, d) = {}
      /\ \A m : InMonth(rows, m) = {}
  BY <1>4 DEF OnDay, InMonth
<1>6. Running(rows, {}) = {} /\ Charged(rows, {}) = {}
  BY DEF Running, Charged
<1>7. /\ HeldBy(rows, {}) = 0 /\ ChargedTo(rows, {}) = 0
      /\ Total({}, CoveredCharge(rows), AmountCap) = 0
      /\ Cardinality({}) = 0
  BY <1>6, TotalOfNone, FS_EmptySet, LedgerAssumption DEF HeldBy, ChargedTo
<1>8. \A d \in Days : SoundDay(rows, daily[d], d)
  <2>1. SUFFICES ASSUME NEW d \in Days PROVE SoundDay(rows, daily[d], d)
    OBVIOUS
  <2>2. /\ daily[d].reserved = 0 /\ daily[d].actual = 0
        /\ daily[d].floor = 0 /\ daily[d].count = 0
    BY DEF LedgerInit, EmptyDay
  <2>3. 0 + 0 <= DailyLimit /\ 0 <= RowCap
    BY LedgerAssumption
  <2> QED
    BY <1>5, <1>6, <1>7, <2>2, <2>3 DEF SoundDay
<1>9. \A m \in Months : SoundMonth(rows, monthly[m], m)
  BY <1>5, <1>6, <1>7 DEF SoundMonth, LedgerInit, EmptyMonth
<1> QED
  BY <1>1, <1>3, <1>4, <1>8, <1>9 DEF LedgerInv, Sound, LedgerInit

\* A committed sweep keeps the ledger sound.
LEMMA OnlySweepSound ==
  ASSUME Sound(rows, daily, monthly), NEW now \in Times, OnlySweep(now)
  PROVE  Sound(rows', daily', monthly')
BY SweepSound DEF OnlySweep

\* A sweep followed by the closing of one running row keeps it sound.
LEMMA SweepAndCloseSound ==
  ASSUME Sound(rows, daily, monthly), NEW now \in Times, NEW id \in Ids,
         Swept(now)[id].status = "running",
         NEW row \in Row, row.status \in {"finalized", "released"},
         row.requested = Swept(now)[id].requested, row.day = Swept(now)[id].day,
         row.dispatched = Swept(now)[id].dispatched,
         row.status = "finalized" => row.dispatched,
         SweepAndClose(now, [Swept(now) EXCEPT ![id] = row])
  PROVE  Sound(rows', daily', monthly')
<1>1. Sound(Swept(now), SweptDaily(now), SweptMonthly(now))
  BY SweepSound
<1> QED
  BY <1>1, CloseOneSound DEF SweepAndClose

\* A reserve keeps the ledger sound, admitted or not.
LEMMA ReserveSound ==
  ASSUME Sound(rows, daily, monthly), NEW now \in Times, NEW id \in Ids,
         NEW amount \in Amounts, Reserve(id, amount, now)
  PROVE  Sound(rows', daily', monthly')
<1>1. CASE OnlySweep(now)
  BY <1>1, OnlySweepSound
<1>2. CASE /\ Swept(now)[id].status = "none"
           /\ Admits(id, amount, now)
           /\ Admit(id, amount, now)
  <2>1. Sound(Swept(now), SweptDaily(now), SweptMonthly(now))
    BY SweepSound
  <2>2. Sound([Swept(now) EXCEPT ![id] = NewRow(amount, now)],
              [SweptDaily(now) EXCEPT
                 ![DayOf[now]].reserved =
                    Greatest(@, HeldBy(Swept(now), OnDay(Swept(now), DayOf[now]))) + amount,
                 ![DayOf[now]].floor = Greatest(@, SweptDaily(now)[DayOf[now]].actual)],
              [SweptMonthly(now) EXCEPT
                 ![MonthOf[DayOf[now]]].reserved =
                    Greatest(@, HeldBy(Swept(now), InMonth(Swept(now), MonthOf[DayOf[now]])))
                      + amount])
    BY <1>2, <2>1, AdmitSound DEF Admits
  <2> QED
    BY <1>2, <2>2 DEF Admit
<1> QED
  BY <1>1, <1>2 DEF Reserve

\* The dispatch marker keeps the ledger sound.
LEMMA MarkDispatchedSound ==
  ASSUME Sound(rows, daily, monthly), NEW now \in Times, NEW id \in Ids,
         MarkDispatched(id, now)
  PROVE  Sound(rows', daily', monthly')
<1>1. CASE OnlySweep(now)
  BY <1>1, OnlySweepSound
<1>2. CASE /\ Swept(now)[id].status = "running"
           /\ rows' = [Swept(now) EXCEPT ![id] = Dispatched(@, now)]
           /\ daily' = SweptDaily(now)
           /\ monthly' = SweptMonthly(now)
  <2>1. Sound(Swept(now), SweptDaily(now), SweptMonthly(now))
    BY SweepSound
  <2> QED
    BY <1>2, <2>1, DispatchSound
<1> QED
  BY <1>1, <1>2 DEF MarkDispatched

\* A finalize keeps the ledger sound, whatever it charges within the cap.
LEMMA FinalizeSound ==
  ASSUME Sound(rows, daily, monthly), NEW now \in Times, NEW id \in Ids,
         NEW charge \in 0..AmountCap, Finalize(id, charge, now)
  PROVE  Sound(rows', daily', monthly')
<1>1. CASE OnlySweep(now)
  BY <1>1, OnlySweepSound
<1>2. CASE /\ Swept(now)[id].status = "running"
           /\ Swept(now)[id].dispatched
           /\ SweepAndClose(now, [Swept(now) EXCEPT ![id] = Finalized(@, charge)])
  <2> DEFINE row == Finalized(Swept(now)[id], charge)
  <2>1. Swept(now)[id] \in Row /\ charge \in 0..AmountCap
    BY SweepSound, LedgerAssumption
  <2>2. /\ row \in Row /\ row.status = "finalized"
        /\ row.requested = Swept(now)[id].requested
        /\ row.day = Swept(now)[id].day
        /\ row.dispatched = Swept(now)[id].dispatched
    BY <2>1 DEF Finalized, Row
  <2> HIDE DEF row
  <2>3. SweepAndClose(now, [Swept(now) EXCEPT ![id] = row])
    BY <1>2 DEF row
  <2> QED
    BY <1>2, <2>2, <2>3, SweepAndCloseSound
<1> QED
  BY <1>1, <1>2 DEF Finalize

\* A release keeps the ledger sound.
LEMMA ReleaseSound ==
  ASSUME Sound(rows, daily, monthly), NEW now \in Times, NEW id \in Ids,
         Release(id, now)
  PROVE  Sound(rows', daily', monthly')
<1>1. CASE OnlySweep(now)
  BY <1>1, OnlySweepSound
<1>2. CASE /\ Swept(now)[id].status = "running"
           /\ SweepAndClose(now, [Swept(now) EXCEPT ![id] = Released(@)])
  <2> DEFINE row == Released(Swept(now)[id])
  <2>1. Swept(now)[id] \in Row
    BY SweepSound
  <2>2. /\ row \in Row /\ row.status = "released"
        /\ row.requested = Swept(now)[id].requested
        /\ row.day = Swept(now)[id].day
        /\ row.dispatched = Swept(now)[id].dispatched
    BY <2>1 DEF Released, Row
  <2> HIDE DEF row
  <2>3. SweepAndClose(now, [Swept(now) EXCEPT ![id] = row])
    BY <1>2 DEF row
  <2> QED
    BY <1>2, <2>2, <2>3, SweepAndCloseSound
<1> QED
  BY <1>1, <1>2 DEF Release

\* Every step of the ledger keeps it sound: one case per RPC.
LEMMA LedgerNextSound ==
  ASSUME LedgerInv, [LedgerNext]_ledgerVars
  PROVE  LedgerInv'
<1>1. Sound(rows, daily, monthly) /\ clock \in Times
  BY DEF LedgerInv
<1>2. \A t \in Starts : t \in Times
  BY DEF Starts
<1>3. ASSUME NEW now \in Starts, NEW id \in Ids, NEW amount \in Amounts,
             Reserve(id, amount, now)
      PROVE  Sound(rows', daily', monthly')
  BY <1>1, <1>2, <1>3, ReserveSound
<1>4. ASSUME NEW now \in Starts, NEW id \in Ids, MarkDispatched(id, now)
      PROVE  Sound(rows', daily', monthly')
  BY <1>1, <1>2, <1>4, MarkDispatchedSound
<1>5. ASSUME NEW now \in Starts, NEW id \in Ids, NEW charge \in Charges,
             Finalize(id, charge, now)
      PROVE  Sound(rows', daily', monthly')
  BY <1>1, <1>2, <1>5, FinalizeSound, LedgerAssumption
<1>6. ASSUME NEW now \in Starts, NEW id \in Ids, Release(id, now)
      PROVE  Sound(rows', daily', monthly')
  BY <1>1, <1>2, <1>6, ReleaseSound
<1>7. ASSUME NEW now \in Starts, NEW total \in ProviderTotals, Reconcile(total, now)
      PROVE  Sound(rows', daily', monthly')
  <2> DEFINE d == DayOf[now]
             m == MonthOf[d]
             floor2 == Greatest(Greatest(monthly[m].floor, monthly[m].actual),
                         Greatest(monthly[m].provider
                            + Greatest(0, monthly[m].actual - monthly[m].baseline), total))
  <2>1. d \in Days /\ m \in Months
    BY <1>2, LedgerAssumption
  <2>2. rows' = rows
    BY <1>7 DEF Reconcile
  <2>3. /\ daily \in [Days -> DailyRow] /\ monthly \in [Months -> MonthlyRow]
        /\ daily[d] \in DailyRow /\ monthly[m] \in MonthlyRow
    BY <1>1, <2>1 DEF Sound, Typed
  <2>4. daily' = daily
    <3>1. daily[d].floor = daily[d].actual
      BY <1>1, <2>1 DEF Sound, SoundDay
    <3>2. daily' = [daily EXCEPT ![d] = [daily[d] EXCEPT !.floor = daily[d].actual]]
      BY <1>7 DEF Reconcile
    <3>3. [daily[d] EXCEPT !.floor = daily[d].actual] = daily[d]
      BY <2>3, <3>1 DEF DailyRow
    <3> QED
      BY <2>1, <2>3, <3>2, <3>3
  <2>5. floor2 \in Nat /\ total \in Nat /\ monthly[m].actual \in Nat
    <3>1. /\ monthly[m].floor \in Nat /\ monthly[m].actual \in Nat
          /\ monthly[m].provider \in Nat /\ monthly[m].baseline \in Nat /\ total \in Nat
      BY <2>3, LedgerAssumption DEF MonthlyRow
    <3> QED
      BY <3>1 DEF Greatest
  <2>6. monthly' = [monthly EXCEPT ![m] = [monthly[m] EXCEPT
           !.floor = floor2, !.provider = total, !.baseline = monthly[m].actual]]
    BY <1>7 DEF Reconcile
  <2> HIDE DEF d, m, floor2
  <2>7. /\ monthly' \in [Months -> MonthlyRow]
        /\ \A e \in Months : /\ monthly'[e].reserved = monthly[e].reserved
                             /\ monthly'[e].actual = monthly[e].actual
                             /\ monthly'[e].count = monthly[e].count
    BY <2>1, <2>3, <2>5, <2>6 DEF MonthlyRow
  <2> QED
    BY <1>1, <2>2, <2>4, <2>7 DEF Sound, Typed, SoundMonth
<1>8. CASE Tick
  BY <1>1, <1>8, LedgerAssumption DEF Tick, LedgerInv, Times
<1>9. CASE UNCHANGED ledgerVars
  BY <1>1, <1>9 DEF ledgerVars, LedgerInv
<1>10. ASSUME NEW now \in Starts, NEW id \in Ids, Rpc(id, now), UNCHANGED clock
       PROVE  LedgerInv'
  BY <1>1, <1>3, <1>4, <1>5, <1>6, <1>10 DEF Rpc, LedgerInv
<1>11. ASSUME NEW now \in Starts, NEW total \in ProviderTotals,
              Reconcile(total, now), UNCHANGED clock
       PROVE  LedgerInv'
  BY <1>1, <1>7, <1>11 DEF LedgerInv
<1> QED
  BY <1>8, <1>9, <1>10, <1>11 DEF LedgerNext

\* Every reachable ledger is sound: its counters match its rows.
THEOREM LedgerSound == LedgerSpec => []LedgerInv
<1>1. LedgerInit => LedgerInv
  BY LedgerInitSound
<1>2. LedgerInv /\ [LedgerNext]_ledgerVars => LedgerInv'
  BY LedgerNextSound
<1> QED
  BY <1>1, <1>2, PTL DEF LedgerSpec

\* The types the columns declare hold in every reachable state.
THEOREM LedgerTypes == LedgerSpec => []LedgerTypeOK
<1>1. LedgerInv => LedgerTypeOK
  BY DEF LedgerInv, Sound, Typed, LedgerTypeOK
<1> QED
  BY <1>1, LedgerSound, PTL

\* The reserved counters hold exactly the running rows, whatever sweeps,
\* repeats and late closes did.
THEOREM ReservedIsExact == LedgerSpec => []ReservedMatchesRunningRows
<1>1. LedgerInv => ReservedMatchesRunningRows
  BY DEF LedgerInv, Sound, SoundDay, SoundMonth, ReservedMatchesRunningRows
<1> QED
  BY <1>1, LedgerSound, PTL

\* The cost and request counters hold every finalized row exactly once.
THEOREM ChargesAreExact == LedgerSpec => []ChargesMatchFinalizedRows
<1>1. LedgerInv => ChargesMatchFinalizedRows
  BY DEF LedgerInv, Sound, SoundDay, SoundMonth, ChargesMatchFinalizedRows
<1> QED
  BY <1>1, LedgerSound, PTL

\* Billing of the whole project never drains the web quota.
THEOREM WebQuotaIsolated == LedgerSpec => []DailyFloorIsWebOnly
<1>1. LedgerInv => DailyFloorIsWebOnly
  BY DEF LedgerInv, Sound, SoundDay, DailyFloorIsWebOnly
<1> QED
  BY <1>1, LedgerSound, PTL

\* Admissions of one day never promise more than the daily limit.
THEOREM DailyLimitHolds == LedgerSpec => []CommittedWithinDailyLimit
<1>1. LedgerInv => CommittedWithinDailyLimit
  BY DEF LedgerInv, Sound, SoundDay, CommittedWithinDailyLimit
<1> QED
  BY <1>1, LedgerSound, PTL

\* The row cap holds although terminal rows are never deleted.
THEOREM RowCapHolds == LedgerSpec => []RowsPerDayBounded
<1>1. LedgerInv => RowsPerDayBounded
  BY DEF LedgerInv, Sound, SoundDay, RowsPerDayBounded
<1> QED
  BY <1>1, LedgerSound, PTL

\* No row is charged that was never marked dispatched.
THEOREM ChargeNeedsDispatch == LedgerSpec => []OnlyDispatchedIsCharged
<1>1. LedgerInv => OnlyDispatchedIsCharged
  BY DEF LedgerInv, Sound, OnlyDispatchedIsCharged
<1> QED
  BY <1>1, LedgerSound, PTL

-----------------------------------------------------------------------------
(* Terminal rows.                                                          *)

\* A sweep leaves terminal rows as they are, and no RPC touches a row the
\* sweep leaves terminal.
LEMMA TerminalRowsKept ==
  ASSUME LedgerInv, [LedgerNext]_ledgerVars, NEW i \in Ids,
         rows[i].status \in {"finalized", "released"}
  PROVE  rows'[i] = rows[i]
<1>1. rows \in [Ids -> Row]
  BY DEF LedgerInv, Sound, Typed
<1>2. ASSUME NEW now \in Starts
      PROVE  /\ Swept(now)[i] = rows[i]
             /\ DOMAIN Swept(now) = Ids
  BY DEF Swept, SweptRows, SweptRow
<1>3. ASSUME NEW now \in Starts, NEW id \in Ids, Rpc(id, now)
      PROVE  rows'[i] = rows[i]
  <2>1. CASE OnlySweep(now)
    BY <1>2, <2>1 DEF OnlySweep
  <2>2. ASSUME NEW row, Swept(now)[id].status \in {"none", "running"},
               rows' = [Swept(now) EXCEPT ![id] = row]
        PROVE  rows'[i] = rows[i]
    BY <1>2, <2>2
  <2>3. ASSUME NEW amount \in Amounts, Reserve(id, amount, now)
        PROVE  rows'[i] = rows[i]
    BY <2>1, <2>2, <2>3 DEF Reserve, Admit
  <2>4. ASSUME MarkDispatched(id, now)
        PROVE  rows'[i] = rows[i]
    BY <2>1, <2>2, <2>4 DEF MarkDispatched
  <2>5. ASSUME NEW charge \in Charges, Finalize(id, charge, now)
        PROVE  rows'[i] = rows[i]
    BY <2>1, <2>2, <2>5 DEF Finalize, SweepAndClose
  <2>6. ASSUME Release(id, now)
        PROVE  rows'[i] = rows[i]
    BY <2>1, <2>2, <2>6 DEF Release, SweepAndClose
  <2> QED
    BY <1>3, <2>3, <2>4, <2>5, <2>6 DEF Rpc
<1>4. ASSUME NEW now \in Starts, NEW total \in ProviderTotals, Reconcile(total, now)
      PROVE  rows'[i] = rows[i]
  BY <1>4 DEF Reconcile
<1>5. CASE Tick
  BY <1>5 DEF Tick
<1>6. CASE UNCHANGED ledgerVars
  BY <1>6 DEF ledgerVars
<1> QED
  BY <1>3, <1>4, <1>5, <1>6 DEF LedgerNext

\* No interleaving of late, repeated or stale calls rewrites a terminal row.
THEOREM TerminalIsFinal == LedgerSpec => TerminalRowsFrozen
<1>1. LedgerInv /\ [LedgerNext]_ledgerVars
        => [\A i \in Ids : rows[i].status \in {"finalized", "released"}
                             => rows'[i] = rows[i]]_ledgerVars
  BY TerminalRowsKept
<1> QED
  BY <1>1, LedgerSound, PTL DEF LedgerSpec, TerminalRowsFrozen
-----------------------------------------------------------------------------
(* The month's floor.                                                      *)

\* From one aggregate of a month to the next the floor absorbs the charges.
Absorbs(a, b) == b.floor >= a.floor + Greatest(0, b.actual - a.actual)

Counted(a) == a.floor \in Nat /\ a.actual \in Nat

\* Two steps that absorb are one that does.
LEMMA AbsorbsTwice ==
  ASSUME NEW a, NEW b, NEW c, Counted(a), Counted(b), Counted(c),
         Absorbs(a, b), Absorbs(b, c)
  PROVE  Absorbs(a, c)
BY DEF Absorbs, Counted, Greatest

\* Settling absorbs, whatever the counters say of the rows.
LEMMA SettleAbsorbs ==
  ASSUME NEW R, NEW S, NEW B \in SUBSET Ids, NEW agg \in MonthlyRow
  PROVE  /\ Absorbs(agg, Settle(agg, R, S, B))
         /\ Counted(agg) /\ Counted(Settle(agg, R, S, B))
<1> DEFINE T == Settle(agg, R, S, B)
           P == Paid(R, S, B)
           charge == Total(P, Actual(S), AmountCap)
<1>1. agg.floor \in Nat /\ agg.actual \in Nat
  BY DEF MonthlyRow
<1>2. charge \in Nat
  <2>1. P \in SUBSET Ids
    BY DEF Paid, Gone
  <2> QED
    BY <2>1, SumsAreNat
<1>3. CASE Gone(R, S, B) = {}
  <2>1. T = agg
    BY <1>3 DEF Settle, Gone
  <2> QED
    BY <1>1, <2>1 DEF Absorbs, Counted, Greatest
<1>4. CASE Gone(R, S, B) # {}
  <2>1. /\ T.actual = agg.actual + charge
        /\ T.floor = IF P = {} THEN agg.floor ELSE Greatest(agg.floor, agg.actual) + charge
    BY <1>4, SettleFields
  <2>2. P = {} => charge = 0
    BY TotalOfNone, LedgerAssumption
  <2> HIDE DEF T, P, charge
  <2>3. T.floor >= agg.floor + charge /\ T.floor \in Nat /\ T.actual \in Nat
    BY <1>1, <1>2, <2>1, <2>2 DEF Greatest
  <2>4. Absorbs(agg, T) /\ Counted(agg) /\ Counted(T)
    BY <1>1, <1>2, <2>1, <2>3 DEF Absorbs, Counted, Greatest
  <2> QED
    BY <2>4 DEF T
<1> QED
  BY <1>3, <1>4

\* Every step absorbs, in every month.
LEMMA FloorAbsorbs ==
  ASSUME LedgerInv, [LedgerNext]_ledgerVars, NEW m \in Months
  PROVE  Absorbs(monthly[m], monthly'[m])
<1>1. /\ monthly[m] \in MonthlyRow /\ Counted(monthly[m])
      /\ \A t \in Starts : t \in Times
  BY DEF LedgerInv, Sound, Typed, Starts, MonthlyRow, Counted
<1>2. ASSUME NEW now \in Starts
      PROVE  /\ Absorbs(monthly[m], SweptMonthly(now)[m])
             /\ Counted(SweptMonthly(now)[m])
             /\ SweptMonthly(now) \in [Months -> MonthlyRow]
  <2>1. SweptMonthly(now)[m] = Settle(monthly[m], rows, Swept(now), InMonth(rows, m))
    BY DEF SweptMonthly, SettleMonths
  <2>2. InMonth(rows, m) \in SUBSET Ids
    BY DEF InMonth
  <2>3. SweptMonthly(now) \in [Months -> MonthlyRow]
    BY <1>1, SweepSound DEF LedgerInv, Sound, Typed
  <2> QED
    BY <1>1, <2>1, <2>2, <2>3, SettleAbsorbs
<1>3. ASSUME NEW now \in Starts, monthly' = SweptMonthly(now)
      PROVE  Absorbs(monthly[m], monthly'[m])
  BY <1>2, <1>3
<1>4. ASSUME NEW now \in Starts, NEW after, SweepAndClose(now, after)
      PROVE  Absorbs(monthly[m], monthly'[m])
  <2> DEFINE B == InMonth(Swept(now), m)
             M == SweptMonthly(now)
  <2>1. monthly'[m] = Settle(M[m], Swept(now), after, B)
    BY <1>4 DEF SweepAndClose, SettleMonths
  <2>2. B \in SUBSET Ids /\ M[m] \in MonthlyRow
    BY <1>2 DEF InMonth
  <2>3. Absorbs(M[m], monthly'[m]) /\ Counted(M[m]) /\ Counted(monthly'[m])
    BY <2>1, <2>2, SettleAbsorbs
  <2> QED
    BY <1>1, <1>2, <2>3, AbsorbsTwice
<1>5. ASSUME NEW now \in Starts, NEW id \in Ids, NEW amount, Admit(id, amount, now)
      PROVE  Absorbs(monthly[m], monthly'[m])
  <2> DEFINE M == SweptMonthly(now)
             k == MonthOf[DayOf[now]]
             held == Greatest(M[k].reserved, HeldBy(Swept(now), InMonth(Swept(now), k))) + amount
  <2>1. monthly' = [M EXCEPT ![k] = [M[k] EXCEPT !.reserved = held]]
    BY <1>5 DEF Admit
  <2>2. M \in [Months -> MonthlyRow] /\ M[m] \in MonthlyRow
    BY <1>2
  <2> HIDE DEF M, k, held
  <2>3. monthly'[m].floor = M[m].floor /\ monthly'[m].actual = M[m].actual
    BY <2>1, <2>2 DEF MonthlyRow
  <2> QED
    BY <1>2, <2>3 DEF Absorbs, M
<1>6. ASSUME NEW now \in Starts, NEW id \in Ids, Rpc(id, now)
      PROVE  Absorbs(monthly[m], monthly'[m])
  BY <1>3, <1>4, <1>5, <1>6 DEF Rpc, Reserve, MarkDispatched, Finalize, Release, OnlySweep
<1>7. ASSUME NEW now \in Starts, NEW total \in ProviderTotals, Reconcile(total, now)
      PROVE  Absorbs(monthly[m], monthly'[m])
  <2> DEFINE k == MonthOf[DayOf[now]]
             seen == Greatest(monthly[k].provider
                       + Greatest(0, monthly[k].actual - monthly[k].baseline), total)
             floor2 == Greatest(Greatest(monthly[k].floor, monthly[k].actual), seen)
  <2>1. monthly' = [monthly EXCEPT ![k] = [monthly[k] EXCEPT
           !.floor = floor2, !.provider = total, !.baseline = monthly[k].actual]]
    BY <1>7 DEF Reconcile
  <2>2. k \in Months /\ monthly \in [Months -> MonthlyRow] /\ monthly[k] \in MonthlyRow
    BY <1>1, LedgerAssumption DEF LedgerInv, Sound, Typed
  <2>3. /\ monthly[k].floor \in Nat /\ monthly[k].actual \in Nat
        /\ monthly[k].provider \in Nat /\ monthly[k].baseline \in Nat /\ total \in Nat
    BY <2>2, LedgerAssumption DEF MonthlyRow
  <2>4. floor2 \in Int /\ floor2 >= monthly[k].floor
    BY <2>3 DEF Greatest
  <2> HIDE DEF k, floor2
  <2>5. /\ monthly'[m].actual = monthly[m].actual
        /\ monthly'[m].floor = IF m = k THEN floor2 ELSE monthly[m].floor
    BY <2>1, <2>2 DEF MonthlyRow
  <2> QED
    BY <1>1, <2>4, <2>5 DEF Absorbs, Counted, Greatest
<1>8. ASSUME monthly' = monthly
      PROVE  Absorbs(monthly[m], monthly'[m])
  BY <1>1, <1>8 DEF Absorbs, Counted, Greatest
<1> QED
  BY <1>6, <1>7, <1>8 DEF LedgerNext, Tick, ledgerVars

\* No total the provider reports, however low or late, and no sweep lets a
\* charge of the ledger vanish under the month's floor.
THEOREM FloorKeepsCharges == LedgerSpec => MonthlyFloorAbsorbsCharges
<1>1. LedgerInv /\ [LedgerNext]_ledgerVars
        => [\A m \in Months :
              monthly'[m].floor >= monthly[m].floor
                + Greatest(0, monthly'[m].actual - monthly[m].actual)]_ledgerVars
  BY FloorAbsorbs DEF Absorbs
<1> QED
  BY <1>1, LedgerSound, PTL DEF LedgerSpec, MonthlyFloorAbsorbsCharges

-----------------------------------------------------------------------------
(***************************************************************************)
(* The sweep's loop (AiBudgetExpiryLoop), for any rows and any aggregates: *)
(* closing rows one by one, in whatever order, is one Settle of them all.  *)
(* At every iteration the aggregates are what one Settle gives of the rows *)
(* closed so far; a second Settle adds to a first (SettleTwice), and one   *)
(* rewrite is the Settle of one row (RewriteIsSettle).                     *)
(***************************************************************************)

\* An aggregate is its counters.
LEMMA SameAggregate ==
  ASSUME NEW a, NEW b,
         a.reserved = b.reserved, a.actual = b.actual, a.floor = b.floor, a.count = b.count
  PROVE  /\ a \in DailyRow /\ b \in DailyRow => a = b
         /\ a \in MonthlyRow /\ b \in MonthlyRow /\ a.provider = b.provider /\ a.baseline = b.baseline
              => a = b
BY DEF DailyRow, MonthlyRow

\* A Settle leaves what the provider reported alone.
LEMMA SettleKeepsProvider ==
  ASSUME NEW R, NEW S, NEW B, NEW agg \in MonthlyRow
  PROVE  /\ Settle(agg, R, S, B).provider = agg.provider
         /\ Settle(agg, R, S, B).baseline = agg.baseline
BY DEF Settle, MonthlyRow

\* Rows that are closed in two goes are closed.
LEMMA ClosingTwice ==
  ASSUME NEW R \in [Ids -> Row], NEW S \in [Ids -> Row], NEW T \in [Ids -> Row],
         Closing(R, S), Closing(S, T), NEW B \in SUBSET Ids
  PROVE  /\ Closing(R, T)
         /\ Gone(R, T, B) = Gone(R, S, B) \cup Gone(S, T, B)
         /\ Gone(R, S, B) \cap Gone(S, T, B) = {}
         /\ Paid(R, T, B) = Paid(R, S, B) \cup Paid(S, T, B)
         /\ \A i \in Gone(R, S, B) : T[i] = S[i]
         /\ \A i \in Ids : S[i].requested = R[i].requested
<1>1. \A i \in Ids : /\ R[i] \in Row /\ S[i] \in Row /\ T[i] \in Row
                     /\ S[i] = R[i] \/ (R[i].status = "running" /\ S[i].status \in {"finalized", "released"})
                     /\ T[i] = S[i] \/ (S[i].status = "running" /\ T[i].status \in {"finalized", "released"})
  BY DEF Closing
<1>2. Closing(R, T)
  BY <1>1 DEF Closing
<1>3. \A i \in Gone(R, S, B) : T[i] = S[i]
  BY <1>1 DEF Gone
<1>4. /\ Gone(R, T, B) = Gone(R, S, B) \cup Gone(S, T, B)
      /\ Gone(R, S, B) \cap Gone(S, T, B) = {}
  BY <1>1 DEF Gone
<1>5. Paid(R, T, B) = Paid(R, S, B) \cup Paid(S, T, B)
  BY <1>1, <1>3, <1>4 DEF Paid
<1>6. \A i \in Ids : S[i].requested = R[i].requested
  BY DEF Closing
<1> QED
  BY <1>2, <1>3, <1>4, <1>5, <1>6

\* What two goes free, charge and count adds up.
LEMMA TwiceAddsUp ==
  ASSUME NEW R \in [Ids -> Row], NEW S \in [Ids -> Row], NEW T \in [Ids -> Row],
         Closing(R, S), Closing(S, T), NEW B \in SUBSET Ids
  PROVE  /\ Total(Gone(R, T, B), Requested(R), AmountCap)
              = Total(Gone(R, S, B), Requested(R), AmountCap)
                  + Total(Gone(S, T, B), Requested(S), AmountCap)
         /\ Total(Paid(R, T, B), Actual(T), AmountCap)
              = Total(Paid(R, S, B), Actual(S), AmountCap)
                  + Total(Paid(S, T, B), Actual(T), AmountCap)
         /\ Cardinality(Paid(R, T, B)) = Cardinality(Paid(R, S, B)) + Cardinality(Paid(S, T, B))
<1> DEFINE G == Gone(R, S, B)
           H == Gone(S, T, B)
           P == Paid(R, S, B)
           Q == Paid(S, T, B)
<1>1. /\ Gone(R, T, B) = G \cup H /\ G \cap H = {} /\ Paid(R, T, B) = P \cup Q
      /\ \A i \in G : T[i] = S[i]
      /\ \A i \in Ids : S[i].requested = R[i].requested
  BY ClosingTwice
<1>2. /\ G \in SUBSET Ids /\ H \in SUBSET Ids /\ P \in SUBSET G /\ Q \in SUBSET H
  BY DEF Gone, Paid
<1>3. /\ P \cap Q = {} /\ P \in SUBSET Ids /\ Q \in SUBSET Ids
  BY <1>1, <1>2
<1>4. IsFiniteSet(G) /\ IsFiniteSet(H) /\ IsFiniteSet(P) /\ IsFiniteSet(Q)
  BY <1>2, <1>3, RowSetsFinite
<1>5. \A i \in H : Requested(R)[i] = Requested(S)[i]
  BY <1>1, <1>2 DEF Requested
<1>6. \A i \in P : Actual(T)[i] = Actual(S)[i]
  BY <1>1, <1>2 DEF Actual
<1>7. /\ Total(H, Requested(R), AmountCap) = Total(H, Requested(S), AmountCap)
      /\ Total(P, Actual(T), AmountCap) = Total(P, Actual(S), AmountCap)
  BY <1>5, <1>6, TotalCongruent, LedgerAssumption
<1>8. /\ Total(G \cup H, Requested(R), AmountCap)
           = Total(G, Requested(R), AmountCap) + Total(H, Requested(R), AmountCap)
      /\ Total(P \cup Q, Actual(T), AmountCap)
           = Total(P, Actual(T), AmountCap) + Total(Q, Actual(T), AmountCap)
  BY <1>1, <1>3, <1>4, TotalOfUnion, LedgerAssumption
<1>9. Cardinality(P \cup Q) = Cardinality(P) + Cardinality(Q)
  <2>1. Cardinality(P \cup Q) = Cardinality(P) + Cardinality(Q) - Cardinality(P \cap Q)
    BY <1>4, FS_Union
  <2>2. Cardinality(P \cap Q) = 0
    BY <1>3, FS_EmptySet
  <2>3. Cardinality(P) \in Nat /\ Cardinality(Q) \in Nat
    BY <1>4, FS_CardinalityType
  <2> QED
    BY <2>1, <2>2, <2>3
<1> HIDE DEF G, H, P, Q
<1> QED
  BY <1>1, <1>7, <1>8, <1>9 DEF G, H, P, Q

\* Settling what two goes close is settling twice.
LEMMA SettleTwice ==
  ASSUME NEW R \in [Ids -> Row], NEW S \in [Ids -> Row], NEW T \in [Ids -> Row],
         Closing(R, S), Closing(S, T), NEW B \in SUBSET Ids,
         NEW agg \in DailyRow \cup MonthlyRow
  PROVE  Settle(Settle(agg, R, S, B), S, T, B) = Settle(agg, R, T, B)
<1> DEFINE G == Gone(R, S, B)
           H == Gone(S, T, B)
           P == Paid(R, S, B)
           Q == Paid(S, T, B)
           freed == Total(G, Requested(R), AmountCap)
           more == Total(H, Requested(S), AmountCap)
           charge == Total(P, Actual(S), AmountCap)
           extra == Total(Q, Actual(T), AmountCap)
           once == Settle(agg, R, S, B)
           twice == Settle(once, S, T, B)
           all == Settle(agg, R, T, B)
<1>1. /\ Gone(R, T, B) = G \cup H /\ Paid(R, T, B) = P \cup Q
      /\ Closing(R, T) /\ P \in SUBSET G /\ Q \in SUBSET H
      /\ G \in SUBSET Ids /\ H \in SUBSET Ids /\ P \in SUBSET Ids /\ Q \in SUBSET Ids
  <2>1. Gone(R, T, B) = G \cup H /\ Paid(R, T, B) = P \cup Q /\ Closing(R, T)
    BY ClosingTwice
  <2>2. P \in SUBSET G /\ Q \in SUBSET H /\ G \in SUBSET Ids /\ H \in SUBSET Ids
    BY DEF Gone, Paid
  <2> HIDE DEF G, H, P, Q
  <2> QED
    BY <2>1, <2>2
<1>2. /\ Total(Gone(R, T, B), Requested(R), AmountCap) = freed + more
      /\ Total(Paid(R, T, B), Actual(T), AmountCap) = charge + extra
      /\ Cardinality(Paid(R, T, B)) = Cardinality(P) + Cardinality(Q)
  BY TwiceAddsUp
<1>3. HeldBy(S, B) = HeldBy(T, B) + more
  BY ClosingMovesSums
<1>4. /\ freed \in Nat /\ more \in Nat /\ charge \in Nat /\ extra \in Nat
      /\ HeldBy(S, B) \in Nat /\ HeldBy(T, B) \in Nat
      /\ Cardinality(P) \in Nat /\ Cardinality(Q) \in Nat
  BY <1>1, SumsAreNat, RowSetsFinite
<1>5. /\ G = {} => freed = 0 /\ P = {}
      /\ H = {} => more = 0 /\ Q = {}
      /\ P = {} => charge = 0 /\ Cardinality(P) = 0
      /\ Q = {} => extra = 0 /\ Cardinality(Q) = 0
  BY <1>1, TotalOfNone, FS_EmptySet, LedgerAssumption
<1>6. /\ agg \in DailyRow => once \in DailyRow
      /\ agg \in MonthlyRow => once \in MonthlyRow
  BY SettleTyped
<1>7. /\ agg \in DailyRow => twice \in DailyRow /\ all \in DailyRow
      /\ agg \in MonthlyRow => twice \in MonthlyRow /\ all \in MonthlyRow
  BY <1>1, <1>6, SettleTyped
<1>8. agg \in MonthlyRow => twice.provider = all.provider /\ twice.baseline = all.baseline
  BY <1>6, SettleKeepsProvider
<1>9. /\ agg.reserved \in Nat /\ agg.actual \in Nat /\ agg.floor \in Nat /\ agg.count \in Nat
  BY DEF DailyRow, MonthlyRow
<1>10. G # {} => /\ once.reserved = Greatest(Greatest(0, agg.reserved - freed), HeldBy(S, B))
                 /\ once.actual = agg.actual + charge
                 /\ once.count = agg.count + Cardinality(P)
                 /\ once.floor = IF P = {} THEN agg.floor ELSE Greatest(agg.floor, agg.actual) + charge
  BY SettleFields
<1>11. H # {} => /\ twice.reserved = Greatest(Greatest(0, once.reserved - more), HeldBy(T, B))
                 /\ twice.actual = once.actual + extra
                 /\ twice.count = once.count + Cardinality(Q)
                 /\ twice.floor = IF Q = {} THEN once.floor ELSE Greatest(once.floor, once.actual) + extra
  BY <1>6, SettleFields
<1>12. G \cup H # {} => /\ all.reserved = Greatest(Greatest(0, agg.reserved - (freed + more)), HeldBy(T, B))
                        /\ all.actual = agg.actual + (charge + extra)
                        /\ all.count = agg.count + (Cardinality(P) + Cardinality(Q))
                        /\ all.floor = IF P \cup Q = {} THEN agg.floor
                                       ELSE Greatest(agg.floor, agg.actual) + (charge + extra)
  <2>1. ASSUME Gone(R, T, B) # {}
        PROVE  /\ all.reserved = Greatest(Greatest(0, agg.reserved
                                   - Total(Gone(R, T, B), Requested(R), AmountCap)), HeldBy(T, B))
               /\ all.actual = agg.actual + Total(Paid(R, T, B), Actual(T), AmountCap)
               /\ all.count = agg.count + Cardinality(Paid(R, T, B))
               /\ all.floor = IF Paid(R, T, B) = {} THEN agg.floor
                    ELSE Greatest(agg.floor, agg.actual) + Total(Paid(R, T, B), Actual(T), AmountCap)
    BY <2>1, SettleFields
  <2> HIDE DEF G, H, P, Q, freed, more, charge, extra, all
  <2> QED
    BY <1>1, <1>2, <2>1
<1>13. /\ G = {} => once = agg
       /\ H = {} => twice = once
       /\ G \cup H = {} => all = agg
  BY <1>1 DEF Settle, Gone
<1>14. P \cup Q = {} <=> P = {} /\ Q = {}
  OBVIOUS
<1>15. twice.reserved = all.reserved /\ twice.actual = all.actual
         /\ twice.count = all.count /\ twice.floor = all.floor
  <2> HIDE DEF G, H, P, Q, freed, more, charge, extra, once, twice, all
  <2>1. CASE G = {} /\ H = {}
    BY <1>13, <2>1
  <2>2. CASE G # {} /\ H = {}
    <3>1. /\ twice = once /\ more = 0 /\ extra = 0 /\ Q = {} /\ Cardinality(Q) = 0 /\ G \cup H # {}
          /\ HeldBy(S, B) = HeldBy(T, B)
      BY <1>3, <1>4, <1>5, <1>13, <2>2
    <3> QED
      BY <1>4, <1>9, <1>10, <1>12, <1>14, <2>2, <3>1
  <2>3. CASE G = {} /\ H # {}
    <3>1. /\ once = agg /\ freed = 0 /\ charge = 0 /\ P = {} /\ Cardinality(P) = 0 /\ G \cup H # {}
      BY <1>5, <1>13, <2>3
    <3> QED
      BY <1>4, <1>9, <1>11, <1>12, <1>14, <2>3, <3>1
  <2>4. CASE G # {} /\ H # {}
    <3>1. G \cup H # {}
      BY <2>4
    <3>2. twice.reserved = all.reserved
      BY <1>3, <1>4, <1>9, <1>10, <1>11, <1>12, <2>4, <3>1 DEF Greatest
    <3>3. twice.actual = all.actual /\ twice.count = all.count
      BY <1>4, <1>9, <1>10, <1>11, <1>12, <2>4, <3>1
    <3>4. twice.floor = all.floor
      BY <1>4, <1>5, <1>9, <1>10, <1>11, <1>12, <1>14, <2>4, <3>1 DEF Greatest
    <3> QED
      BY <3>2, <3>3, <3>4
  <2> QED
    BY <2>1, <2>2, <2>3, <2>4
<1> HIDE DEF once, twice, all
<1>16. twice = all
  BY <1>7, <1>8, <1>15, SameAggregate
<1> QED
  BY <1>16 DEF once, twice, all

-----------------------------------------------------------------------------
\* One row's rewrite of its bucket is the Settle of that row.
LEMMA RewriteIsSettle ==
  ASSUME NEW R \in [Ids -> Row], NEW i \in Ids, R[i].status = "running",
         NEW B \in SUBSET Ids, i \in B, NEW agg \in DailyRow \cup MonthlyRow,
         NEW S \in [Ids -> Row], \A j \in Ids : j # i => S[j] = R[j],
         S[i] = IF R[i].dispatched THEN Finalized(R[i], R[i].requested) ELSE Released(R[i])
  PROVE  Rewrite(agg, R[i], HeldBy(S, B)) = Settle(agg, R, S, B)
<1> DEFINE row == R[i]
           new == Rewrite(agg, row, HeldBy(S, B))
           all == Settle(agg, R, S, B)
           cost == IF row.dispatched THEN row.requested ELSE 0
<1>1. /\ row \in Row /\ row.requested \in 0..AmountCap
      /\ row.dispatched \in BOOLEAN /\ row.requested \in Nat
  BY LedgerAssumption DEF Row
<1>2. /\ S \in [Ids -> Row]
      /\ \A j \in Ids : j # i => S[j] = R[j]
      /\ S[i].status = IF row.dispatched THEN "finalized" ELSE "released"
      /\ row.dispatched => S[i].actual = row.requested
  BY <1>1 DEF Finalized, Released, Row
<1>3. Gone(R, S, B) = {i} /\ Paid(R, S, B) = IF row.dispatched THEN {i} ELSE {}
  BY <1>1, <1>2 DEF Gone, Paid
<1>4. Closing(R, S)
  <2>1. /\ S[i].status \in {"finalized", "released"}
        /\ S[i].requested = row.requested /\ S[i].day = row.day /\ S[i].dispatched = row.dispatched
        /\ S[i].status = "finalized" => S[i].dispatched
    BY <1>1 DEF Finalized, Released, Row
  <2> QED
    BY <1>2, <2>1 DEF Closing
<1>5. Total(Gone(R, S, B), Requested(R), AmountCap) = row.requested
  <2>1. Requested(R)[i] = row.requested /\ Requested(R)[i] \in 0..AmountCap
    BY <1>1 DEF Requested
  <2>2. Total({i}, Requested(R), AmountCap) = row.requested
    BY <2>1, TotalOfOne, LedgerAssumption
  <2> QED
    BY <1>3, <2>2
<1>6. Total(Paid(R, S, B), Actual(S), AmountCap) = cost
  <2>1. CASE row.dispatched
    <3>1. Actual(S)[i] = row.requested /\ Actual(S)[i] \in 0..AmountCap
      BY <1>1, <1>2, <2>1 DEF Actual
    <3>2. Total({i}, Actual(S), AmountCap) = row.requested
      BY <3>1, TotalOfOne, LedgerAssumption
    <3> QED
      BY <1>3, <2>1, <3>2
  <2>2. CASE ~ row.dispatched
    BY <1>3, <2>2, TotalOfNone, LedgerAssumption
  <2> QED
    BY <2>1, <2>2
<1>7. Cardinality(Paid(R, S, B)) = IF row.dispatched THEN 1 ELSE 0
  BY <1>3, FS_EmptySet, FS_Singleton
<1>8. /\ all.reserved = Greatest(Greatest(0, agg.reserved - row.requested), HeldBy(S, B))
      /\ all.actual = agg.actual + cost
      /\ all.count = agg.count + IF row.dispatched THEN 1 ELSE 0
      /\ all.floor = IF row.dispatched THEN Greatest(agg.floor, agg.actual) + cost ELSE agg.floor
  <2>1. Gone(R, S, B) # {} /\ (Paid(R, S, B) = {} <=> ~ row.dispatched)
    BY <1>1, <1>3
  <2> HIDE DEF row, new, cost
  <2>2. /\ all.reserved = Greatest(Greatest(0, agg.reserved
                             - Total(Gone(R, S, B), Requested(R), AmountCap)), HeldBy(S, B))
        /\ all.actual = agg.actual + Total(Paid(R, S, B), Actual(S), AmountCap)
        /\ all.count = agg.count + Cardinality(Paid(R, S, B))
        /\ all.floor = IF Paid(R, S, B) = {} THEN agg.floor
             ELSE Greatest(agg.floor, agg.actual) + Total(Paid(R, S, B), Actual(S), AmountCap)
    BY <2>1, SettleFields
  <2> HIDE DEF all, cost
  <2> QED
    BY <1>5, <1>6, <1>7, <2>1, <2>2
<1>9. /\ agg.reserved \in Nat /\ agg.actual \in Nat /\ agg.floor \in Nat /\ agg.count \in Nat
  BY DEF DailyRow, MonthlyRow
<1>10. HeldBy(S, B) \in Nat /\ cost \in Nat
  BY <1>1, SumsAreNat
<1>11. /\ new.reserved = Greatest(0, Greatest(agg.reserved - row.requested, HeldBy(S, B)))
       /\ new.actual = agg.actual + cost
       /\ new.count = agg.count + IF row.dispatched THEN 1 ELSE 0
       /\ new.floor = IF row.dispatched THEN Greatest(agg.floor, agg.actual) + cost ELSE agg.floor
       /\ agg \in MonthlyRow => new.provider = agg.provider /\ new.baseline = agg.baseline
  <2>1. CASE agg \in DailyRow
    BY <2>1 DEF Rewrite, DailyRow, MonthlyRow
  <2>2. CASE agg \in MonthlyRow
    BY <2>2 DEF Rewrite, DailyRow, MonthlyRow
  <2> QED
    BY <2>1, <2>2
<1>12. /\ agg \in DailyRow => new \in DailyRow
       /\ agg \in MonthlyRow => new \in MonthlyRow
  <2> DEFINE h == HeldBy(S, B)
             reserved == Greatest(0, Greatest(agg.reserved - row.requested, h))
             floor == IF row.dispatched THEN Greatest(agg.floor, agg.actual) + cost ELSE agg.floor
             count == agg.count + IF row.dispatched THEN 1 ELSE 0
  <2>1. new = [agg EXCEPT !.reserved = reserved, !.floor = floor,
                          !.actual = agg.actual + cost, !.count = count]
    BY DEF Rewrite
  <2> HIDE DEF new, h
  <2>2. /\ reserved \in Nat /\ floor \in Nat /\ agg.actual + cost \in Nat /\ count \in Nat
    BY <1>1, <1>9, <1>10 DEF Greatest, h
  <2> HIDE DEF cost, reserved, floor, count
  <2>3. ASSUME agg \in DailyRow PROVE new \in DailyRow
    BY <2>1, <2>2, <2>3 DEF DailyRow
  <2>4. ASSUME agg \in MonthlyRow PROVE new \in MonthlyRow
    BY <2>1, <2>2, <2>4 DEF MonthlyRow
  <2> QED
    BY <2>3, <2>4
<1>13. /\ agg \in DailyRow => all \in DailyRow
       /\ agg \in MonthlyRow => all \in MonthlyRow
  BY <1>2, <1>4, SettleTyped
<1>14. agg \in MonthlyRow => all.provider = agg.provider /\ all.baseline = agg.baseline
  BY SettleKeepsProvider
<1> HIDE DEF new, all, cost
<1>15. new.reserved = all.reserved
  BY <1>1, <1>8, <1>9, <1>10, <1>11 DEF Greatest
<1>16. new = all
  BY <1>8, <1>11, <1>12, <1>13, <1>14, <1>15, SameAggregate
<1> QED
  BY <1>16 DEF new, all

\* A bucket none of whose rows closes is settled as it is.
LEMMA NoneToSettle ==
  ASSUME NEW R, NEW S, NEW B, NEW agg, \A i \in B : S[i] = R[i]
  PROVE  Settle(agg, R, S, B) = agg
BY DEF Settle

\* The inductive invariant: the rows closed so far are closed as the sweep
\* closes them, and the aggregates are what one Settle of them gives.
LoopInv ==
  /\ loopClock \in Nat
  /\ rows0 \in [Ids -> Row] /\ loopRows \in [Ids -> Row]
  /\ daily0 \in [Days -> DailyRow] /\ loopDaily \in [Days -> DailyRow]
  /\ monthly0 \in [Months -> MonthlyRow] /\ loopMonthly \in [Months -> MonthlyRow]
  /\ \A i \in Ids : loopRows[i] \in {rows0[i], SweptRow(rows0[i], loopClock)}
  /\ loopDaily = SettleDays(daily0, rows0, loopRows)
  /\ loopMonthly = SettleMonths(monthly0, rows0, loopRows)

\* The sweep closes rows.
LEMMA SweptIsClosing ==
  ASSUME NEW R \in [Ids -> Row], NEW S \in [Ids -> Row], NEW now,
         \A i \in Ids : S[i] \in {R[i], SweptRow(R[i], now)}
  PROVE  Closing(R, S)
<1>1. ASSUME NEW i \in Ids, S[i] = SweptRow(R[i], now), S[i] # R[i]
      PROVE  /\ R[i].status = "running"
             /\ S[i].status \in {"finalized", "released"}
             /\ S[i].requested = R[i].requested
             /\ S[i].day = R[i].day
             /\ S[i].dispatched = R[i].dispatched
             /\ S[i].status = "finalized" => S[i].dispatched
  <2>1. R[i] \in Row
    OBVIOUS
  <2> QED
    BY <1>1, <2>1 DEF SweptRow, Finalized, Released, Row
<1> QED
  BY <1>1 DEF Closing

\* What the loop finds is typed, and nothing is closed yet.
LEMMA LoopInitSound == ASSUME LoopAssumption, LoopInit PROVE LoopInv
<1>1. rows0 \in [Ids -> Row] /\ loopRows = rows0 /\ loopDaily = daily0 /\ loopMonthly = monthly0 /\ loopClock \in Nat
  BY LedgerAssumption DEF LoopInit, LoopAssumption
<1>2. daily0 \in [Days -> DailyRow]
  <2>1. PICK D \in [Days -> SomeAggregates] : daily0 = [d \in Days |-> Found(D[d], EmptyDay)]
    BY DEF LoopInit
  <2>2. ASSUME NEW a \in SomeAggregates PROVE Found(a, EmptyDay) \in DailyRow
    <3>1. a \in [reserved : Nat, actual : Nat, floor : Nat]
      BY DEF LoopAssumption
    <3> QED
      BY <3>1 DEF EmptyDay, DailyRow, Found
  <2> QED
    BY <2>1, <2>2
<1>3. monthly0 \in [Months -> MonthlyRow]
  <2>1. PICK M \in [Months -> SomeAggregates] : monthly0 = [m \in Months |-> Found(M[m], EmptyMonth)]
    BY DEF LoopInit
  <2>2. ASSUME NEW a \in SomeAggregates PROVE Found(a, EmptyMonth) \in MonthlyRow
    <3>1. a \in [reserved : Nat, actual : Nat, floor : Nat]
      BY DEF LoopAssumption
    <3> QED
      BY <3>1 DEF EmptyMonth, MonthlyRow, Found
  <2> QED
    BY <2>1, <2>2
<1>4. loopDaily = SettleDays(daily0, rows0, loopRows) /\ loopMonthly = SettleMonths(monthly0, rows0, loopRows)
  <2>1. \A agg, B : Settle(agg, rows0, loopRows, B) = agg
    BY <1>1, NoneToSettle
  <2> QED
    BY <1>1, <1>2, <1>3, <2>1 DEF SettleDays, SettleMonths
<1> QED
  BY <1>1, <1>2, <1>3, <1>4 DEF LoopInv

\* An iteration closes one row and settles it, in its day and its month.
LEMMA CloseOneSettles ==
  ASSUME LoopInv, NEW i \in Ids, CloseOne(i)
  PROVE  /\ loopRows' \in [Ids -> Row] /\ Closing(loopRows, loopRows')
         /\ \A j \in Ids : loopRows'[j] \in {rows0[j], SweptRow(rows0[j], loopClock)}
         /\ loopDaily' = SettleDays(loopDaily, loopRows, loopRows')
         /\ loopMonthly' = SettleMonths(loopMonthly, loopRows, loopRows')
<1> DEFINE left == [loopRows EXCEPT ![i] = IF loopRows[i].dispatched
                                         THEN Finalized(loopRows[i], loopRows[i].requested)
                                         ELSE Released(loopRows[i])]
           d0 == loopRows[i].day
           m0 == MonthOf[d0]
<1>1. /\ loopRows[i].status = "running" /\ loopRows[i].expires <= loopClock /\ loopRows' = left
      /\ loopMonthly' = [loopMonthly EXCEPT ![m0] = Rewrite(loopMonthly[m0], loopRows[i], HeldBy(left, InMonth(left, m0)))]
      /\ loopDaily' = [loopDaily EXCEPT ![d0] = Rewrite(loopDaily[d0], loopRows[i], HeldBy(left, OnDay(left, d0)))]
  BY DEF CloseOne, Expired
<1>2. /\ loopRows \in [Ids -> Row] /\ loopRows[i] \in Row /\ loopRows[i].day \in Days /\ m0 \in Months
      /\ loopDaily \in [Days -> DailyRow] /\ loopMonthly \in [Months -> MonthlyRow]
  BY LedgerAssumption DEF LoopInv, Row
<1>3. /\ left \in [Ids -> Row] /\ left[i] = SweptRow(loopRows[i], loopClock)
      /\ left[i] = IF loopRows[i].dispatched THEN Finalized(loopRows[i], loopRows[i].requested) ELSE Released(loopRows[i])
      /\ \A j \in Ids : j # i => left[j] = loopRows[j]
  BY <1>1, <1>2, LedgerAssumption DEF SweptRow, Finalized, Released, Row
<1>4. Closing(loopRows, left)
  <2>1. \A j \in Ids : left[j] \in {loopRows[j], SweptRow(loopRows[j], loopClock)}
    BY <1>3
  <2> HIDE DEF left
  <2> QED
    BY <1>2, <1>3, <2>1, SweptIsClosing
<1>5. ASSUME NEW j \in Ids PROVE left[j] \in {rows0[j], SweptRow(rows0[j], loopClock)}
  <2>1. loopRows[j] \in {rows0[j], SweptRow(rows0[j], loopClock)} /\ rows0[j] \in Row
    BY DEF LoopInv
  <2>2. CASE j = i
    <3>1. loopRows[i] = rows0[i]
      <4>1. SweptRow(rows0[i], loopClock) = rows0[i]
              \/ SweptRow(rows0[i], loopClock).status \in {"finalized", "released"}
        BY <2>1, <2>2 DEF SweptRow, Finalized, Released, Row
      <4> QED
        BY <1>1, <2>1, <2>2, <4>1
    <3> QED
      BY <1>3, <2>2, <3>1
  <2>3. CASE j # i
    BY <1>3, <2>1, <2>3
  <2> QED
    BY <2>2, <2>3
<1>6. /\ \A d : OnDay(left, d) = OnDay(loopRows, d) /\ OnDay(loopRows, d) \in SUBSET Ids
      /\ \A m : InMonth(left, m) = InMonth(loopRows, m) /\ InMonth(loopRows, m) \in SUBSET Ids
  <2>1. /\ \A d : OnDay(left, d) = OnDay(loopRows, d)
        /\ \A m : InMonth(left, m) = InMonth(loopRows, m)
    BY <1>2, <1>3, <1>4, ClosingKeepsBuckets
  <2>2. \A d : OnDay(loopRows, d) \in SUBSET Ids
    BY DEF OnDay
  <2>3. \A m : InMonth(loopRows, m) \in SUBSET Ids
    BY DEF InMonth
  <2> QED
    BY <2>1, <2>2, <2>3
<1>7. /\ \A d : i \in OnDay(loopRows, d) <=> d = d0
      /\ \A m : i \in InMonth(loopRows, m) <=> m = m0
  BY <1>1 DEF OnDay, InMonth
<1> HIDE DEF left
<1>8. loopDaily' = SettleDays(loopDaily, loopRows, left)
  <2>1. ASSUME NEW d \in Days PROVE loopDaily'[d] = Settle(loopDaily[d], loopRows, left, OnDay(loopRows, d))
    <3>1. CASE d = d0
      <4>1. Rewrite(loopDaily[d0], loopRows[i], HeldBy(left, OnDay(loopRows, d0)))
              = Settle(loopDaily[d0], loopRows, left, OnDay(loopRows, d0))
        BY <1>1, <1>2, <1>3, <1>6, <1>7, RewriteIsSettle
      <4> QED
        BY <1>1, <1>2, <1>6, <3>1, <4>1
    <3>2. CASE d # d0
      <4>1. \A j \in OnDay(loopRows, d) : left[j] = loopRows[j]
        BY <1>3, <1>6, <1>7, <3>2
      <4>2. Settle(loopDaily[d], loopRows, left, OnDay(loopRows, d)) = loopDaily[d]
        BY <4>1, NoneToSettle
      <4> QED
        BY <1>1, <1>2, <3>2, <4>2
    <3> QED
      BY <3>1, <3>2
  <2>2. loopDaily' = [d \in Days |-> loopDaily'[d]]
    BY <1>1, <1>2
  <2> QED
    BY <2>1, <2>2 DEF SettleDays
<1>9. loopMonthly' = SettleMonths(loopMonthly, loopRows, left)
  <2>1. ASSUME NEW m \in Months PROVE loopMonthly'[m] = Settle(loopMonthly[m], loopRows, left, InMonth(loopRows, m))
    <3>1. CASE m = m0
      <4>1. Rewrite(loopMonthly[m0], loopRows[i], HeldBy(left, InMonth(loopRows, m0)))
              = Settle(loopMonthly[m0], loopRows, left, InMonth(loopRows, m0))
        BY <1>1, <1>2, <1>3, <1>6, <1>7, RewriteIsSettle
      <4> QED
        BY <1>1, <1>2, <1>6, <3>1, <4>1
    <3>2. CASE m # m0
      <4>1. \A j \in InMonth(loopRows, m) : left[j] = loopRows[j]
        BY <1>3, <1>6, <1>7, <3>2
      <4>2. Settle(loopMonthly[m], loopRows, left, InMonth(loopRows, m)) = loopMonthly[m]
        BY <4>1, NoneToSettle
      <4> QED
        BY <1>1, <1>2, <3>2, <4>2
    <3> QED
      BY <3>1, <3>2
  <2>2. loopMonthly' = [m \in Months |-> loopMonthly'[m]]
    BY <1>1, <1>2
  <2> QED
    BY <2>1, <2>2 DEF SettleMonths
<1> QED
  BY <1>1, <1>3, <1>4, <1>5, <1>8, <1>9

\* An iteration keeps the invariant.
LEMMA LoopNextSound ==
  ASSUME LoopInv, [LoopNext]_loopVars
  PROVE  LoopInv'
<1>1. CASE UNCHANGED loopVars
  BY <1>1 DEF LoopInv, loopVars
<1>2. ASSUME NEW i \in Ids, CloseOne(i) PROVE LoopInv'
  <2>1. UNCHANGED <<loopClock, rows0, daily0, monthly0>>
    BY <1>2 DEF CloseOne
  <2>2. /\ loopRows' \in [Ids -> Row] /\ Closing(loopRows, loopRows')
        /\ \A j \in Ids : loopRows'[j] \in {rows0[j], SweptRow(rows0[j], loopClock)}
        /\ loopDaily' = SettleDays(loopDaily, loopRows, loopRows')
        /\ loopMonthly' = SettleMonths(loopMonthly, loopRows, loopRows')
    BY <1>2, CloseOneSettles
  <2>3. /\ rows0 \in [Ids -> Row] /\ loopRows \in [Ids -> Row]
        /\ daily0 \in [Days -> DailyRow] /\ monthly0 \in [Months -> MonthlyRow]
        /\ loopDaily = SettleDays(daily0, rows0, loopRows) /\ loopMonthly = SettleMonths(monthly0, rows0, loopRows)
    BY DEF LoopInv
  <2>4. Closing(rows0, loopRows) /\ Closing(rows0, loopRows')
    BY <2>2, <2>3, SweptIsClosing DEF LoopInv
  <2>5. /\ \A d : OnDay(loopRows, d) = OnDay(rows0, d) /\ OnDay(rows0, d) \in SUBSET Ids
        /\ \A m : InMonth(loopRows, m) = InMonth(rows0, m) /\ InMonth(rows0, m) \in SUBSET Ids
    BY <2>3, <2>4, ClosingKeepsBuckets DEF OnDay, InMonth
  <2>6. loopDaily' = SettleDays(daily0, rows0, loopRows')
    <3>1. ASSUME NEW d \in Days
          PROVE  Settle(loopDaily[d], loopRows, loopRows', OnDay(loopRows, d))
                   = Settle(daily0[d], rows0, loopRows', OnDay(rows0, d))
      <4>1. loopDaily[d] = Settle(daily0[d], rows0, loopRows, OnDay(rows0, d)) /\ daily0[d] \in DailyRow
        BY <2>3 DEF SettleDays
      <4> QED
        BY <2>2, <2>3, <2>4, <2>5, <4>1, SettleTwice
    <3> QED
      BY <2>2, <3>1 DEF SettleDays
  <2>7. loopMonthly' = SettleMonths(monthly0, rows0, loopRows')
    <3>1. ASSUME NEW m \in Months
          PROVE  Settle(loopMonthly[m], loopRows, loopRows', InMonth(loopRows, m))
                   = Settle(monthly0[m], rows0, loopRows', InMonth(rows0, m))
      <4>1. loopMonthly[m] = Settle(monthly0[m], rows0, loopRows, InMonth(rows0, m)) /\ monthly0[m] \in MonthlyRow
        BY <2>3 DEF SettleMonths
      <4> QED
        BY <2>2, <2>3, <2>4, <2>5, <4>1, SettleTwice
    <3> QED
      BY <2>2, <3>1 DEF SettleMonths
  <2>8. loopDaily' \in [Days -> DailyRow] /\ loopMonthly' \in [Months -> MonthlyRow]
    BY <2>2, <2>3, <2>4, <2>5, <2>6, <2>7, SettleTyped DEF SettleDays, SettleMonths
  <2> QED
    BY <2>1, <2>2, <2>3, <2>6, <2>7, <2>8 DEF LoopInv
<1> QED
  BY <1>1, <1>2 DEF LoopNext

\* The ledger takes the loop of expire_ai_budget_reservations as one Settle of
\* the rows it sweeps: from any rows and any aggregates, in whatever order the
\* loop visits them, it is through exactly when it has given that.
THEOREM LoopIsSettle == ASSUME LoopAssumption PROVE LoopSpec => []LoopIsOneSweep
<1>1. LoopInit => LoopInv
  BY LoopInitSound
<1>2. LoopInv /\ [LoopNext]_loopVars => LoopInv'
  BY LoopNextSound
<1>3. LoopInv => LoopIsOneSweep
  <2>1. SUFFICES ASSUME LoopInv, Expired = {} PROVE loopRows = SweptRows(rows0, loopClock)
    BY DEF LoopInv, LoopIsOneSweep
  <2>2. ASSUME NEW i \in Ids PROVE loopRows[i] = SweptRow(rows0[i], loopClock)
    BY <2>1 DEF LoopInv, Expired, SweptRow
  <2> QED
    BY <2>1, <2>2 DEF LoopInv, SweptRows
<1> QED
  BY <1>1, <1>2, <1>3, PTL DEF LoopSpec

-----------------------------------------------------------------------------
(***************************************************************************)
(* Proofs that withAiBudget keeps its promises for every number of calls,  *)
(* every amount, every lease and lock wait, any number of RPC attempts,    *)
(* and every loss, delay, repetition and crash of BudgetedCall.            *)
(***************************************************************************)

-----------------------------------------------------------------------------
(* The inductive invariant.  The properties the runs check say nothing of   *)
(* the requests in flight nor of the process's place, so none of them is    *)
(* inductive: a release still in flight could fall on a call that the       *)
(* provider takes later.  CallSafe ties the four together.                  *)

\* A release of the call is in flight.
Recalled(c) == \E r \in wire : r.call = c /\ r.op = "release"

\* The call's row is dispatched and not released: a sweep can only charge it.
Secure(R, c) == R[c].dispatched /\ R[c].status \in {"running", "finalized"}

Unpaid == {"retryable", "failed", "exceeded"}

CallSafe(c) ==
  /\ provider[c] # "idle" =>
       rows[c].dispatched /\ rows[c].status # "none" /\ marked[c]
  /\ provider[c] \in {"called", "billed"} => Secure(rows, c)
  /\ pc[c] \in {"invoke", "calling"} => Secure(rows, c) /\ marked[c]
  /\ pc[c] \in {"idle", "reserve", "hook", "dispatch", "invoke"} =>
       provider[c] = "idle"
  /\ pc[c] = "dispatch" => marked[c]
  /\ answer[c] # NoRow => pc[c] \in Ops
  /\ pc[c] = "dispatch" /\ answer[c].status = "running" /\ answer[c].dispatched =>
       Secure(rows, c)
  /\ Recalled(c) \/ pc[c] = "release" \/ outcome[c] \in Unpaid =>
       pc[c] \in {"release", "done", "dead"} /\ provider[c] \in {"idle", "refused"}

Answer == Row \cup {[NoRow EXCEPT !.status = "exceeded"]}

PlaceTyped ==
  /\ pc \in [Calls -> Ops \cup {"idle", "hook", "invoke", "calling", "done", "dead"}]
  /\ try \in [Calls -> 0..Attempts]
  /\ \A c \in Calls : pc[c] \in Ops => try[c] \in 1..Attempts
  /\ wire \subseteq [call : Calls, op : Ops, try : 1..Attempts]

ProcessTyped ==
  /\ PlaceTyped
  /\ answer \in [Calls -> Answer]
  /\ marked \in [Calls -> BOOLEAN]
  /\ provider \in [Calls -> {"idle", "called", "billed", "refused"}]
  /\ usage \in [Calls -> Charges \cup Amounts]
  /\ outcome \in [Calls -> {"none", "result", "retryable", "failed", "exceeded", "unknown"}]

CallInv ==
  /\ LedgerInv
  /\ ProcessTyped
  /\ \A c \in Calls : CallSafe(c)

-----------------------------------------------------------------------------
(* What a transaction does to a row that is not its own.                   *)

\* A dispatched row stays one, and a secure row stays secure.
Kept(R, S, i) ==
  /\ R[i].dispatched /\ R[i].status # "none" => S[i].dispatched /\ S[i].status # "none"
  /\ Secure(R, i) => Secure(S, i)

\* No sweep takes the dispatch marker or releases a dispatched row.
LEMMA SweepKeeps ==
  ASSUME NEW now, NEW i \in Ids, rows \in [Ids -> Row]
  PROVE  Kept(rows, Swept(now), i)
<1>1. /\ rows[i] \in Row
      /\ Swept(now)[i] = SweptRow(rows[i], now)
  BY DEF Swept, SweptRows
<1>2. CASE rows[i].status = "running" /\ rows[i].dispatched
  <2>1. \/ Swept(now)[i] = rows[i]
        \/ Swept(now)[i] = Finalized(rows[i], rows[i].requested)
    BY <1>1, <1>2 DEF SweptRow
  <2>2. /\ Finalized(rows[i], rows[i].requested).status = "finalized"
        /\ Finalized(rows[i], rows[i].requested).dispatched
    BY <1>1, <1>2 DEF Finalized, Row
  <2> QED
    BY <1>2, <2>1, <2>2 DEF Kept, Secure
<1>3. CASE rows[i].status = "running" /\ ~rows[i].dispatched
  BY <1>3 DEF Kept, Secure
<1>4. CASE rows[i].status # "running"
  BY <1>1, <1>4 DEF SweptRow, Kept, Secure
<1> QED
  BY <1>2, <1>3, <1>4

\* Only a release of the very call takes the security of its row.
LEMMA ServeKeeps ==
  ASSUME NEW r \in [call : Calls, op : Ops, try : 1..Attempts], NEW now \in Times,
         NEW i \in Ids, rows \in [Ids -> Row], Commits(r, now),
         ~(r.op = "release" /\ r.call = i)
  PROVE  Kept(rows, rows', i)
<1>1. /\ Kept(rows, Swept(now), i)
      /\ DOMAIN Swept(now) = Ids
  BY SweepKeeps DEF Swept, SweptRows
<1>2. Swept(now)[i] \in Row
  BY DEF Swept, SweptRows, SweptRow, Finalized, Released, Row
<1>3. CASE OnlySweep(now)
  BY <1>1, <1>3 DEF OnlySweep
<1>4. ASSUME NEW row, r.call # i, rows' = [Swept(now) EXCEPT ![r.call] = row]
      PROVE  Kept(rows, rows', i)
  BY <1>1, <1>4 DEF Kept, Secure
<1>5. ASSUME NEW amount, Reserve(r.call, amount, now)
      PROVE  Kept(rows, rows', i)
  <2>1. CASE /\ Swept(now)[r.call].status = "none"
             /\ Admit(r.call, amount, now)
    BY <1>1, <1>4, <2>1 DEF Admit, Kept, Secure
  <2> QED
    BY <1>3, <1>5, <2>1 DEF Reserve
<1>6. ASSUME MarkDispatched(r.call, now)
      PROVE  Kept(rows, rows', i)
  <2>1. CASE /\ Swept(now)[r.call].status = "running"
             /\ rows' = [Swept(now) EXCEPT ![r.call] = Dispatched(@, now)]
    BY <1>1, <1>2, <1>4, <2>1 DEF Dispatched, Kept, Secure, Row
  <2> QED
    BY <1>3, <1>6, <2>1 DEF MarkDispatched
<1>7. ASSUME NEW charge, Finalize(r.call, charge, now)
      PROVE  Kept(rows, rows', i)
  <2>1. CASE /\ Swept(now)[r.call].dispatched
             /\ rows' = [Swept(now) EXCEPT ![r.call] = Finalized(@, charge)]
    BY <1>1, <1>2, <1>4, <2>1 DEF Finalized, Kept, Secure, Row
  <2> QED
    BY <1>3, <1>7, <2>1 DEF Finalize, SweepAndClose
<1>8. ASSUME r.op = "release", Release(r.call, now)
      PROVE  Kept(rows, rows', i)
  BY <1>3, <1>4, <1>8 DEF Release, SweepAndClose
<1> QED
  BY <1>5, <1>6, <1>7, <1>8 DEF Commits

\* No request takes the dispatch marker of any row.
LEMMA ReleaseKeepsMarker ==
  ASSUME NEW id \in Ids, NEW now \in Times, NEW i \in Ids, rows \in [Ids -> Row],
         Release(id, now), rows[i].dispatched, rows[i].status # "none"
  PROVE  rows'[i].dispatched /\ rows'[i].status # "none"
<1>1. /\ Swept(now)[i].dispatched /\ Swept(now)[i].status # "none"
      /\ DOMAIN Swept(now) = Ids
      /\ Swept(now)[i] \in Row
  BY DEF Swept, SweptRows, SweptRow, Finalized, Released, Row
<1>2. CASE OnlySweep(now)
  BY <1>1, <1>2 DEF OnlySweep
<1>3. CASE rows' = [Swept(now) EXCEPT ![id] = Released(@)]
  BY <1>1, <1>3 DEF Released, Row
<1> QED
  BY <1>2, <1>3 DEF Release, SweepAndClose

\* Every request leaves the ledger sound, whoever awaits it.
LEMMA CommitsSound ==
  ASSUME NEW r \in [call : Calls, op : Ops, try : 1..Attempts], NEW now \in Times,
         Sound(rows, daily, monthly), usage \in [Calls -> Charges \cup Amounts],
         Commits(r, now)
  PROVE  Sound(rows', daily', monthly')
<1>1. r.call \in Calls
  OBVIOUS
<1>2. r.call \in Ids /\ Ask[r.call] \in Amounts /\ usage[r.call] \in Charges \cup Amounts
  BY <1>1, CallAssumption
<1>3. /\ \A x \in Amounts : x \in 0..AmountCap
      /\ \A x \in Charges \cup Amounts : x \in 0..AmountCap
  BY LedgerAssumption
<1> QED
  BY <1>2, <1>3, ReserveSound, MarkDispatchedSound, FinalizeSound, ReleaseSound DEF Commits

-----------------------------------------------------------------------------
(* Types of the process variables.                                         *)

\* There is a first attempt.
LEMMA FirstAttempt == 1 \in 1..Attempts /\ 1 \in 0..Attempts
BY CallAssumption

\* Sending an RPC keeps places, attempts and requests typed.
LEMMA SendTyped ==
  ASSUME PlaceTyped, NEW c \in Calls, NEW op \in Ops, Send(c, op)
  PROVE  PlaceTyped'
<1>1. Request(c, op, 1) \in [call : Calls, op : Ops, try : 1..Attempts]
  BY FirstAttempt DEF Request
<1> QED
  BY <1>1, FirstAttempt DEF Send, PlaceTyped

\* So does a step that moves the process and sends nothing.
LEMMA MoveTyped ==
  ASSUME PlaceTyped, NEW c \in Calls,
         NEW place \in {"hook", "invoke", "calling", "done", "dead"},
         pc' = [pc EXCEPT ![c] = place], UNCHANGED <<try, wire>>
  PROVE  PlaceTyped'
BY DEF PlaceTyped, Ops

\* The application's step after an RPC gave no answer, or a useless one.
LEMMA RetryTyped ==
  ASSUME PlaceTyped, NEW c \in Calls, AttemptFails(c)
  PROVE  PlaceTyped'
<1>1. CASE try[c] < Attempts
  <2>1. pc[c] \in Ops /\ try[c] \in 1..Attempts /\ try[c] + 1 \in 1..Attempts
    BY <1>1, CallAssumption DEF AttemptFails, PlaceTyped
  <2>2. Request(c, pc[c], try[c] + 1) \in [call : Calls, op : Ops, try : 1..Attempts]
    BY <2>1 DEF Request
  <2>3. /\ try' = [try EXCEPT ![c] = try[c] + 1]
        /\ wire' = wire \cup {Request(c, pc[c], try[c] + 1)}
        /\ pc' = pc
    BY <1>1 DEF AttemptFails
  <2>4. try[c] + 1 \in 0..Attempts
    BY <2>1
  <2> QED
    BY <2>1, <2>2, <2>3, <2>4 DEF PlaceTyped
<1>2. CASE ~(try[c] < Attempts)
  <2>1. GivesUp(c)
    BY <1>2 DEF AttemptFails
  <2> QED
    BY <2>1, SendTyped, MoveTyped DEF GivesUp, ReleaseAndThrow, Finish, Ops
<1> QED
  BY <1>1, <1>2

\* An answer may have no row.
LEMMA NoRowAnswer == NoRow \in Answer
<1>1. DayOf[0] \in Days
  BY LedgerAssumption DEF Times
<1> QED
  BY <1>1, LedgerAssumption DEF Answer, NoRow, Row

\* Every step of a process keeps its variables typed.
LEMMA ProcessStepTyped ==
  ASSUME ProcessTyped, NEW c \in Calls, Process(c)
  PROVE  ProcessTyped'
<1>1. PlaceTyped
  BY DEF ProcessTyped
<1>2. CASE Begin(c)
  BY <1>1, <1>2, SendTyped DEF Begin, ProcessTyped, Ops
<1>3. CASE MarkApplication(c)
  <2>1. PlaceTyped'
    BY <1>1, <1>3, SendTyped DEF MarkApplication, ReleaseAndThrow, Ops
  <2> QED
    BY <1>3, <2>1 DEF MarkApplication, ReleaseAndThrow, ProcessTyped
<1>4. CASE Invoke(c)
  BY <1>1, <1>4, MoveTyped DEF Invoke, ProcessTyped
<1>5. CASE NotStarted(c)
  BY <1>1, <1>5, SendTyped DEF NotStarted, ReleaseAndThrow, ProcessTyped, Ops
<1>6. CASE ProviderSucceeds(c)
  BY <1>1, <1>6, SendTyped DEF ProviderSucceeds, ProcessTyped, Ops
<1>7. CASE ProviderRefused(c)
  BY <1>1, <1>7, SendTyped DEF ProviderRefused, ReleaseAndThrow, ProcessTyped, Ops
<1>8. CASE ProviderUnclear(c)
  BY <1>1, <1>8, SendTyped DEF ProviderUnclear, ProcessTyped, Ops
<1>9. CASE AttemptFails(c)
  <2>1. PlaceTyped'
    BY <1>1, <1>9, RetryTyped
  <2>2. outcome' \in [Calls -> {"none", "result", "retryable", "failed", "exceeded", "unknown"}]
    BY <1>9 DEF AttemptFails, GivesUp, ReleaseAndThrow, Finish, ProcessTyped
  <2> QED
    BY <1>9, <2>1, <2>2, NoRowAnswer DEF AttemptFails, ProcessTyped
<1>10. CASE Receive(c)
  <2>1. PlaceTyped'
    BY <1>1, <1>10, SendTyped, MoveTyped DEF Receive, ReleaseAndThrow, Finish, Ops
  <2>2. outcome' \in [Calls -> {"none", "result", "retryable", "failed", "exceeded", "unknown"}]
    BY <1>10 DEF Receive, ReleaseAndThrow, Finish, ProcessTyped
  <2> QED
    BY <1>10, <2>1, <2>2, NoRowAnswer DEF Receive, ProcessTyped
<1> QED
  BY <1>2, <1>3, <1>4, <1>5, <1>6, <1>7, <1>8, <1>9, <1>10 DEF Process

-----------------------------------------------------------------------------
(* Safety of one call under the steps of its own process.                  *)

\* The step touches no row and of the calls only this one.
Own(c) ==
  /\ UNCHANGED rows
  /\ \A d \in Calls \ {c} :
       /\ pc'[d] = pc[d] /\ answer'[d] = answer[d] /\ marked'[d] = marked[d]
       /\ provider'[d] = provider[d] /\ outcome'[d] = outcome[d]
       /\ usage'[d] = usage[d]
  /\ \A r \in wire' : r.call # c => r \in wire

\* The other calls do not notice.
LEMMA OthersUntouched ==
  ASSUME NEW c \in Calls, NEW d \in Calls, d # c, Own(c), CallSafe(d)
  PROVE  CallSafe(d)'
<1>1. Recalled(d)' => Recalled(d)
  BY DEF Recalled, Own
<1>2. /\ rows' = rows /\ pc'[d] = pc[d] /\ answer'[d] = answer[d]
      /\ marked'[d] = marked[d] /\ provider'[d] = provider[d] /\ outcome'[d] = outcome[d]
  BY DEF Own
<1> QED
  BY <1>1, <1>2 DEF CallSafe, Secure

\* Sending recalls the call only when what it sends is a release.
LEMMA SendRecalls ==
  ASSUME NEW c \in Calls, NEW op \in Ops, Send(c, op)
  PROVE  /\ op # "release" => (Recalled(c)' => Recalled(c))
         /\ \A r \in wire' : r.call # c => r \in wire
BY DEF Send, Request, Recalled

\* A step that sends nothing recalls nothing new.
LEMMA NothingSent ==
  ASSUME NEW c \in Calls, UNCHANGED wire
  PROVE  /\ Recalled(c)' => Recalled(c)
         /\ \A r \in wire' : r.call # c => r \in wire
BY DEF Recalled

\* A process only ever releases a call the provider cannot have taken.
LEMMA ReleaseAndThrowSafe ==
  ASSUME ProcessTyped, NEW c \in Calls, CallSafe(c), NEW what,
         provider[c] \in {"idle", "refused"},
         ReleaseAndThrow(c, what),
         marked' = marked \/ provider[c] = "idle",
         answer'[c] = answer[c] \/ answer'[c] = NoRow,
         UNCHANGED <<rows, provider>>
  PROVE  CallSafe(c)'
<1>1. pc'[c] = "release"
  BY DEF ReleaseAndThrow, Send, ProcessTyped, PlaceTyped
<1> QED
  BY <1>1 DEF CallSafe, Secure, Ops

\* Every step of a process keeps its own call safe.
LEMMA ProcessStepSafe ==
  ASSUME ProcessTyped, NEW c \in Calls, CallSafe(c), Process(c)
  PROVE  CallSafe(c)'
<1> USE DEF ProcessTyped, PlaceTyped
<1>1. CASE Begin(c)
  <2>1. pc'[c] = "reserve" /\ (Recalled(c)' => Recalled(c))
    BY <1>1, SendRecalls DEF Begin, Send, Ops
  <2> QED
    BY <1>1, <2>1 DEF Begin, CallSafe, Secure, ledgerVars, Unpaid, Ops
<1>2. CASE MarkApplication(c)
  <2>1. CASE /\ marked' = [marked EXCEPT ![c] = TRUE]
             /\ Send(c, "dispatch")
             /\ UNCHANGED outcome
    <3>1. pc'[c] = "dispatch" /\ (Recalled(c)' => Recalled(c))
      BY <2>1, SendRecalls DEF Send, Ops
    <3> QED
      BY <1>2, <2>1, <3>1 DEF MarkApplication, CallSafe, Secure, ledgerVars, Unpaid, Ops, NoRow
  <2>2. CASE ReleaseAndThrow(c, "failed")
    <3>1. provider[c] = "idle" /\ UNCHANGED <<rows, answer, provider>>
      BY <1>2 DEF MarkApplication, CallSafe, ledgerVars
    <3> QED
      BY <2>2, <3>1, ReleaseAndThrowSafe
  <2> QED
    BY <1>2, <2>1, <2>2 DEF MarkApplication
<1>3. CASE Invoke(c)
  <2>1. Recalled(c)' => Recalled(c)
    BY <1>3, NothingSent DEF Invoke
  <2> QED
    BY <1>3, <2>1 DEF Invoke, CallSafe, Secure, ledgerVars, Unpaid, Ops
<1>4. CASE NotStarted(c)
  <2>1. provider[c] = "idle" /\ UNCHANGED <<rows, answer, marked, provider>>
    BY <1>4 DEF NotStarted, CallSafe, ledgerVars
  <2> QED
    BY <1>4, <2>1, ReleaseAndThrowSafe DEF NotStarted
<1>5. CASE ProviderSucceeds(c)
  <2>1. pc'[c] = "finalize" /\ (Recalled(c)' => Recalled(c))
    BY <1>5, SendRecalls DEF ProviderSucceeds, Send, Ops
  <2> QED
    BY <1>5, <2>1 DEF ProviderSucceeds, CallSafe, Secure, ledgerVars, Unpaid, Ops
<1>6. CASE ProviderRefused(c)
  <2>1. provider[c] = "refused" /\ UNCHANGED <<rows, answer, marked, provider>>
    BY <1>6 DEF ProviderRefused, ledgerVars
  <2> QED
    BY <1>6, <2>1, ReleaseAndThrowSafe DEF ProviderRefused
<1>7. CASE ProviderUnclear(c)
  <2>1. pc'[c] = "charge" /\ (Recalled(c)' => Recalled(c))
    BY <1>7, SendRecalls DEF ProviderUnclear, Send, Ops
  <2> QED
    BY <1>7, <2>1 DEF ProviderUnclear, CallSafe, Secure, ledgerVars, Unpaid, Ops
<1>8. CASE AttemptFails(c)
  <2>1. answer'[c] = NoRow /\ UNCHANGED <<rows, provider, marked>>
    BY <1>8 DEF AttemptFails, ledgerVars
  <2>2. CASE try[c] < Attempts
    <3>1. /\ pc[c] \in Ops /\ UNCHANGED <<pc, outcome>>
          /\ wire' = wire \cup {Request(c, pc[c], try[c] + 1)}
      BY <1>8, <2>2 DEF AttemptFails
    <3>2. pc[c] # "release" => (Recalled(c)' => Recalled(c))
      BY <3>1 DEF Recalled, Request
    <3> QED
      BY <2>1, <3>1, <3>2 DEF CallSafe, Secure, NoRow
  <2>3. CASE GivesUp(c)
    <3>1. CASE pc[c] \in {"reserve", "dispatch"} /\ ReleaseAndThrow(c, "failed")
      BY <2>1, <3>1, ReleaseAndThrowSafe DEF CallSafe
    <3>2. CASE \/ pc[c] = "finalize" /\ Finish(c, "result")
               \/ pc[c] \in {"charge", "release"} /\ Finish(c, outcome[c])
      <4>1. pc'[c] = "done" /\ (Recalled(c)' => Recalled(c))
        BY <3>2, NothingSent DEF Finish
      <4> QED
        BY <2>1, <3>2, <4>1 DEF Finish, CallSafe, Secure, Unpaid
    <3> QED
      BY <2>3, <3>1, <3>2 DEF GivesUp
  <2> QED
    BY <1>8, <2>2, <2>3 DEF AttemptFails
<1>9. CASE Receive(c)
  <2>1. answer'[c] = NoRow /\ UNCHANGED <<rows, provider, marked>>
    BY <1>9 DEF Receive, ledgerVars
  <2>2. CASE pc[c] \in {"reserve", "dispatch"} /\ ReleaseAndThrow(c, "failed")
    BY <2>1, <2>2, ReleaseAndThrowSafe DEF CallSafe
  <2>3. CASE \/ pc[c] = "reserve" /\ \E what : Finish(c, what)
             \/ pc[c] = "finalize" /\ Finish(c, "result")
             \/ pc[c] \in {"charge", "release"} /\ Finish(c, outcome[c])
    <3>1. pc'[c] = "done" /\ (Recalled(c)' => Recalled(c))
      BY <2>3, NothingSent DEF Finish
    <3>2. CASE pc[c] = "reserve"
      BY <2>1, <3>1, <3>2 DEF CallSafe, Secure, Unpaid
    <3>3. CASE /\ pc[c] \in {"finalize", "charge", "release"}
               /\ outcome'[c] \in {outcome[c], "result"}
      BY <2>1, <3>1, <3>3 DEF CallSafe, Secure, Unpaid
    <3> QED
      BY <2>3, <3>2, <3>3 DEF Finish
  <2>4. CASE /\ pc[c] = "reserve"
             /\ pc' = [pc EXCEPT ![c] = "hook"]
             /\ UNCHANGED <<try, wire, outcome>>
    <3>1. Recalled(c)' => Recalled(c)
      BY <2>4, NothingSent
    <3> QED
      BY <2>1, <2>4, <3>1 DEF CallSafe, Secure, Unpaid
  <2>5. CASE /\ pc[c] = "dispatch"
             /\ answer[c].status = "running" /\ answer[c].dispatched
             /\ pc' = [pc EXCEPT ![c] = "invoke"]
             /\ UNCHANGED <<try, wire, outcome>>
    <3>1. Recalled(c)' => Recalled(c)
      BY <2>5, NothingSent
    <3> QED
      BY <2>1, <2>5, <3>1 DEF CallSafe, Secure, Unpaid
  <2> QED
    BY <1>9, <2>2, <2>3, <2>4, <2>5 DEF Receive
<1> QED
  BY <1>1, <1>2, <1>3, <1>4, <1>5, <1>6, <1>7, <1>8, <1>9 DEF Process

\* And touches nothing of the others.
LEMMA ProcessStepOwn ==
  ASSUME ProcessTyped, NEW c \in Calls, Process(c)
  PROVE  Own(c) /\ UNCHANGED ledgerVars
<1>1. UNCHANGED ledgerVars
  BY DEF Process, Begin, MarkApplication, Invoke, NotStarted, ProviderSucceeds,
         ProviderRefused, ProviderUnclear, AttemptFails, Receive
<1>2. \A d \in Calls \ {c} :
        /\ pc'[d] = pc[d] /\ answer'[d] = answer[d] /\ marked'[d] = marked[d]
        /\ provider'[d] = provider[d] /\ outcome'[d] = outcome[d]
        /\ usage'[d] = usage[d]
  BY DEF Process, Begin, MarkApplication, Invoke, NotStarted, ProviderSucceeds,
         ProviderRefused, ProviderUnclear, AttemptFails, Receive, GivesUp,
         ReleaseAndThrow, Finish, Send, ProcessTyped, PlaceTyped
<1>3. \A r \in wire' : r.call # c => r \in wire
  BY DEF Process, Begin, MarkApplication, Invoke, NotStarted, ProviderSucceeds,
         ProviderRefused, ProviderUnclear, AttemptFails, Receive, GivesUp,
         ReleaseAndThrow, Finish, Send, Request
<1> QED
  BY <1>1, <1>2, <1>3 DEF Own, ledgerVars

-----------------------------------------------------------------------------
(* Safety of a call under the steps of the environment.                    *)

\* A transaction of whatever request, or of another page, keeps a call safe:
\* a release of the call can only be in flight where the provider cannot
\* have taken it.
LEMMA RowsMoveSafe ==
  ASSUME ProcessTyped, NEW c \in Calls, CallSafe(c),
         UNCHANGED <<pc, marked, provider, outcome>>,
         wire' \subseteq wire,
         Recalled(c) \/ Kept(rows, rows', c),
         rows[c].dispatched /\ rows[c].status # "none" =>
           rows'[c].dispatched /\ rows'[c].status # "none",
         \/ answer'[c] = answer[c]
         \/ /\ pc[c] \in Ops
            /\ answer'[c].status = "running" => answer'[c] = rows'[c]
  PROVE  CallSafe(c)'
<1>1. Recalled(c)' => Recalled(c)
  BY DEF Recalled
<1>2. Secure(rows, c) => Secure(rows', c) \/ Recalled(c)
  BY DEF Kept
<1>3. pc[c] \in {"dispatch", "invoke", "calling"} \/ provider[c] \in {"called", "billed"}
        => ~Recalled(c)
  BY DEF CallSafe
<1>4. pc[c] = "dispatch" /\ answer'[c].status = "running" /\ answer'[c].dispatched
        => Secure(rows', c)
  BY <1>2, <1>3 DEF CallSafe, Secure
<1> QED
  BY <1>1, <1>2, <1>3, <1>4 DEF CallSafe, Secure

\* Another page's sweep.
LEMMA VisitSafe ==
  ASSUME CallInv, NEW now \in Times, Visit(now), NEW c \in Calls
  PROVE  CallSafe(c)'
<1>1. c \in Ids /\ rows \in [Ids -> Row] /\ rows' = Swept(now)
  BY CallAssumption DEF CallInv, LedgerInv, Sound, Typed, Visit, OnlySweep
<1>2. Kept(rows, rows', c)
  BY <1>1, SweepKeeps
<1>3. UNCHANGED callVars /\ ProcessTyped /\ CallSafe(c)
  BY DEF Visit, CallInv
<1> QED
  BY <1>2, <1>3, RowsMoveSafe DEF callVars, Kept

\* A request commits, in time or long after its caller has gone on.
LEMMA ServeSafe ==
  ASSUME CallInv, NEW now \in Times, NEW r \in wire, Serve(r, now), NEW c \in Calls
  PROVE  CallSafe(c)'
<1>1. /\ c \in Ids /\ rows \in [Ids -> Row]
      /\ ProcessTyped /\ CallSafe(c)
      /\ r \in [call : Calls, op : Ops, try : 1..Attempts]
  BY CallAssumption DEF CallInv, LedgerInv, Sound, Typed, ProcessTyped, PlaceTyped
<1>2. Commits(r, now) /\ r.call \in Ids
  BY <1>1, CallAssumption DEF Serve
<1>3. Recalled(c) \/ Kept(rows, rows', c)
  BY <1>1, <1>2, ServeKeeps DEF Recalled
<1>4. rows[c].dispatched /\ rows[c].status # "none" =>
        rows'[c].dispatched /\ rows'[c].status # "none"
  <2>1. CASE r.op = "release" /\ r.call = c
    BY <1>1, <1>2, <2>1, ReleaseKeepsMarker DEF Commits
  <2>2. CASE ~(r.op = "release" /\ r.call = c)
    BY <1>1, <1>2, <2>2, ServeKeeps DEF Kept
  <2> QED
    BY <2>1, <2>2
<1>5. \/ answer'[c] = answer[c]
      \/ /\ pc[c] \in Ops
         /\ answer'[c].status = "running" => answer'[c] = rows'[c]
  <2>1. CASE Awaited(r) /\ r.call = c
    BY <1>1, <2>1 DEF Awaited, Serve, ProcessTyped, NoRow
  <2>2. CASE ~(Awaited(r) /\ r.call = c)
    BY <1>1, <2>2 DEF Serve, ProcessTyped
  <2> QED
    BY <2>1, <2>2
<1> QED
  BY <1>1, <1>3, <1>4, <1>5, RowsMoveSafe DEF Serve

\* The answer a request leaves is one its process can read.
LEMMA ServeTyped ==
  ASSUME CallInv, NEW now \in Times, NEW r \in wire, Serve(r, now), rows' \in [Ids -> Row]
  PROVE  ProcessTyped'
<1>1. r.call \in Calls /\ r.call \in Ids /\ ProcessTyped
  BY CallAssumption DEF CallInv, ProcessTyped, PlaceTyped
<1>2. [NoRow EXCEPT !.status = "exceeded"] \in Answer /\ rows'[r.call] \in Answer
  BY <1>1 DEF Answer
<1>3. answer' \in [Calls -> Answer]
  BY <1>1, <1>2 DEF Serve, ProcessTyped
<1> QED
  BY <1>1, <1>3 DEF Serve, ProcessTyped, PlaceTyped

\* Crashes, the provider and the network.
LEMMA EnvironmentSafe ==
  ASSUME ProcessTyped, NEW c \in Calls, CallSafe(c),
         Crash(c) \/ ProviderBills(c) \/ ProviderRefuses(c)
  PROVE  /\ CallSafe(c)' /\ ProcessTyped'
         /\ Own(c) /\ UNCHANGED ledgerVars
<1>1. Recalled(c)' => Recalled(c)
  BY NothingSent DEF Crash, ProviderBills, ProviderRefuses
<1>2. CASE Crash(c)
  <2>1. CallSafe(c)'
    BY <1>1, <1>2 DEF Crash, CallSafe, Secure, ledgerVars, ProcessTyped, PlaceTyped, Ops
  <2>2. ProcessTyped'
    BY <1>2, MoveTyped, NoRowAnswer DEF Crash, ProcessTyped
  <2> QED
    BY <1>2, <2>1, <2>2 DEF Crash, Own, ledgerVars, ProcessTyped, PlaceTyped
<1>3. CASE ProviderBills(c) \/ ProviderRefuses(c)
  <2>1. CallSafe(c)'
    BY <1>1, <1>3 DEF ProviderBills, ProviderRefuses, CallSafe, Secure, ledgerVars,
                      ProcessTyped, PlaceTyped, Ops
  <2>2. ProcessTyped'
    BY <1>3 DEF ProviderBills, ProviderRefuses, ProcessTyped, PlaceTyped
  <2> QED
    BY <1>3, <2>1, <2>2 DEF ProviderBills, ProviderRefuses, Own, ledgerVars, ProcessTyped
<1> QED
  BY <1>2, <1>3

\* Losing a request and the passing of time change no row.
LEMMA QuietSafe ==
  ASSUME CallInv, UNCHANGED <<rows, pc, try, answer, marked, provider, usage, outcome>>,
         wire' \subseteq wire
  PROVE  ProcessTyped' /\ \A c \in Calls : CallSafe(c)'
<1>1. \A c \in Calls : Recalled(c)' => Recalled(c)
  BY DEF Recalled
<1> QED
  BY <1>1 DEF CallInv, ProcessTyped, PlaceTyped, CallSafe, Secure

-----------------------------------------------------------------------------
(* The theorems.                                                           *)

\* Before the first call there is nothing to keep.
LEMMA CallInitSafe == Init => CallInv
<1> SUFFICES ASSUME Init PROVE CallInv
  OBVIOUS
<1>1. LedgerInv
  BY LedgerInitSound DEF Init
<1>2. ProcessTyped
  BY NoRowAnswer, CallAssumption DEF Init, ProcessTyped, PlaceTyped, Ops
<1>3. \A c \in Calls : CallSafe(c)
  BY DEF Init, CallSafe, Recalled, Unpaid, NoRow, Ops
<1> QED
  BY <1>1, <1>2, <1>3 DEF CallInv

\* Every step keeps every call safe: one case per kind of step.
LEMMA CallNextSafe ==
  ASSUME CallInv, [Next]_vars
  PROVE  CallInv'
<1>1. /\ LedgerInv /\ ProcessTyped /\ \A c \in Calls : CallSafe(c)
      /\ Sound(rows, daily, monthly) /\ clock \in Times
      /\ \A t \in Starts : t \in Times
  BY DEF CallInv, LedgerInv, Starts
<1>2. UNCHANGED ledgerVars => LedgerInv'
  BY <1>1, LedgerNextSound
<1>3. ASSUME NEW c \in Calls, Process(c)
      PROVE  CallInv'
  BY <1>1, <1>2, <1>3, ProcessStepTyped, ProcessStepSafe, ProcessStepOwn,
     OthersUntouched DEF CallInv
<1>4. ASSUME NEW c \in Calls, Crash(c) \/ ProviderBills(c) \/ ProviderRefuses(c)
      PROVE  CallInv'
  BY <1>1, <1>2, <1>4, EnvironmentSafe, OthersUntouched DEF CallInv
<1>5. ASSUME NEW r \in wire, Lose(r)
      PROVE  CallInv'
  BY <1>2, <1>5, QuietSafe DEF Lose, CallInv, ledgerVars
<1>6. ASSUME NEW now \in Starts, Visit(now)
      PROVE  CallInv'
  <2>1. LedgerInv'
    BY <1>1, <1>6, OnlySweepSound DEF Visit, LedgerInv
  <2>2. ProcessTyped'
    BY <1>1, <1>6 DEF Visit, callVars, ProcessTyped, PlaceTyped
  <2> QED
    BY <1>1, <1>6, <2>1, <2>2, VisitSafe DEF CallInv
<1>7. ASSUME NEW now \in Starts, NEW r \in wire, Serve(r, now)
      PROVE  CallInv'
  <2>1. r \in [call : Calls, op : Ops, try : 1..Attempts]
    BY <1>1 DEF ProcessTyped, PlaceTyped
  <2>2. LedgerInv'
    BY <1>1, <1>7, <2>1, CommitsSound DEF Serve, LedgerInv, ProcessTyped
  <2>3. ProcessTyped'
    BY <1>1, <1>7, <2>2, ServeTyped DEF LedgerInv, Sound, Typed
  <2> QED
    BY <1>1, <1>7, <2>2, <2>3, ServeSafe DEF CallInv
<1>8. CASE Time
  <2>1. LedgerInv'
    BY <1>1, <1>8, LedgerNextSound DEF Time, LedgerNext
  <2> QED
    BY <1>8, <2>1, QuietSafe DEF Time, Tick, callVars, CallInv
<1>9. CASE UNCHANGED vars
  BY <1>2, <1>9, QuietSafe DEF vars, ledgerVars, callVars, CallInv
<1> QED
  BY <1>3, <1>4, <1>5, <1>6, <1>7, <1>8, <1>9 DEF Next

\* Every reachable state of every call is safe.
THEOREM CallsSafe == Spec => []CallInv
<1>1. Init => CallInv
  BY CallInitSafe
<1>2. CallInv /\ [Next]_vars => CallInv'
  BY CallNextSafe
<1> QED
  BY <1>1, <1>2, PTL DEF Spec

\* Every variable of the ledger and of every process keeps its type.
THEOREM CallTypes == Spec => []CallTypeOK
<1>1. CallInv => CallTypeOK
  BY DEF CallInv, LedgerInv, Sound, Typed, LedgerTypeOK, ProcessTyped, PlaceTyped, CallTypeOK
<1> QED
  BY <1>1, CallsSafe, PTL

\* The provider sees no call before both durable markers are set.
THEOREM BothMarkersFirst == Spec => []ProviderNeedsBothMarkers
<1>1. CallInv => ProviderNeedsBothMarkers
  BY DEF CallInv, CallSafe, ProviderNeedsBothMarkers
<1> QED
  BY <1>1, CallsSafe, PTL

\* No late, repeated or reordered request releases what the provider may bill.
THEOREM NeverReleasesPaid == Spec => []MaybePaidIsNeverReleased
<1>1. CallInv => MaybePaidIsNeverReleased
  BY DEF CallInv, CallSafe, Secure, MaybePaidIsNeverReleased
<1> QED
  BY <1>1, CallsSafe, PTL

\* An error that invites a retry is only thrown where nothing was bought.
THEOREM RetryIsSafe == Spec => []RetryableMeansUnpaid
<1>1. CallInv => RetryableMeansUnpaid
  BY DEF CallInv, CallSafe, Unpaid, RetryableMeansUnpaid
<1> QED
  BY <1>1, CallsSafe, PTL
-----------------------------------------------------------------------------
(* What the provider may be paid.  The limit bounds what the ledger holds   *)
(* and has charged; that it bounds the provider's bill as well needs three  *)
(* more facts about each call: its row asks for what the call asked, a      *)
(* finalization is in flight only once the cost is reported, and a row is   *)
(* charged its reservation or that very cost, which nothing changes later.  *)

\* The provider's report was read, or never will be.
Reported == {"finalize", "done", "dead"}

\* What the row says of the call's cost.
RowCovers(R, c) ==
  /\ R[c].status # "none" => R[c].requested = Ask[c]
  /\ R[c].status = "finalized" =>
       R[c].actual >= Ask[c] \/ (R[c].actual = usage[c] /\ pc[c] \in Reported)

\* The request finalizes the call at the cost that was reported.
Finalizes(r, c) == r.call = c /\ r.op = "finalize"

SpendSafe(c) ==
  /\ RowCovers(rows, c)
  /\ \A r \in wire : Finalizes(r, c) => pc[c] \in Reported

SpendInv == CallInv /\ \A c \in Calls : SpendSafe(c)

\* What a call asks for and what it is charged are amounts the ledger holds.
LEMMA CallAmounts ==
  ASSUME NEW c \in Calls
  PROVE  /\ c \in Ids /\ Ask[c] \in 0..AmountCap /\ Ask[c] \in Int
         /\ usage \in [Calls -> Charges \cup Amounts] => usage[c] \in 0..AmountCap
<1>1. c \in Ids /\ Ask[c] \in Amounts
  BY CallAssumption
<1>2. \A x \in Amounts : x \in 0..AmountCap /\ x \in Int
  BY LedgerAssumption
<1>3. \A x \in Charges : x \in 0..AmountCap
  BY LedgerAssumption
<1>4. usage \in [Calls -> Charges \cup Amounts] => usage[c] \in Charges \cup Amounts
  OBVIOUS
<1> QED
  BY <1>1, <1>2, <1>3, <1>4

\* A sweep leaves a row a row.
LEMMA SweptIsRow ==
  ASSUME NEW now, NEW i \in Ids, rows \in [Ids -> Row]
  PROVE  Swept(now)[i] \in Row /\ DOMAIN Swept(now) = Ids
<1>1. Swept(now)[i] = SweptRow(rows[i], now) /\ rows[i] \in Row
  BY DEF Swept, SweptRows
<1>2. SweptRow(rows[i], now) \in Row
  BY <1>1 DEF SweptRow, Finalized, Released, Row
<1> QED
  BY <1>1, <1>2 DEF Swept, SweptRows

\* A sweep charges a call what it asked for.
LEMMA SweepCovers ==
  ASSUME NEW now, NEW c \in Calls, rows \in [Ids -> Row], RowCovers(rows, c)
  PROVE  RowCovers(Swept(now), c)
<1>1. c \in Ids /\ Ask[c] \in Int
  BY CallAmounts
<1>2. rows[c] \in Row /\ Swept(now)[c] = SweptRow(rows[c], now)
  BY <1>1 DEF Swept, SweptRows
<1>3. CASE rows[c].status = "running" /\ rows[c].expires <= now /\ rows[c].dispatched
  <2>1. Swept(now)[c] = Finalized(rows[c], rows[c].requested)
    BY <1>2, <1>3 DEF SweptRow
  <2>2. /\ Swept(now)[c].requested = rows[c].requested
        /\ Swept(now)[c].actual = rows[c].requested
    BY <1>2, <2>1 DEF Finalized, Row
  <2> QED
    BY <1>1, <1>3, <2>2 DEF RowCovers
<1>4. CASE rows[c].status = "running" /\ rows[c].expires <= now /\ ~rows[c].dispatched
  <2>1. Swept(now)[c] = Released(rows[c])
    BY <1>2, <1>4 DEF SweptRow
  <2>2. /\ Swept(now)[c].requested = rows[c].requested
        /\ Swept(now)[c].status = "released"
    BY <1>2, <2>1 DEF Released, Row
  <2> QED
    BY <1>4, <2>2 DEF RowCovers
<1>5. CASE ~(rows[c].status = "running" /\ rows[c].expires <= now)
  BY <1>2, <1>5 DEF SweptRow, RowCovers
<1> QED
  BY <1>3, <1>4, <1>5

\* A request charges the call it is of what was asked for or what was reported,
\* and no other call anything.
LEMMA CommitCovers ==
  ASSUME NEW r \in [call : Calls, op : Ops, try : 1..Attempts], NEW now \in Times,
         NEW c \in Calls, rows \in [Ids -> Row], RowCovers(rows, c),
         Finalizes(r, c) => pc[c] \in Reported,
         Commits(r, now)
  PROVE  RowCovers(rows', c)
<1> DEFINE T == Swept(now)
<1>1. RowCovers(T, c)
  BY SweepCovers
<1>2. c \in Ids /\ r.call \in Ids /\ Ask[c] \in Int
  <2>1. r.call \in Calls
    OBVIOUS
  <2> QED
    BY <2>1, CallAmounts
<1>3. T[c] \in Row /\ DOMAIN T = Ids
  BY <1>2, SweptIsRow
<1> HIDE DEF T
<1>4. CASE OnlySweep(now)
  BY <1>1, <1>4 DEF OnlySweep, RowCovers, T
<1>5. ASSUME NEW row, rows' = [T EXCEPT ![r.call] = row],
             r.call = c => /\ row.requested = Ask[c]
                           /\ row.status = "finalized" =>
                                \/ row.actual >= Ask[c]
                                \/ row.actual = usage[c] /\ pc[c] \in Reported
      PROVE  RowCovers(rows', c)
  BY <1>1, <1>2, <1>3, <1>5 DEF RowCovers
<1>6. CASE r.op = "reserve"
  <2>1. Reserve(r.call, Ask[r.call], now)
    BY <1>6 DEF Commits
  <2>2. CASE Admit(r.call, Ask[r.call], now)
    <3>1. rows' = [T EXCEPT ![r.call] = NewRow(Ask[r.call], now)]
      BY <2>2 DEF Admit, T
    <3>2. /\ NewRow(Ask[r.call], now).requested = Ask[r.call]
          /\ NewRow(Ask[r.call], now).status = "running"
      BY DEF NewRow
    <3> QED
      BY <1>5, <3>1, <3>2
  <2> QED
    BY <1>4, <2>1, <2>2 DEF Reserve
<1>7. CASE r.op = "dispatch"
  <2>1. MarkDispatched(r.call, now)
    BY <1>7 DEF Commits
  <2>2. CASE /\ T[r.call].status = "running"
             /\ rows' = [T EXCEPT ![r.call] = Dispatched(@, now)]
    <3>1. rows' = [T EXCEPT ![r.call] = Dispatched(T[r.call], now)]
      BY <2>2
    <3>2. ASSUME r.call = c
          PROVE  /\ Dispatched(T[c], now).requested = T[c].requested
                 /\ Dispatched(T[c], now).status = T[c].status
      BY <1>3 DEF Dispatched, Row
    <3> QED
      BY <1>1, <1>5, <2>2, <3>1, <3>2 DEF RowCovers
  <2> QED
    BY <1>4, <2>1, <2>2 DEF MarkDispatched, T
<1>8. ASSUME NEW charge, Finalize(r.call, charge, now),
             r.call = c => charge = Ask[c] \/ (charge = usage[c] /\ pc[c] \in Reported)
      PROVE  RowCovers(rows', c)
  <2>1. CASE /\ T[r.call].status = "running"
             /\ rows' = [T EXCEPT ![r.call] = Finalized(@, charge)]
    <3>1. rows' = [T EXCEPT ![r.call] = Finalized(T[r.call], charge)]
      BY <2>1
    <3>2. ASSUME r.call = c
          PROVE  /\ Finalized(T[c], charge).requested = T[c].requested
                 /\ Finalized(T[c], charge).actual = charge
      BY <1>3 DEF Finalized, Row
    <3> QED
      BY <1>1, <1>2, <1>5, <1>8, <2>1, <3>1, <3>2 DEF RowCovers
  <2> QED
    BY <1>4, <1>8, <2>1 DEF Finalize, SweepAndClose, T
<1>9. CASE r.op = "release"
  <2>1. Release(r.call, now)
    BY <1>9 DEF Commits
  <2>2. CASE /\ T[r.call].status = "running"
             /\ rows' = [T EXCEPT ![r.call] = Released(@)]
    <3>1. rows' = [T EXCEPT ![r.call] = Released(T[r.call])]
      BY <2>2
    <3>2. ASSUME r.call = c
          PROVE  /\ Released(T[c]).requested = T[c].requested
                 /\ Released(T[c]).status = "released"
      BY <1>3 DEF Released, Row
    <3> QED
      BY <1>1, <1>5, <2>2, <3>1, <3>2 DEF RowCovers
  <2> QED
    BY <1>4, <2>1, <2>2 DEF Release, SweepAndClose, T
<1>10. CASE r.op = "finalize"
  <2>1. Finalize(r.call, usage[r.call], now)
    BY <1>10 DEF Commits
  <2> QED
    BY <1>8, <1>10, <2>1 DEF Finalizes
<1>11. CASE r.op = "charge"
  <2>1. Finalize(r.call, Ask[r.call], now)
    BY <1>11 DEF Commits
  <2> QED
    BY <1>8, <2>1
<1> QED
  BY <1>6, <1>7, <1>9, <1>10, <1>11 DEF Ops

\* A process reports the cost before it asks to be charged it, and once only.
LEMMA ProcessCovers ==
  ASSUME ProcessTyped, NEW c \in Calls, SpendSafe(c), UNCHANGED rows,
         Process(c) \/ Crash(c)
  PROVE  SpendSafe(c)'
<1>1. CASE ProviderSucceeds(c)
  <2>1. pc[c] = "calling" /\ pc'[c] = "finalize"
    BY <1>1 DEF ProviderSucceeds, Send, ProcessTyped, PlaceTyped
  <2>2. rows[c].status = "finalized" => rows[c].actual >= Ask[c]
    BY <2>1 DEF SpendSafe, RowCovers, Reported
  <2> QED
    BY <2>1, <2>2 DEF SpendSafe, RowCovers, Reported
<1>2. ASSUME UNCHANGED usage, pc[c] \in Reported => pc'[c] \in Reported,
             \A r \in wire' : Finalizes(r, c) => r \in wire \/ pc[c] = "finalize"
      PROVE  SpendSafe(c)'
  BY <1>2 DEF SpendSafe, RowCovers, Reported
<1>3. CASE ~ProviderSucceeds(c)
  <2>1. UNCHANGED usage
    BY <1>3 DEF Process, Begin, MarkApplication, Invoke, NotStarted, ProviderRefused,
                ProviderUnclear, AttemptFails, Receive, Crash
  <2>2. pc[c] \in Reported => pc'[c] \in Reported
    BY <1>3 DEF Process, Begin, MarkApplication, Invoke, NotStarted, ProviderRefused,
                ProviderUnclear, AttemptFails, Receive, Crash, GivesUp, Finish,
                ReleaseAndThrow, Send, Reported, Ops, ProcessTyped, PlaceTyped
  <2>3. \A r \in wire' : Finalizes(r, c) => r \in wire \/ pc[c] = "finalize"
    BY <1>3 DEF Process, Begin, MarkApplication, Invoke, NotStarted, ProviderRefused,
                ProviderUnclear, AttemptFails, Receive, Crash, GivesUp, Finish,
                ReleaseAndThrow, Send, Request, Finalizes
  <2> QED
    BY <1>2, <2>1, <2>2, <2>3
<1> QED
  BY <1>1, <1>3

\* What changes nothing of a call but its row keeps its cost covered.
LEMMA RowsMoveCovers ==
  ASSUME NEW c \in Calls, SpendSafe(c), RowCovers(rows', c),
         pc'[c] = pc[c], usage'[c] = usage[c],
         \A r \in wire' : Finalizes(r, c) => r \in wire
  PROVE  SpendSafe(c)'
BY DEF SpendSafe, RowCovers, Finalizes

\* Every step keeps what the provider may be paid covered.
LEMMA SpendNextSafe ==
  ASSUME SpendInv, [Next]_vars
  PROVE  SpendInv'
<1>1. /\ CallInv /\ ProcessTyped /\ rows \in [Ids -> Row]
      /\ \A c \in Calls : SpendSafe(c) /\ RowCovers(rows, c)
      /\ \A t \in Starts : t \in Times
  BY DEF SpendInv, SpendSafe, CallInv, LedgerInv, Sound, Typed, Starts
<1>2. CallInv'
  BY <1>1, CallNextSafe
<1>3. ASSUME NEW c \in Calls, Process(c) \/ Crash(c), NEW d \in Calls
      PROVE  SpendSafe(d)'
  <2>1. Own(c) /\ UNCHANGED rows
    BY <1>1, <1>3, ProcessStepOwn, EnvironmentSafe DEF ledgerVars, SpendInv, CallInv
  <2>2. CASE d = c
    BY <1>1, <1>3, <2>1, <2>2, ProcessCovers
  <2>3. CASE d # c
    BY <1>1, <2>1, <2>3, RowsMoveCovers DEF Own, Finalizes
  <2> QED
    BY <2>2, <2>3
<1>4. ASSUME UNCHANGED <<rows, pc, usage>>, wire' \subseteq wire, NEW d \in Calls
      PROVE  SpendSafe(d)'
  BY <1>1, <1>4, RowsMoveCovers
<1>5. ASSUME NEW c \in Calls, ProviderBills(c) \/ ProviderRefuses(c), NEW d \in Calls
      PROVE  SpendSafe(d)'
  BY <1>4, <1>5 DEF ProviderBills, ProviderRefuses, ledgerVars
<1>6. ASSUME NEW r \in wire, Lose(r), NEW d \in Calls
      PROVE  SpendSafe(d)'
  BY <1>4, <1>6 DEF Lose, ledgerVars
<1>7. ASSUME NEW now \in Starts, Visit(now), NEW d \in Calls
      PROVE  SpendSafe(d)'
  <2>1. rows' = Swept(now) /\ UNCHANGED <<pc, usage, wire>>
    BY <1>7 DEF Visit, OnlySweep, callVars
  <2>2. RowCovers(rows', d)
    BY <1>1, <2>1, SweepCovers
  <2> QED
    BY <1>1, <2>1, <2>2, RowsMoveCovers
<1>8. ASSUME NEW now \in Starts, NEW r \in wire, Serve(r, now), NEW d \in Calls
      PROVE  SpendSafe(d)'
  <2>1. /\ r \in [call : Calls, op : Ops, try : 1..Attempts]
        /\ Finalizes(r, d) => pc[d] \in Reported
    BY <1>1 DEF ProcessTyped, PlaceTyped, SpendSafe
  <2>2. Commits(r, now) /\ UNCHANGED <<pc, usage>> /\ wire' \subseteq wire
    BY <1>8 DEF Serve
  <2>3. RowCovers(rows', d)
    BY <1>1, <2>1, <2>2, CommitCovers
  <2> QED
    BY <1>1, <2>2, <2>3, RowsMoveCovers
<1>9. ASSUME Time \/ UNCHANGED vars, NEW d \in Calls
      PROVE  SpendSafe(d)'
  BY <1>4, <1>9 DEF Time, Tick, vars, ledgerVars, callVars
<1> QED
  BY <1>2, <1>3, <1>5, <1>6, <1>7, <1>8, <1>9 DEF SpendInv, Next

\* What the provider may be paid for one day's calls is held by the ledger or
\* was charged within its reservation.
LEMMA PaidIsCovered ==
  ASSUME SpendInv, NEW d \in Days
  PROVE  Total(PaidOn(d), SpendBound, AmountCap) <= DailyLimit
<1> DEFINE B == OnDay(rows, d)
           Held == {c \in PaidOn(d) : rows[c].status = "running"}
           Spent == {c \in PaidOn(d) : rows[c].status = "finalized"}
<1>1. /\ Calls \subseteq Ids /\ AmountCap \in Nat /\ DailyLimit \in Nat
      /\ \A c \in Calls : Ask[c] \in 0..AmountCap
  BY CallAmounts, LedgerAssumption
<1>2. /\ rows \in [Ids -> Row] /\ SoundDay(rows, daily[d], d)
      /\ \A c \in Calls : CallSafe(c) /\ RowCovers(rows, c)
      /\ \A c \in Calls : usage[c] \in 0..AmountCap
  <2>1. usage \in [Calls -> Charges \cup Amounts]
    BY DEF SpendInv, CallInv, ProcessTyped
  <2>2. \A c \in Calls : usage[c] \in 0..AmountCap
    BY <2>1, CallAmounts
  <2> QED
    BY <2>2 DEF SpendInv, SpendSafe, CallInv, LedgerInv, Sound, Typed
<1>3. \A c \in PaidOn(d) : /\ c \in Calls /\ c \in Ids /\ c \in B
                           /\ rows[c].status \in {"running", "finalized"}
  BY <1>1, <1>2 DEF PaidOn, CallSafe, Secure, OnDay
<1>4. /\ Held \in SUBSET Running(rows, B) /\ Running(rows, B) \in SUBSET Ids
      /\ Spent \in SUBSET Charged(rows, B) /\ Charged(rows, B) \in SUBSET Ids
      /\ Held \cup Spent = PaidOn(d) /\ Held \cap Spent = {}
  BY <1>3 DEF Running, Charged, OnDay
<1>5. IsFiniteSet(Held) /\ IsFiniteSet(Spent)
  <2>1. Held \in SUBSET Ids /\ Spent \in SUBSET Ids
    BY <1>4
  <2> QED
    BY <2>1, RowSetsFinite
<1>6. ASSUME NEW c \in PaidOn(d)
      PROVE  /\ SpendBound[c] \in Int
             /\ SpendBound[c] <= Ask[c] /\ SpendBound[c] <= usage[c]
             /\ rows[c].requested \in Int /\ rows[c].actual \in Int
             /\ rows[c].requested = Ask[c]
  <2>1. rows[c] \in Row /\ SpendBound[c] = Least(usage[c], Ask[c])
    BY <1>2, <1>3 DEF SpendBound
  <2>2. rows[c].requested \in Int /\ rows[c].actual \in Int
    BY <2>1, <1>1 DEF Row
  <2>3. rows[c].requested = Ask[c]
    BY <1>2, <1>3 DEF RowCovers
  <2>4. usage[c] \in Int /\ Ask[c] \in Int
    BY <1>1, <1>2, <1>3
  <2> QED
    BY <2>1, <2>2, <2>3, <2>4 DEF Least
<1>7. Total(Held, SpendBound, AmountCap) <= HeldBy(rows, B)
  <2>1. \A c \in Held : /\ SpendBound[c] \in Int /\ Requested(rows)[c] \in Int
                        /\ SpendBound[c] <= Requested(rows)[c]
    BY <1>3, <1>6 DEF Requested
  <2>2. Total(Held, SpendBound, AmountCap) <= Total(Held, Requested(rows), AmountCap)
    BY <1>1, <1>5, <2>1, TotalMonotone
  <2>3. Total(Held, Requested(rows), AmountCap) <= HeldBy(rows, B)
    BY <1>4, TotalOfPart DEF HeldBy
  <2>4. /\ Total(Held, SpendBound, AmountCap) \in Nat
        /\ Total(Held, Requested(rows), AmountCap) \in Nat
        /\ HeldBy(rows, B) \in Nat
    BY <1>1, <1>4, <1>5, TotalIsNat, SumsAreNat DEF OnDay
  <2> QED
    BY <2>2, <2>3, <2>4
<1>8. Total(Spent, SpendBound, AmountCap)
        <= Total(Charged(rows, B), CoveredCharge(rows), AmountCap)
  <2>1. ASSUME NEW c \in Spent
        PROVE  /\ SpendBound[c] \in Int /\ CoveredCharge(rows)[c] \in Int
               /\ SpendBound[c] <= CoveredCharge(rows)[c]
    <3>1. c \in PaidOn(d) /\ rows[c].status = "finalized"
      OBVIOUS
    <3>2. rows[c].actual >= Ask[c] \/ rows[c].actual = usage[c]
      BY <1>2, <1>3, <3>1 DEF RowCovers
    <3>3. CoveredCharge(rows)[c] = Least(rows[c].actual, rows[c].requested)
      BY <1>3, <3>1 DEF CoveredCharge
    <3>4. usage[c] \in Int /\ Ask[c] \in Int
      BY <1>1, <1>2, <1>3, <3>1
    <3> QED
      BY <1>6, <3>1, <3>2, <3>3, <3>4 DEF Least
  <2>2. Total(Spent, SpendBound, AmountCap) <= Total(Spent, CoveredCharge(rows), AmountCap)
    BY <1>1, <1>5, <2>1, TotalMonotone
  <2>3. Total(Spent, CoveredCharge(rows), AmountCap)
          <= Total(Charged(rows, B), CoveredCharge(rows), AmountCap)
    BY <1>4, TotalOfPart
  <2>4. /\ Total(Spent, SpendBound, AmountCap) \in Nat
        /\ Total(Spent, CoveredCharge(rows), AmountCap) \in Nat
        /\ Total(Charged(rows, B), CoveredCharge(rows), AmountCap) \in Nat
    BY <1>1, <1>4, <1>5, TotalIsNat, SumsAreNat
  <2> QED
    BY <2>2, <2>3, <2>4
<1>9. Total(PaidOn(d), SpendBound, AmountCap)
        = Total(Held, SpendBound, AmountCap) + Total(Spent, SpendBound, AmountCap)
  <2>1. Total(Held \cup Spent, SpendBound, AmountCap)
          = Total(Held, SpendBound, AmountCap) + Total(Spent, SpendBound, AmountCap)
    BY <1>1, <1>4, <1>5, TotalOfUnion
  <2> QED
    BY <1>4, <2>1
<1>10. HeldBy(rows, B) + Total(Charged(rows, B), CoveredCharge(rows), AmountCap)
         <= DailyLimit
  BY <1>2 DEF SoundDay
<1>11. /\ Total(Held, SpendBound, AmountCap) \in Nat
       /\ Total(Spent, SpendBound, AmountCap) \in Nat
       /\ HeldBy(rows, B) \in Nat
       /\ Total(Charged(rows, B), CoveredCharge(rows), AmountCap) \in Nat
  BY <1>1, <1>4, <1>5, TotalIsNat, SumsAreNat DEF OnDay
<1> HIDE DEF Held, Spent, B
<1> QED
  BY <1>1, <1>7, <1>8, <1>9, <1>10, <1>11

\* What the provider may have been paid for the calls of a day stays within
\* that day's limit, whatever crashes, is lost or comes late.
THEOREM PaidStaysWithinLimit == Spec => []ProviderSpendsWithinLimit
<1>1. Init => SpendInv
  <2> SUFFICES ASSUME Init PROVE SpendInv
    OBVIOUS
  <2>1. CallInv
    BY CallInitSafe
  <2>2. ASSUME NEW c \in Calls PROVE SpendSafe(c)
    <3>1. c \in Ids /\ wire = {} /\ rows[c] = NoRow
      BY CallAssumption DEF Init, LedgerInit
    <3> QED
      BY <3>1 DEF SpendSafe, RowCovers, NoRow
  <2> QED
    BY <2>1, <2>2 DEF SpendInv
<1>2. SpendInv /\ [Next]_vars => SpendInv'
  BY SpendNextSafe
<1>3. SpendInv => ProviderSpendsWithinLimit
  BY PaidIsCovered DEF ProviderSpendsWithinLimit
<1> QED
  BY <1>1, <1>2, <1>3, PTL DEF Spec
=============================================================================
