----------------------- MODULE PublicAiAdmissionProofs -----------------------
(***************************************************************************)
(* Proofs about one AI turn of the public, for any number of turns,        *)
(* subjects, requests, limits, leases and prices: both tables and the      *)
(* handlers keep their types, a turn the provider may have billed stays    *)
(* consumed and charged, a request is paid once, the site's counters are   *)
(* the sums of its rows, the site's budget is kept, and a visitor's window *)
(* is exceeded by turns with a late marker only, which takes a stale now().*)
(*                                                                         *)
(* None of the four is inductive.  The inductive invariant adds: where a   *)
(* turn stands between its handler, its messages and its two rows          *)
(* (TurnsInStep), that a principal's live rows differ (LiveRowsDiffer),    *)
(* and which rows hold a place in a window although they are not yet       *)
(* dispatched (PlacesWithinLimit, RowsInWindows).                          *)
(*                                                                         *)
(* Then proofs about the interview that takes such a turn.                 *)
(***************************************************************************)
EXTENDS PublicInterview, TotalsProofs

Labels == {"idle", "admit", "hold", "mark", "calling", "finalize", "complete", "charge",
           "unknown", "unhold", "giveback", "done"}

NoAsk == CHOOSE r \in Requests : TRUE

QuotaRow == [status : {"none", "reserved", "released"} \cup Consumed, expires : Nat, created : Nat]
SiteRow  == [status : {"none", "reserved", "finalized", "released"}, dispatched : BOOLEAN,
             expires : Nat, actual : 0..CostCap, at : Times]
Counter  == [reserved : Nat, actual : Nat, count : Nat]

-----------------------------------------------------------------------------
(* The site's rows and counters.                                           *)

CoveredOf(S) == [u \in Turns |-> Least(S[u].actual, Price)]

\* The counters of bucket b match its rows, and what it committed for its
\* visitors is within its limit.
Matches(S, C, b) ==
  /\ C[b].reserved = Price * Cardinality(Held(S, b))
  /\ C[b].actual = Total(Charged(S, b), Actual(S), CostCap)
  /\ C[b].count = Cardinality(Charged(S, b))
Committed(S, b) ==
  Price * Cardinality(Held(S, b)) + Total(Charged(S, b), CoveredOf(S), CostCap)

Books(S, C) ==
  /\ S \in [Turns -> SiteRow] /\ C \in [Buckets -> Counter]
  /\ \A b \in Buckets : Matches(S, C, b) /\ Committed(S, b) <= LimitOf[b]

\* What an expiry, a charge or a release may do to a row: leave it, or end its
\* reservation, charging it just when it was dispatched.
Closes(before, after) ==
  \/ after = before
  \/ /\ before.status = "reserved"
     /\ after.status = IF before.dispatched THEN "finalized" ELSE "released"
     /\ after.dispatched = before.dispatched /\ after.at = before.at
Closing(R, S) == \A u \in Turns : Closes(R[u], S[u])

\* A row no expiry or release can give back.
Bound(row) == row.dispatched /\ row.status \in {"reserved", "finalized"}

\* The rows of a bucket are finitely many and their sums natural.
LEMMA BucketSets ==
  ASSUME NEW S \in [Turns -> SiteRow], NEW b
  PROVE  /\ IsFiniteSet(Held(S, b)) /\ Cardinality(Held(S, b)) \in Nat
         /\ IsFiniteSet(Charged(S, b)) /\ Cardinality(Charged(S, b)) \in Nat
         /\ \A f : Total(Charged(S, b), f, CostCap) \in Nat
         /\ Committed(S, b) \in Nat
<1>1. Held(S, b) \in SUBSET Turns /\ Charged(S, b) \in SUBSET Turns
  BY DEF Held, Charged
<1>2. IsFiniteSet(Held(S, b)) /\ IsFiniteSet(Charged(S, b))
  BY <1>1, FS_Subset, AdmissionAssumption
<1>3. Cardinality(Held(S, b)) \in Nat /\ Cardinality(Charged(S, b)) \in Nat
  BY <1>2, FS_CardinalityType
<1>4. CostCap \in Nat /\ Price \in Nat
  BY AdmissionAssumption
<1>5. ASSUME NEW f PROVE Total(Charged(S, b), f, CostCap) \in Nat
  BY <1>2, <1>4, TotalIsNat
<1>6. Price * Cardinality(Held(S, b)) \in Nat
  BY <1>3, <1>4, ProductLaws
<1>7. Total(Charged(S, b), CoveredOf(S), CostCap) \in Nat
  BY <1>5
<1> QED
  BY <1>2, <1>3, <1>5, <1>6, <1>7 DEF Committed

\* Rows that end leave the reservations of their bucket and, when charged, join
\* its charges: what the bucket committed does not grow.
LEMMA ClosingMovesRows ==
  ASSUME NEW R \in [Turns -> SiteRow], NEW S \in [Turns -> SiteRow], Closing(R, S), NEW b
  PROVE  LET gone == Held(R, b) \ Held(S, b)
             billed == {u \in gone : S[u].status = "finalized"}
         IN  /\ Cardinality(gone) \in Nat /\ Cardinality(billed) \in Nat
             /\ Total(billed, Actual(S), CostCap) \in Nat
             /\ Cardinality(Held(R, b)) = Cardinality(Held(S, b)) + Cardinality(gone)
             /\ Cardinality(Charged(S, b)) = Cardinality(Charged(R, b)) + Cardinality(billed)
             /\ Total(Charged(S, b), Actual(S), CostCap)
                  = Total(Charged(R, b), Actual(R), CostCap) + Total(billed, Actual(S), CostCap)
             /\ Committed(S, b) <= Committed(R, b)
<1> DEFINE HR == Held(R, b)
           HS == Held(S, b)
           G  == HR \ HS
           P  == {u \in G : S[u].status = "finalized"}
           CR == Charged(R, b)
           CS == Charged(S, b)
<1>a. CostCap \in Nat /\ Price \in Nat /\ Price \in 0..CostCap /\ IsFiniteSet(Turns)
  BY AdmissionAssumption
<1>1. HS \subseteq HR
  BY DEF Held, Closing, Closes, SiteRow
<1>2. CS = CR \cup P /\ CR \cap P = {}
  <2>1. ASSUME NEW u \in CS PROVE u \in CR \cup P
    <3>1. u \in Turns /\ S[u].status = "finalized" /\ b \in BucketsOf[S[u].at]
      BY DEF Charged
    <3>2. CASE S[u] = R[u]
      BY <3>1, <3>2 DEF Charged
    <3>3. CASE S[u] # R[u]
      <4>1. R[u].status = "reserved" /\ S[u].at = R[u].at
        BY <3>1, <3>3 DEF Closing, Closes
      <4> QED
        BY <3>1, <4>1 DEF Held
    <3> QED
      BY <3>2, <3>3
  <2>2. ASSUME NEW u \in CR PROVE u \in CS /\ u \notin P
    BY DEF Charged, Held, Closing, Closes
  <2>3. ASSUME NEW u \in P PROVE u \in CS
    <3>1. u \in Turns /\ R[u].status = "reserved" /\ b \in BucketsOf[R[u].at]
             /\ S[u].status = "finalized"
      BY DEF Held
    <3>2. S[u].at = R[u].at
      BY <3>1 DEF Closing, Closes
    <3> QED
      BY <3>1, <3>2 DEF Charged
  <2> QED
    BY <2>1, <2>2, <2>3
<1>3. \A u \in CR : S[u] = R[u] /\ u \in Turns
  BY DEF Charged, Closing, Closes
<1>4. /\ IsFiniteSet(HR) /\ IsFiniteSet(HS) /\ IsFiniteSet(CR) /\ IsFiniteSet(CS)
      /\ Cardinality(HR) \in Nat /\ Cardinality(HS) \in Nat
      /\ Cardinality(CR) \in Nat /\ Cardinality(CS) \in Nat
  BY BucketSets
<1>5. G \in SUBSET HR /\ P \in SUBSET G /\ P \subseteq Turns
  BY DEF Held
<1>6. IsFiniteSet(G) /\ IsFiniteSet(P) /\ Cardinality(P) <= Cardinality(G)
  BY <1>4, <1>5, FS_Subset
<1>7. Cardinality(G) \in Nat /\ Cardinality(P) \in Nat
  BY <1>6, FS_CardinalityType
<1>8. Cardinality(HR) = Cardinality(HS) + Cardinality(G)
  <2>1. HR = HS \cup G /\ HS \cap G = {}
    BY <1>1
  <2>2. Cardinality(HS \cup G) = Cardinality(HS) + Cardinality(G) - Cardinality(HS \cap G)
    BY <1>4, <1>6, FS_Union
  <2>3. Cardinality(HS \cap G) = 0
    BY <2>1, FS_EmptySet
  <2>4. Cardinality(HR) = Cardinality(HS \cup G)
    BY <2>1
  <2> HIDE DEF HS, HR, G
  <2> QED
    BY <1>4, <1>7, <2>2, <2>3, <2>4
<1>9. Cardinality(CS) = Cardinality(CR) + Cardinality(P)
  <2>1. Cardinality(CR \cup P) = Cardinality(CR) + Cardinality(P) - Cardinality(CR \cap P)
    BY <1>4, <1>6, FS_Union
  <2> HIDE DEF CR, CS, P
  <2> QED
    BY <1>2, <1>4, <1>7, <2>1, FS_EmptySet
<1>10. \A f : /\ Total(CS, f, CostCap) = Total(CR, f, CostCap) + Total(P, f, CostCap)
              /\ Total(P, f, CostCap) \in Nat /\ Total(CR, f, CostCap) \in Nat
  <2> HIDE DEF CR, CS, P
  <2> QED
    BY <1>a, <1>2, <1>4, <1>6, TotalOfUnion, TotalIsNat
<1>11. Total(CR, Actual(S), CostCap) = Total(CR, Actual(R), CostCap)
  <2>1. \A u \in CR : Actual(S)[u] = Actual(R)[u]
    BY <1>3 DEF Actual
  <2> HIDE DEF CR
  <2> QED
    BY <1>a, <2>1, TotalCongruent
<1>12. Total(CR, CoveredOf(S), CostCap) = Total(CR, CoveredOf(R), CostCap)
  <2>1. \A u \in CR : CoveredOf(S)[u] = CoveredOf(R)[u]
    BY <1>3 DEF CoveredOf
  <2> HIDE DEF CR
  <2> QED
    BY <1>a, <2>1, TotalCongruent
<1>13. Total(P, CoveredOf(S), CostCap) <= Price * Cardinality(P)
  <2>1. \A u \in P : CoveredOf(S)[u] \in Int /\ CoveredOf(S)[u] <= Price
    <3>1. SUFFICES ASSUME NEW u \in P
                   PROVE  CoveredOf(S)[u] \in Int /\ CoveredOf(S)[u] <= Price
      OBVIOUS
    <3>2. u \in Turns /\ S[u].actual \in Int
      BY <1>a, <1>5 DEF SiteRow
    <3> QED
      BY <1>a, <3>2 DEF CoveredOf, Least
  <2> HIDE DEF P
  <2> QED
    BY <1>a, <1>6, <2>1, TotalAtMost
<1>14. Committed(S, b) <= Committed(R, b)
  <2>1. /\ Price * Cardinality(HR) = Price * Cardinality(HS) + Price * Cardinality(G)
        /\ Price * Cardinality(P) <= Price * Cardinality(G)
        /\ Price * Cardinality(HS) \in Nat /\ Price * Cardinality(G) \in Nat
        /\ Price * Cardinality(P) \in Nat
    BY <1>a, <1>4, <1>6, <1>7, <1>8, ProductLaws
  <2>2. /\ Committed(S, b) = Price * Cardinality(HS) + Total(CS, CoveredOf(S), CostCap)
        /\ Committed(R, b) = Price * Cardinality(HR) + Total(CR, CoveredOf(R), CostCap)
    BY DEF Committed
  <2>3. /\ Total(CS, CoveredOf(S), CostCap)
             = Total(CR, CoveredOf(S), CostCap) + Total(P, CoveredOf(S), CostCap)
        /\ Total(P, CoveredOf(S), CostCap) \in Nat /\ Total(CR, CoveredOf(S), CostCap) \in Nat
    BY <1>10
  <2> HIDE DEF HS, HR, G, P, CR, CS
  <2> QED
    BY <1>12, <1>13, <2>1, <2>2, <2>3
<1>15. Total(CS, Actual(S), CostCap)
         = Total(CR, Actual(R), CostCap) + Total(P, Actual(S), CostCap)
       /\ Total(P, Actual(S), CostCap) \in Nat
  BY <1>10, <1>11
<1> QED
  BY <1>7, <1>8, <1>9, <1>14, <1>15

\* Ending rows and settling their buckets keeps the books.
LEMMA CloseKeepsBooks ==
  ASSUME NEW R, NEW C, Books(R, C), NEW S \in [Turns -> SiteRow], Closing(R, S)
  PROVE  Books(S, Settle(C, R, S))
<1>1. R \in [Turns -> SiteRow] /\ C \in [Buckets -> Counter]
  BY DEF Books
<1> DEFINE D == Settle(C, R, S)
<1>2. ASSUME NEW b \in Buckets
      PROVE  D[b] \in Counter /\ Matches(S, D, b) /\ Committed(S, b) <= LimitOf[b]
  <2> DEFINE G == Held(R, b) \ Held(S, b)
             P == {u \in G : S[u].status = "finalized"}
  <2>1. /\ Cardinality(G) \in Nat /\ Cardinality(P) \in Nat
        /\ Total(P, Actual(S), CostCap) \in Nat
        /\ Cardinality(Held(R, b)) = Cardinality(Held(S, b)) + Cardinality(G)
        /\ Cardinality(Charged(S, b)) = Cardinality(Charged(R, b)) + Cardinality(P)
        /\ Total(Charged(S, b), Actual(S), CostCap)
             = Total(Charged(R, b), Actual(R), CostCap) + Total(P, Actual(S), CostCap)
        /\ Committed(S, b) <= Committed(R, b)
    BY <1>1, ClosingMovesRows
  <2>2. /\ C[b].reserved = Price * Cardinality(Held(R, b))
        /\ C[b].actual = Total(Charged(R, b), Actual(R), CostCap)
        /\ C[b].count = Cardinality(Charged(R, b))
        /\ Committed(R, b) <= LimitOf[b]
    BY DEF Books, Matches
  <2>3. D[b] = [reserved |-> Greatest(0, C[b].reserved - Price * Cardinality(G)),
                actual   |-> C[b].actual + Total(P, Actual(S), CostCap),
                count    |-> C[b].count + Cardinality(P)]
    BY DEF Settle
  <2>4. /\ Cardinality(Held(S, b)) \in Nat /\ Cardinality(Charged(R, b)) \in Nat
        /\ Total(Charged(R, b), Actual(R), CostCap) \in Nat
        /\ Committed(S, b) \in Nat /\ Committed(R, b) \in Nat
        /\ LimitOf[b] \in Nat /\ Price \in Nat
    BY <1>1, BucketSets, AdmissionAssumption
  <2> HIDE DEF G, P, D
  <2>5. /\ Price * Cardinality(Held(R, b))
             = Price * Cardinality(Held(S, b)) + Price * Cardinality(G)
        /\ Price * Cardinality(Held(S, b)) \in Nat /\ Price * Cardinality(G) \in Nat
    BY <2>1, <2>4, ProductLaws
  <2>6. Greatest(0, C[b].reserved - Price * Cardinality(G)) = Price * Cardinality(Held(S, b))
    BY <2>2, <2>5 DEF Greatest
  <2>7. Matches(S, D, b)
    BY <2>1, <2>2, <2>3, <2>6 DEF Matches
  <2>8. D[b] \in Counter
    BY <2>1, <2>2, <2>3, <2>4, <2>5, <2>6 DEF Counter
  <2>9. Committed(S, b) <= LimitOf[b]
    BY <2>1, <2>2, <2>4
  <2> QED
    BY <2>7, <2>8, <2>9
<1>3. D \in [Buckets -> Counter]
  <2>1. D = [b \in Buckets |-> D[b]]
    BY DEF Settle
  <2> HIDE DEF D
  <2> QED
    BY <1>2, <2>1
<1> HIDE DEF D
<1>4. Books(S, D)
  BY <1>2, <1>3 DEF Books
<1> QED
  BY <1>4 DEF D

\* Nothing the books count reads whether a row was dispatched or when it ends.
LEMMA SameBooks ==
  ASSUME NEW R, NEW C, Books(R, C), NEW S \in [Turns -> SiteRow],
         \A u \in Turns : S[u].status = R[u].status /\ S[u].at = R[u].at
                            /\ S[u].actual = R[u].actual
  PROVE  Books(S, C)
<1>1. \A b : Held(S, b) = Held(R, b) /\ Charged(S, b) = Charged(R, b)
  BY DEF Held, Charged
<1>2. Actual(S) = Actual(R) /\ CoveredOf(S) = CoveredOf(R)
  BY DEF Actual, CoveredOf
<1> QED
  BY <1>1, <1>2 DEF Books, Matches, Committed

\* A row of the turn t, held for the buckets of now that have room for it.
LEMMA HoldKeepsBooks ==
  ASSUME NEW R, NEW C, Books(R, C), NEW t \in Turns, R[t].status = "none",
         NEW now \in Times, Fits(C, now),
         NEW S \in [Turns -> SiteRow], NEW D,
         \A u \in Turns : u # t => S[u] = R[u],
         S[t].status = "reserved", S[t].at = now,
         D = [b \in Buckets |-> IF b \in BucketsOf[now]
                THEN [C[b] EXCEPT !.reserved = @ + Price] ELSE C[b]]
  PROVE  Books(S, D)
<1>1. R \in [Turns -> SiteRow] /\ C \in [Buckets -> Counter]
  BY DEF Books
<1>2. /\ CostCap \in Nat /\ Price \in Nat
      /\ BucketsOf[now] \subseteq Buckets /\ LimitOf \in [Buckets -> Nat]
  BY AdmissionAssumption
<1>3. ASSUME NEW b \in Buckets
      PROVE  D[b] \in Counter /\ Matches(S, D, b) /\ Committed(S, b) <= LimitOf[b]
  <2>1. Charged(S, b) = Charged(R, b)
    BY DEF Charged
  <2>2. t \notin Charged(R, b) /\ t \notin Held(R, b)
    BY DEF Charged, Held
  <2>3. /\ Total(Charged(S, b), Actual(S), CostCap) = Total(Charged(R, b), Actual(R), CostCap)
        /\ Total(Charged(S, b), CoveredOf(S), CostCap)
             = Total(Charged(R, b), CoveredOf(R), CostCap)
    <3>1. \A u \in Charged(R, b) : Actual(S)[u] = Actual(R)[u] /\ CoveredOf(S)[u] = CoveredOf(R)[u]
      BY <2>2 DEF Charged, Actual, CoveredOf
    <3> QED
      BY <1>2, <2>1, <3>1, TotalCongruent
  <2>4. Matches(R, C, b) /\ Committed(R, b) <= LimitOf[b] /\ C[b] \in Counter
    BY <1>1 DEF Books
  <2>5. /\ IsFiniteSet(Held(R, b)) /\ Cardinality(Held(R, b)) \in Nat
        /\ Total(Charged(R, b), Actual(R), CostCap) \in Nat
        /\ Total(Charged(R, b), CoveredOf(R), CostCap) \in Nat
        /\ IsFiniteSet(Charged(R, b))
        /\ LimitOf[b] \in Nat
    BY <1>1, <1>2, BucketSets
  <2>6. CASE b \notin BucketsOf[now]
    <3>1. Held(S, b) = Held(R, b)
      BY <2>2, <2>6 DEF Held
    <3>2. D[b] = C[b]
      BY <2>6
    <3> QED
      BY <2>1, <2>3, <2>4, <3>1, <3>2 DEF Matches, Committed
  <2>7. CASE b \in BucketsOf[now]
    <3>1. Held(S, b) = Held(R, b) \cup {t}
      BY <2>7 DEF Held
    <3>2. Cardinality(Held(S, b)) = Cardinality(Held(R, b)) + 1
      BY <2>2, <2>5, <3>1, FS_AddElement
    <3>3. Price * Cardinality(Held(S, b)) = Price * Cardinality(Held(R, b)) + Price
          /\ Price * Cardinality(Held(R, b)) \in Nat
      <4>1. Price * (Cardinality(Held(R, b)) + 1) = Price * Cardinality(Held(R, b)) + Price * 1
        BY <1>2, <2>5, ProductLaws
      <4> QED
        BY <1>2, <2>5, <3>2, <4>1, ProductLaws
    <3>4. D[b] = [C[b] EXCEPT !.reserved = @ + Price]
      BY <2>7
    <3>5. /\ D[b].reserved = C[b].reserved + Price
          /\ D[b].actual = C[b].actual /\ D[b].count = C[b].count
          /\ D[b] \in Counter
      BY <1>2, <2>4, <3>4 DEF Counter
    <3>6. Matches(S, D, b)
      BY <2>1, <2>3, <2>4, <3>3, <3>5 DEF Matches
    <3>7. Total(Charged(R, b), CoveredOf(R), CostCap) <= Total(Charged(R, b), Actual(R), CostCap)
      <4>1. \A u \in Charged(R, b) : /\ CoveredOf(R)[u] \in Int /\ Actual(R)[u] \in Int
                                     /\ CoveredOf(R)[u] <= Actual(R)[u]
        <5>1. SUFFICES ASSUME NEW u \in Charged(R, b)
                       PROVE  /\ CoveredOf(R)[u] \in Int /\ Actual(R)[u] \in Int
                              /\ CoveredOf(R)[u] <= Actual(R)[u]
          OBVIOUS
        <5>2. u \in Turns /\ R[u].actual \in Int
          BY <1>1, <1>2 DEF Charged, SiteRow
        <5> QED
          BY <1>2, <5>2 DEF CoveredOf, Actual, Least
      <4> QED
        BY <1>2, <2>5, <4>1, TotalMonotone
    <3>8. C[b].actual + C[b].reserved + Price <= LimitOf[b]
      BY <2>7 DEF Fits
    <3>9. Committed(S, b) <= LimitOf[b]
      BY <1>2, <2>1, <2>3, <2>4, <2>5, <3>3, <3>7, <3>8 DEF Committed, Matches
    <3> QED
      BY <3>5, <3>6, <3>9
  <2> QED
    BY <2>6, <2>7
<1>4. D \in [Buckets -> Counter]
  BY <1>3
<1> QED
  BY <1>3, <1>4 DEF Books

-----------------------------------------------------------------------------
(* The site's RPCs.                                                        *)

\* What a step leaves of the site: books that match, and no bound row lost.
SiteInv == Books(site, counters)
KeepsSite == SiteInv' /\ \A u \in Turns : Bound(site[u]) => Bound(site'[u])

\* A bound row that ends is charged, so it stays bound.
LEMMA ClosingKeepsBound ==
  ASSUME NEW R, NEW S, Closing(R, S), NEW u \in Turns, Bound(R[u])
  PROVE  Bound(S[u])
BY DEF Closing, Closes, Bound

\* The sweep charges the dispatched rows that are over and releases the others.
LEMMA SweepKeepsBooks ==
  ASSUME SiteInv, NEW now
  PROVE  /\ Swept(now) \in [Turns -> SiteRow]
         /\ Closing(site, Swept(now))
         /\ Books(Swept(now), SweptCounters(now))
<1>1. site \in [Turns -> SiteRow] /\ Price \in 0..CostCap
  BY AdmissionAssumption DEF SiteInv, Books
<1>2. ASSUME NEW u \in Turns
      PROVE  Swept(now)[u] \in SiteRow /\ Closes(site[u], Swept(now)[u])
  <2> DEFINE row == site[u]
  <2>1. row \in SiteRow
    BY <1>1
  <2>2. Swept(now)[u] = IF row.status = "reserved" /\ row.expires <= now
                          THEN IF row.dispatched THEN Finalized(row, Price) ELSE Released(row)
                          ELSE row
    BY DEF Swept
  <2> HIDE DEF row
  <2>3. /\ Finalized(row, Price) \in SiteRow /\ Finalized(row, Price).status = "finalized"
        /\ Finalized(row, Price).dispatched = row.dispatched /\ Finalized(row, Price).at = row.at
    BY <1>1, <2>1 DEF Finalized, SiteRow
  <2>4. /\ Released(row) \in SiteRow /\ Released(row).status = "released"
        /\ Released(row).dispatched = row.dispatched /\ Released(row).at = row.at
    BY <2>1 DEF Released, SiteRow
  <2>5. Swept(now)[u] \in SiteRow /\ Closes(row, Swept(now)[u])
    BY <2>1, <2>2, <2>3, <2>4 DEF Closes
  <2> QED
    BY <2>5 DEF row
<1>3. Swept(now) \in [Turns -> SiteRow]
  BY <1>2 DEF Swept
<1>4. Closing(site, Swept(now))
  BY <1>2 DEF Closing
<1> QED
  BY <1>3, <1>4, CloseKeepsBooks DEF SiteInv, SweptCounters

\* A sweep alone keeps the site.
LEMMA OnlySweepKeepsSite ==
  ASSUME SiteInv, NEW now, OnlySweep(now)
  PROVE  KeepsSite
BY SweepKeepsBooks, ClosingKeepsBound DEF OnlySweep, KeepsSite, SiteInv

\* A sweep and the end of one row, charged just when it was dispatched.
LEMMA SweepAndCloseKeepsSite ==
  ASSUME SiteInv, NEW now, NEW t \in Turns, NEW row \in SiteRow,
         Closes(Swept(now)[t], row),
         SweepAndClose(now, [Swept(now) EXCEPT ![t] = row])
  PROVE  KeepsSite
<1> DEFINE S == [Swept(now) EXCEPT ![t] = row]
<1>1. /\ Swept(now) \in [Turns -> SiteRow] /\ Closing(site, Swept(now))
      /\ Books(Swept(now), SweptCounters(now))
  BY SweepKeepsBooks
<1>2. S \in [Turns -> SiteRow] /\ Closing(Swept(now), S)
  BY <1>1 DEF Closing, Closes
<1>3. Books(S, Settle(SweptCounters(now), Swept(now), S))
  BY <1>1, <1>2, CloseKeepsBooks
<1>4. \A u \in Turns : Bound(site[u]) => Bound(S[u])
  BY <1>1, <1>2, ClosingKeepsBound
<1> HIDE DEF S
<1>5. site' = S /\ counters' = Settle(SweptCounters(now), Swept(now), S)
  BY DEF SweepAndClose, S
<1> QED
  BY <1>3, <1>4, <1>5 DEF KeepsSite, SiteInv

\* reserve_public_ai_site_budget takes only room that is there, and never a row
\* that is already there.
LEMMA HoldKeepsSite ==
  ASSUME SiteInv, NEW m, m.turn \in Turns, NEW now \in Times, Hold(m, now)
  PROVE  KeepsSite
<1> DEFINE t == m.turn
           held == [NoHold EXCEPT !.status = "reserved", !.at = now, !.expires = now + HoldLease]
           S == [Swept(now) EXCEPT ![t] = held]
           D == [b \in Buckets |-> IF b \in BucketsOf[now]
                   THEN [SweptCounters(now)[b] EXCEPT !.reserved = @ + Price]
                   ELSE SweptCounters(now)[b]]
<1>1. /\ Swept(now) \in [Turns -> SiteRow] /\ Closing(site, Swept(now))
      /\ Books(Swept(now), SweptCounters(now))
  BY SweepKeepsBooks
<1>2. CASE OnlySweep(now)
  BY <1>2, OnlySweepKeepsSite
<1>3. CASE Fits(SweptCounters(now), now) /\ site' = S /\ counters' = D
  <2>1. Swept(now)[t].status = "none"
    BY DEF Hold
  <2>2. now \in Nat /\ HoldLease \in Nat /\ CostCap \in Nat /\ MaxTime \in Nat
    BY AdmissionAssumption DEF Times
  <2>3. held \in SiteRow /\ held.status = "reserved" /\ held.at = now
    <3>1. NoHold \in SiteRow
      BY <2>2 DEF NoHold, SiteRow, Times
    <3>2. now + HoldLease \in Nat
      BY <2>2
    <3> QED
      BY <3>1, <3>2 DEF SiteRow
  <2>4. S \in [Turns -> SiteRow] /\ \A u \in Turns : u # t => S[u] = Swept(now)[u]
    BY <1>1, <2>3
  <2>5. S[t] = held
    BY <1>1
  <2> HIDE DEF held, S
  <2>6. D = [b \in Buckets |-> IF b \in BucketsOf[now]
               THEN [SweptCounters(now)[b] EXCEPT !.reserved = @ + Price]
               ELSE SweptCounters(now)[b]]
    OBVIOUS
  <2> HIDE DEF D
  <2>7. Books(S, D)
    BY <1>1, <1>3, <2>1, <2>3, <2>4, <2>5, <2>6, HoldKeepsBooks
  <2>8. ASSUME NEW u \in Turns, Bound(site[u]) PROVE Bound(S[u])
    <3>1. Bound(Swept(now)[u])
      BY <1>1, <2>8, ClosingKeepsBound
    <3>2. u # t
      BY <2>1, <3>1 DEF Bound
    <3> QED
      BY <2>4, <3>1, <3>2
  <2> QED
    BY <1>3, <2>7, <2>8 DEF KeepsSite, SiteInv
<1> QED
  BY <1>2, <1>3 DEF Hold

\* The marker dispatches a row and only lengthens its life.
LEMMA MarkKeepsSite ==
  ASSUME SiteInv, NEW m, m.turn \in Turns, NEW now \in Times, Mark(m, now)
  PROVE  /\ KeepsSite
         /\ \/ quota' = quota /\ wire' = wire \ {m}
               /\ reply' = IF Awaited(m) THEN [reply EXCEPT ![m.turn] = "refused"] ELSE reply
            \/ /\ quota[m.turn].status = "reserved"
               /\ quota' = [quota EXCEPT ![m.turn].status = "dispatched"]
               /\ Bound(site'[m.turn])
<1> DEFINE t == m.turn
           S == [Swept(now) EXCEPT ![t].dispatched = TRUE,
                                   ![t].expires = Greatest(@, now + DispatchLease)]
<1>1. /\ Swept(now) \in [Turns -> SiteRow] /\ Closing(site, Swept(now))
      /\ Books(Swept(now), SweptCounters(now))
  BY SweepKeepsBooks
<1>2. CASE OnlySweep(now) /\ Answers(m, "refused") /\ OnlySite
  BY <1>2, OnlySweepKeepsSite DEF Answers, OnlySite
<1>3. CASE /\ Swept(now)[t].status = "reserved" /\ site' = S /\ counters' = SweptCounters(now)
           /\ quota[t].status = "reserved"
           /\ quota' = [quota EXCEPT ![t].status = "dispatched"]
  <2> DEFINE row == Swept(now)[t]
             ends == Greatest(row.expires, now + DispatchLease)
  <2>1. row \in SiteRow
    BY <1>1
  <2>2. ends \in Nat
    <3>1. row.expires \in Nat
      BY <2>1 DEF SiteRow
    <3>2. now + DispatchLease \in Nat
      BY AdmissionAssumption DEF Times
    <3> QED
      BY <3>1, <3>2 DEF Greatest
  <2>3. S[t] = [row EXCEPT !.dispatched = TRUE, !.expires = ends]
    BY <1>1
  <2> HIDE DEF ends
  <2>4. /\ S[t] \in SiteRow /\ S[t].status = row.status /\ S[t].at = row.at
        /\ S[t].actual = row.actual /\ S[t].dispatched
    <3> HIDE DEF S, row
    <3>1. /\ [row EXCEPT !.dispatched = TRUE, !.expires = ends] \in SiteRow
          /\ [row EXCEPT !.dispatched = TRUE, !.expires = ends].status = row.status
          /\ [row EXCEPT !.dispatched = TRUE, !.expires = ends].at = row.at
          /\ [row EXCEPT !.dispatched = TRUE, !.expires = ends].actual = row.actual
          /\ [row EXCEPT !.dispatched = TRUE, !.expires = ends].dispatched
      BY <2>1, <2>2 DEF SiteRow
    <3> QED
      BY <2>3, <3>1
  <2>5. \A u \in Turns : u # t => S[u] = Swept(now)[u]
    BY <1>1
  <2>6. S \in [Turns -> SiteRow]
    <3>1. \A u \in Turns : S[u] \in SiteRow
      BY <1>1, <2>4, <2>5
    <3>2. S = [u \in Turns |-> S[u]]
      BY <1>1
    <3> HIDE DEF S
    <3> QED
      BY <3>1, <3>2
  <2> HIDE DEF S
  <2>7. Books(S, SweptCounters(now))
    BY <1>1, <2>4, <2>5, <2>6, SameBooks
  <2>8. \A u \in Turns : Bound(site[u]) => Bound(S[u])
    BY <1>1, <2>4, <2>5, ClosingKeepsBound DEF Bound
  <2>9. Bound(S[t])
    BY <1>3, <2>4 DEF Bound
  <2> QED
    BY <1>3, <2>7, <2>8, <2>9 DEF KeepsSite, SiteInv
<1> QED
  BY <1>2, <1>3 DEF Mark

\* finalize_public_ai_site_budget charges a dispatched row; a closed one stays.
LEMMA FinalizeKeepsSite ==
  ASSUME SiteInv, NEW m, m.turn \in Turns, NEW now \in Times, NEW charge \in 0..CostCap,
         Finalize(m, charge, now)
  PROVE  KeepsSite
<1> DEFINE t == m.turn
           row == Finalized(Swept(now)[t], charge)
<1>1. Swept(now) \in [Turns -> SiteRow]
  BY SweepKeepsBooks
<1>2. CASE OnlySweep(now)
  BY <1>2, OnlySweepKeepsSite
<1>3. CASE /\ Swept(now)[t].status = "reserved" /\ Swept(now)[t].dispatched
           /\ SweepAndClose(now, [Swept(now) EXCEPT ![t] = Finalized(@, charge)])
  <2>1. Swept(now)[t] \in SiteRow
    BY <1>1
  <2>2. row \in SiteRow /\ Closes(Swept(now)[t], row)
    BY <1>3, <2>1 DEF Finalized, Closes, SiteRow
  <2>3. SweepAndClose(now, [Swept(now) EXCEPT ![t] = row])
    BY <1>3
  <2> HIDE DEF row
  <2> QED
    BY <2>2, <2>3, SweepAndCloseKeepsSite
<1> QED
  BY <1>2, <1>3 DEF Finalize

\* release_public_ai_site_budget ends only a row that was not dispatched.
LEMMA UnholdKeepsSite ==
  ASSUME SiteInv, NEW m, m.turn \in Turns, NEW now \in Times, Unhold(m, now)
  PROVE  KeepsSite
<1> DEFINE t == m.turn
           row == Released(Swept(now)[t])
<1>1. Swept(now) \in [Turns -> SiteRow]
  BY SweepKeepsBooks
<1>2. CASE OnlySweep(now)
  BY <1>2, OnlySweepKeepsSite
<1>3. CASE /\ Swept(now)[t].status = "reserved" /\ ~Swept(now)[t].dispatched
           /\ SweepAndClose(now, [Swept(now) EXCEPT ![t] = Released(@)])
  <2>1. Swept(now)[t] \in SiteRow
    BY <1>1
  <2>2. row \in SiteRow /\ Closes(Swept(now)[t], row)
    BY <1>3, <2>1 DEF Released, Closes, SiteRow
  <2>3. SweepAndClose(now, [Swept(now) EXCEPT ![t] = row])
    BY <1>3
  <2> HIDE DEF row
  <2> QED
    BY <2>2, <2>3, SweepAndCloseKeepsSite
<1> QED
  BY <1>2, <1>3 DEF Unhold

-----------------------------------------------------------------------------
(* The rows of the quota.                                                  *)

QuotaTypeOK ==
  /\ quota \in [Turns -> QuotaRow] /\ windows \in [Subjects -> Times \cup {NoWindow}]
  /\ clock \in Times /\ late \subseteq Turns

\* A row belongs to a request that was made.
RowsAreAsked == \A t \in Turns : quota[t].status # "none" => ask[t] \in Requests

\* A principal's live rows differ by key and by fingerprint.
Alive(t) == quota[t].status \notin {"none", "released"}
LiveRowsDiffer ==
  \A t, u \in Turns :
    t # u /\ Alive(t) /\ Alive(u) /\ ask[t].principal = ask[u].principal
      => ask[t].key # ask[u].key /\ ask[t].fp # ask[u].fp

\* No row was created after the window of one of its subjects.
RowsInWindows ==
  \A t \in Turns : quota[t].status # "none" =>
    \A s \in ask[t].subjects : windows[s] # NoWindow /\ quota[t].created < windows[s] + Window

\* The turns that hold a place of a subject's window: those dispatched in time
\* and those whose lease has not ended by the clock.
Places(s) ==
  {t \in InWindow(quota, s, windows[s]) \ late :
     \/ quota[t].status \in Consumed
     \/ quota[t].status = "reserved" /\ quota[t].expires > clock}

PlacesWithinLimit == \A s \in Subjects : windows[s] # NoWindow => Cardinality(Places(s)) <= Limit

QuotaInv ==
  QuotaTypeOK /\ RowsAreAsked /\ LiveRowsDiffer /\ RowsInWindows /\ PlacesWithinLimit

\* What may become of a row once it is there; a dispatch past the clock is late.
RowMoves(u) ==
  LET row == quota[u]
      next == quota'[u]
  IN  /\ next.created = row.created /\ next.expires = row.expires
      /\ \/ next.status = row.status
         \/ row.status = "reserved" /\ next.status = "released"
         \/ row.status = "dispatched" /\ next.status \in {"completed", "outcome_unknown"}
         \/ /\ row.status = "reserved" /\ next.status = "dispatched"
            /\ row.expires > clock \/ u \in late'

\* What a step leaves of the quota: its invariant, and every consumed turn.
KeepsQuota ==
  /\ QuotaInv'
  /\ \A u \in Turns : quota[u].status \in Consumed => quota'[u].status \in Consumed

\* Sets of turns are finite.
LEMMA FewerTurns ==
  ASSUME NEW A, NEW B, A \subseteq B, B \subseteq Turns
  PROVE  /\ IsFiniteSet(A) /\ IsFiniteSet(B)
         /\ Cardinality(A) \in Nat /\ Cardinality(B) \in Nat
         /\ Cardinality(A) <= Cardinality(B)
<1>1. IsFiniteSet(B)
  BY FS_Subset, AdmissionAssumption
<1> QED
  BY <1>1, FS_Subset, FS_CardinalityType

\* Rows that only move on, at a clock that only advances, under windows that
\* stay: no two live rows meet and no place is taken.
LEMMA MovesKeepQuota ==
  ASSUME QuotaInv, windows' = windows, quota' \in [Turns -> QuotaRow],
         \A u \in Turns : RowMoves(u),
         \A u \in Turns : ask'[u] = ask[u] \/ quota[u].status = "none",
         clock' \in Times, clock <= clock', late \subseteq late', late' \subseteq Turns
  PROVE  KeepsQuota
<1>1. QuotaTypeOK'
  BY DEF QuotaInv, QuotaTypeOK
<1>2. \A u \in Turns : quota[u].status = "none" => quota'[u].status = "none"
  BY DEF RowMoves
<1>3. \A u \in Turns : quota'[u].status # "none" =>
        quota[u].status # "none" /\ ask'[u] = ask[u]
  BY <1>2 DEF RowMoves
<1>4. RowsAreAsked'
  BY <1>3 DEF QuotaInv, RowsAreAsked
<1>5. LiveRowsDiffer'
  <2>1. \A u \in Turns : Alive(u)' => Alive(u) /\ ask'[u] = ask[u]
    BY <1>3 DEF Alive, RowMoves
  <2> QED
    BY <2>1 DEF QuotaInv, LiveRowsDiffer
<1>6. RowsInWindows'
  BY <1>3 DEF QuotaInv, RowsInWindows, RowMoves
<1>7. PlacesWithinLimit'
  <2>1. ASSUME NEW s \in Subjects, windows[s] # NoWindow
        PROVE  Cardinality(Places(s)') <= Limit
    <3>1. ASSUME NEW u \in Places(s)' PROVE u \in Places(s)
      <4>1. /\ u \in Turns /\ quota'[u].status # "none" /\ s \in ask'[u].subjects
            /\ quota'[u].created \in windows[s]..(windows[s] + Window - 1) /\ u \notin late'
            /\ \/ quota'[u].status \in Consumed
               \/ quota'[u].status = "reserved" /\ quota'[u].expires > clock'
        BY DEF Places, InWindow
      <4>2. quota[u].status # "none" /\ ask'[u] = ask[u] /\ RowMoves(u) /\ u \notin late
        BY <1>3, <4>1
      <4>3. clock \in Int /\ clock' \in Int
        BY AdmissionAssumption DEF QuotaInv, QuotaTypeOK, Times
      <4>4. quota[u].expires \in Int
        BY <4>1 DEF QuotaInv, QuotaTypeOK, QuotaRow
      <4>5. \/ quota[u].status \in Consumed
            \/ quota[u].status = "reserved" /\ quota[u].expires > clock
        BY <4>1, <4>2, <4>3, <4>4 DEF RowMoves, Consumed
      <4> QED
        BY <4>1, <4>2, <4>5 DEF Places, InWindow, RowMoves
    <3>2. Places(s)' \subseteq Places(s) /\ Places(s) \subseteq Turns
      BY <3>1 DEF Places, InWindow
    <3>3. Cardinality(Places(s)) <= Limit
      BY <2>1 DEF QuotaInv, PlacesWithinLimit
    <3>4. Limit \in Nat
      BY AdmissionAssumption
    <3> QED
      BY <3>2, <3>3, <3>4, FewerTurns
  <2> QED
    BY <2>1 DEF PlacesWithinLimit
<1>8. \A u \in Turns : quota[u].status \in Consumed => quota'[u].status \in Consumed
  BY DEF RowMoves, Consumed
<1> QED
  BY <1>1, <1>4, <1>5, <1>6, <1>7, <1>8 DEF QuotaInv, KeepsQuota

\* A step that leaves the quota alone keeps it.
LEMMA QuietKeepsQuota ==
  ASSUME QuotaInv, UNCHANGED <<quota, windows, late, clock, ask>>
  PROVE  KeepsQuota
<1>1. \A u \in Turns : RowMoves(u)
  BY DEF RowMoves
<1>2. clock <= clock
  BY AdmissionAssumption DEF QuotaInv, QuotaTypeOK, Times
<1> QED
  BY <1>1, <1>2, MovesKeepQuota DEF QuotaInv, QuotaTypeOK

\* complete_public_ai_quota, mark_public_ai_quota_outcome_unknown and
\* release_public_ai_quota move one row on.
LEMMA MovesOfOneRow ==
  ASSUME QuotaInv, NEW m, m.turn \in Turns, NEW from, NEW to, NEW otherwise,
         Moves(m, from, to, otherwise),
         \/ from = "dispatched" /\ to \in {"completed", "outcome_unknown"}
         \/ from = "reserved" /\ to = "released"
  PROVE  KeepsQuota /\ \A u \in Turns : quota[u].status = "none" => quota'[u].status = "none"
<1>1. UNCHANGED <<windows, late, clock, ask>>
  BY DEF Moves, OnlyQuota, Answers
<1>2. CASE quota' = quota
  BY <1>1, <1>2, QuietKeepsQuota
<1>3. CASE quota[m.turn].status = from /\ quota' = [quota EXCEPT ![m.turn].status = to]
  <2> DEFINE row == quota[m.turn]
  <2>1. quota \in [Turns -> QuotaRow] /\ row \in QuotaRow
    BY DEF QuotaInv, QuotaTypeOK
  <2>2. quota'[m.turn] = [row EXCEPT !.status = to]
    BY <1>3, <2>1
  <2>3. /\ quota'[m.turn] \in QuotaRow /\ quota'[m.turn].status = to
        /\ quota'[m.turn].created = row.created /\ quota'[m.turn].expires = row.expires
    BY <2>1, <2>2 DEF QuotaRow, Consumed
  <2>4. \A u \in Turns : u # m.turn => quota'[u] = quota[u]
    BY <1>3, <2>1
  <2>5. quota' \in [Turns -> QuotaRow]
    BY <1>3, <2>1, <2>3, <2>4
  <2>6. \A u \in Turns : RowMoves(u)
    BY <1>3, <2>3, <2>4 DEF RowMoves
  <2>7. clock <= clock
    BY AdmissionAssumption DEF QuotaInv, QuotaTypeOK, Times
  <2>8. KeepsQuota
    BY <1>1, <2>5, <2>6, <2>7, MovesKeepQuota DEF QuotaInv, QuotaTypeOK
  <2> QED
    BY <2>6, <2>8 DEF RowMoves
<1> QED
  BY <1>2, <1>3 DEF Moves

\* The marker's half of the quota: a lease that is over by the clock is late.
LEMMA MarkKeepsQuota ==
  ASSUME QuotaInv, NEW m, m.turn \in Turns, NEW now, Mark(m, now)
  PROVE  KeepsQuota /\ \A u \in Turns : quota[u].status = "none" => quota'[u].status = "none"
<1>1. CASE UNCHANGED <<quota, windows, late, clock, ask>>
  BY <1>1, QuietKeepsQuota
<1>2. CASE /\ quota[m.turn].status = "reserved"
           /\ quota' = [quota EXCEPT ![m.turn].status = "dispatched"]
           /\ late' = IF quota[m.turn].expires <= clock THEN late \cup {m.turn} ELSE late
           /\ UNCHANGED <<windows, clock, ask>>
  <2> DEFINE row == quota[m.turn]
  <2>1. quota \in [Turns -> QuotaRow] /\ row \in QuotaRow
    BY DEF QuotaInv, QuotaTypeOK
  <2>2. quota'[m.turn] = [row EXCEPT !.status = "dispatched"]
    BY <1>2, <2>1
  <2>3. /\ quota'[m.turn] \in QuotaRow /\ quota'[m.turn].status = "dispatched"
        /\ quota'[m.turn].created = row.created /\ quota'[m.turn].expires = row.expires
    BY <2>1, <2>2 DEF QuotaRow, Consumed
  <2>4. \A u \in Turns : u # m.turn => quota'[u] = quota[u]
    BY <1>2, <2>1
  <2>5. quota' \in [Turns -> QuotaRow]
    BY <1>2, <2>1, <2>3, <2>4
  <2>6. clock \in Int /\ clock <= clock
    BY AdmissionAssumption DEF QuotaInv, QuotaTypeOK, Times
  <2>7. row.expires \in Int
    BY <2>1 DEF QuotaRow
  <2>8. row.expires > clock \/ m.turn \in late'
    BY <1>2, <2>6, <2>7
  <2>9. \A u \in Turns : RowMoves(u)
    BY <1>2, <2>3, <2>4, <2>8 DEF RowMoves
  <2>10. late \subseteq late' /\ late' \subseteq Turns
    BY <1>2 DEF QuotaInv, QuotaTypeOK
  <2>11. KeepsQuota
    BY <1>2, <2>5, <2>6, <2>9, <2>10, MovesKeepQuota DEF QuotaInv, QuotaTypeOK
  <2> QED
    BY <2>9, <2>11 DEF RowMoves
<1> QED
  BY <1>1, <1>2 DEF Mark, OnlySite, Answers

\* reserve_public_ai_quota: whatever now() it works with, a window it opens holds
\* no turn yet, one it leaves open holds at most those it counts, and the
\* new row differs from every live one of its principal.
LEMMA AdmitKeepsQuota ==
  ASSUME QuotaInv, NEW m, m.turn \in Turns, ask[m.turn] \in Requests,
         quota[m.turn].status = "none", NEW now \in Starts, Admit(m, now)
  PROVE  /\ KeepsQuota
         /\ \A u \in Turns : u # m.turn /\ quota[u].status = "none" => quota'[u].status = "none"
<1> DEFINE t == m.turn
           Q == Reclaimed(t, now)
           W == Opened(t, now)
           new == [status |-> "reserved", expires |-> now + Lease, created |-> now]
<1>1. /\ quota \in [Turns -> QuotaRow] /\ windows \in [Subjects -> Times \cup {NoWindow}]
      /\ clock \in Times /\ late \subseteq Turns
  BY DEF QuotaInv, QuotaTypeOK
<1>2. /\ now \in Times /\ now <= clock /\ now \in Nat /\ clock \in Nat /\ NoWindow \notin Times
      /\ \A x \in Times : x \in Nat
  BY <1>1, AdmissionAssumption DEF Starts, Times, NoWindow
<1>3. /\ Limit \in Nat /\ Window \in Nat /\ Window # 0 /\ Lease \in Nat
      /\ ask[t].subjects \subseteq Subjects
  BY AdmissionAssumption
<1>4. UNCHANGED <<late, clock, ask>>
  BY DEF Admit, OnlyQuota, Answers
<1>5. /\ Q \in [Turns -> QuotaRow] /\ Q[t] = quota[t]
      /\ \A u \in Turns : /\ Q[u].created = quota[u].created /\ Q[u].expires = quota[u].expires
                          /\ \/ Q[u].status = quota[u].status
                             \/ quota[u].status = "reserved" /\ Q[u].status = "released"
  <2>1. ASSUME NEW u \in Turns
        PROVE  /\ Q[u] \in QuotaRow
               /\ Q[u].created = quota[u].created /\ Q[u].expires = quota[u].expires
               /\ \/ Q[u].status = quota[u].status
                  \/ quota[u].status = "reserved" /\ Q[u].status = "released"
    <3>1. quota[u] \in QuotaRow
      BY <1>1
    <3>2. Q[u] = quota[u] \/ (quota[u].status = "reserved"
                               /\ Q[u] = [quota[u] EXCEPT !.status = "released"])
      BY DEF Reclaimed
    <3> HIDE DEF Q
    <3> QED
      BY <3>1, <3>2 DEF QuotaRow
  <2>2. Q[t] = quota[t]
    BY DEF Reclaimed
  <2>3. Q = [u \in Turns |-> Q[u]]
    BY DEF Reclaimed
  <2> HIDE DEF Q
  <2> QED
    BY <2>1, <2>2, <2>3
<1>6. CASE quota' = Q /\ windows' = windows
  <2>1. \A u \in Turns : RowMoves(u)
    BY <1>5, <1>6 DEF RowMoves
  <2>2. KeepsQuota
    BY <1>1, <1>2, <1>4, <1>5, <1>6, <2>1, MovesKeepQuota
  <2> QED
    BY <2>1, <2>2 DEF RowMoves
<1>7. ASSUME NEW s \in Subjects
      PROVE  /\ W[s] \in Times \cup {NoWindow}
             /\ s \in ask[t].subjects => W[s] \in Times /\ W[s] + Window > now
             /\ \/ W[s] = windows[s]
                \/ /\ W[s] = now /\ s \in ask[t].subjects
                   /\ windows[s] = NoWindow \/ windows[s] + Window <= now
  <2>1. W[s] = IF s \in ask[t].subjects
                    /\ (windows[s] = NoWindow \/ windows[s] + Window <= now)
                 THEN now ELSE windows[s]
    BY DEF Opened
  <2>2. windows[s] \in Times \cup {NoWindow}
    BY <1>1
  <2>3. windows[s] \in Times => windows[s] \in Nat
    BY <1>2
  <2> HIDE DEF W
  <2> QED
    BY <1>2, <1>3, <2>1, <2>2, <2>3
<1>8. W \in [Subjects -> Times \cup {NoWindow}]
  <2>1. W = [s \in Subjects |-> W[s]]
    BY DEF Opened
  <2> HIDE DEF W
  <2> QED
    BY <1>7, <2>1
\* The windows of rows that are there only move forward.
<1>9. ASSUME NEW u \in Turns, quota[u].status # "none", NEW s \in ask[u].subjects
      PROVE  /\ s \in Subjects
             /\ W[s] # NoWindow /\ quota[u].created < W[s] + Window
             /\ W[s] = windows[s] \/ ~(quota[u].created \in W[s]..(W[s] + Window - 1))
  <2>1. ask[u] \in Requests
    BY <1>9 DEF QuotaInv, RowsAreAsked
  <2>2. s \in Subjects
    BY <2>1, AdmissionAssumption
  <2>3. windows[s] # NoWindow /\ quota[u].created < windows[s] + Window
    BY <1>9 DEF QuotaInv, RowsInWindows
  <2>4. windows[s] \in Nat
    BY <1>1, <1>2, <2>2, <2>3
  <2>5. quota[u].created \in Nat
    BY <1>1 DEF QuotaRow
  <2> HIDE DEF W
  <2> QED
    BY <1>2, <1>3, <1>7, <2>2, <2>3, <2>4, <2>5
<1>10. CASE quota' = Q /\ windows' = W
  <2>1. \A u \in Turns : quota'[u].status # "none" => quota[u].status # "none"
    BY <1>5, <1>10
  <2>2. QuotaTypeOK'
    BY <1>1, <1>4, <1>5, <1>8, <1>10 DEF QuotaTypeOK
  <2>3. RowsAreAsked' /\ LiveRowsDiffer'
    BY <1>4, <1>5, <1>10, <2>1 DEF QuotaInv, RowsAreAsked, LiveRowsDiffer, Alive
  <2>4. RowsInWindows'
    BY <1>4, <1>5, <1>9, <1>10, <2>1 DEF RowsInWindows
  <2>5. PlacesWithinLimit'
    <3>1. ASSUME NEW s \in Subjects, W[s] # NoWindow
          PROVE  Cardinality(Places(s)') <= Limit
      <4>1. ASSUME NEW u \in Places(s)' PROVE W[s] = windows[s] /\ u \in Places(s)
        <5>1. /\ u \in Turns /\ Q[u].status # "none" /\ s \in ask[u].subjects
              /\ Q[u].created \in W[s]..(W[s] + Window - 1) /\ u \notin late
              /\ \/ Q[u].status \in Consumed
                 \/ Q[u].status = "reserved" /\ Q[u].expires > clock
          BY <1>4, <1>10 DEF Places, InWindow
        <5>2. quota[u].status # "none" /\ Q[u].created = quota[u].created
          BY <1>5, <5>1
        <5>3. W[s] = windows[s]
          BY <1>9, <5>1, <5>2
        <5>4. quota[u].status = Q[u].status /\ quota[u].expires = Q[u].expires
          BY <1>5, <5>1 DEF Consumed
        <5> HIDE DEF W, Q
        <5> QED
          BY <5>1, <5>2, <5>3, <5>4 DEF Places, InWindow
      <4>2. CASE Places(s)' = {}
        BY <1>3, <4>2, FS_EmptySet
      <4>3. CASE Places(s)' # {}
        <5>1. Places(s)' \subseteq Places(s) /\ W[s] = windows[s] /\ Places(s) \subseteq Turns
          BY <4>1, <4>3 DEF Places, InWindow
        <5>2. Cardinality(Places(s)) <= Limit
          BY <3>1, <5>1 DEF QuotaInv, PlacesWithinLimit
        <5> QED
          BY <1>3, <5>1, <5>2, FewerTurns
      <4> QED
        BY <4>2, <4>3
    <3> HIDE DEF W
    <3> QED
      BY <1>10, <3>1 DEF PlacesWithinLimit
  <2>6. \A u \in Turns : quota[u].status \in Consumed => quota'[u].status \in Consumed
    BY <1>5, <1>10 DEF Consumed
  <2> QED
    BY <1>5, <1>10, <2>2, <2>3, <2>4, <2>5, <2>6 DEF QuotaInv, KeepsQuota
<1>11. CASE /\ quota' = [Q EXCEPT ![t] = new] /\ windows' = W
            /\ SameKey(Q, t) \cup SameFp(Q, t) = {} /\ ~Exhausted(Q, t, W, now)
  <2>1. new \in QuotaRow
    BY <1>2, <1>3 DEF QuotaRow
  <2>2. quota'[t] = new /\ \A u \in Turns : u # t => quota'[u] = Q[u]
    BY <1>5, <1>11
  <2> HIDE DEF Q, W
  <2>3. QuotaTypeOK'
    BY <1>1, <1>4, <1>5, <1>8, <1>11, <2>1 DEF QuotaTypeOK
  <2>4. \A u \in Turns : u # t /\ quota'[u].status # "none" => quota[u].status # "none"
    BY <1>5, <2>2
  <2>5. RowsAreAsked'
    BY <1>4, <2>4 DEF QuotaInv, RowsAreAsked
  <2>6. LiveRowsDiffer'
    <3>1. \A u \in Turns : u # t /\ Alive(u)' => Alive(u) /\ Q[u].status \notin {"none", "released"}
      BY <1>5, <2>2 DEF Alive
    <3>2. \A u \in Turns : u # t /\ Alive(u)' /\ ask[u].principal = ask[t].principal =>
            ask[u].key # ask[t].key /\ ask[u].fp # ask[t].fp
      BY <1>11, <3>1 DEF SameKey, SameFp, Mine
    <3> QED
      BY <1>4, <3>1, <3>2 DEF QuotaInv, LiveRowsDiffer
  <2>7. RowsInWindows'
    <3>1. ASSUME NEW s \in ask[t].subjects PROVE W[s] # NoWindow /\ now < W[s] + Window
      BY <1>2, <1>3, <1>7
    <3>2. new.created = now
      OBVIOUS
    <3> HIDE DEF new
    <3> QED
      BY <1>4, <1>5, <1>9, <1>11, <2>2, <2>4, <3>1, <3>2 DEF RowsInWindows
  <2>8. PlacesWithinLimit'
    <3>1. ASSUME NEW s \in Subjects, W[s] # NoWindow
          PROVE  Cardinality(Places(s)') <= Limit
      <4>1. ASSUME NEW u \in Places(s)', u # t
            PROVE  /\ W[s] = windows[s] /\ u \in Places(s)
                   /\ s \in ask[t].subjects => u \in Used(Q, s, W[s], now)
        <5>1. /\ u \in Turns /\ Q[u].status # "none" /\ s \in ask[u].subjects
              /\ Q[u].created \in W[s]..(W[s] + Window - 1) /\ u \notin late
              /\ \/ Q[u].status \in Consumed
                 \/ Q[u].status = "reserved" /\ Q[u].expires > clock
          BY <1>4, <1>11, <2>2, <4>1 DEF Places, InWindow
        <5>2. quota[u].status # "none" /\ Q[u].created = quota[u].created
          BY <1>5, <5>1
        <5>3. W[s] = windows[s]
          BY <1>9, <5>1, <5>2
        <5>4. quota[u].status = Q[u].status /\ quota[u].expires = Q[u].expires
          BY <1>5, <5>1 DEF Consumed
        <5>5. u \in Places(s)
          BY <5>1, <5>2, <5>3, <5>4 DEF Places, InWindow
        <5>6. Q[u].expires \in Int
          BY <1>5, <5>1 DEF QuotaRow
        <5>7. Q[u].expires > clock => Q[u].expires > now
          BY <1>2, <5>6
        <5> QED
          BY <5>1, <5>3, <5>5, <5>7 DEF Used, InWindow
      <4>2. Places(s)' \subseteq Turns /\ (t \in Places(s)' => s \in ask[t].subjects)
        BY <1>4 DEF Places, InWindow
      <4>3. CASE t \notin Places(s)' /\ Places(s)' = {}
        BY <1>3, <4>3, FS_EmptySet
      <4>4. CASE t \notin Places(s)' /\ Places(s)' # {}
        <5>1. Places(s)' \subseteq Places(s) /\ W[s] = windows[s] /\ Places(s) \subseteq Turns
          BY <4>1, <4>4 DEF Places, InWindow
        <5>2. Cardinality(Places(s)) <= Limit
          BY <3>1, <5>1 DEF QuotaInv, PlacesWithinLimit
        <5> QED
          BY <1>3, <5>1, <5>2, FewerTurns
      <4>5. CASE t \in Places(s)'
        <5> DEFINE U == Used(Q, s, W[s], now)
        <5>1. s \in ask[t].subjects
          BY <4>2, <4>5
        <5>2. U \subseteq Turns
          BY DEF Used, InWindow
        <5>3. IsFiniteSet(U) /\ Cardinality(U) \in Nat /\ ~(Cardinality(U) >= Limit)
          BY <1>11, <5>1, <5>2, FewerTurns DEF Exhausted
        <5>4. t \notin U
          BY <1>5 DEF Used, InWindow
        <5>5. Cardinality(U \cup {t}) = Cardinality(U) + 1
          BY <5>3, <5>4, FS_AddElement
        <5>6. Places(s)' \subseteq U \cup {t} /\ U \cup {t} \subseteq Turns
          BY <4>1, <5>1, <5>2
        <5> HIDE DEF U
        <5>7. Cardinality(Places(s)') <= Cardinality(U \cup {t}) /\ Cardinality(Places(s)') \in Nat
          BY <5>6, FewerTurns
        <5> QED
          BY <1>3, <5>3, <5>5, <5>7
      <4> QED
        BY <4>3, <4>4, <4>5
    <3> QED
      BY <1>11, <3>1 DEF PlacesWithinLimit
  <2>9. \A u \in Turns : quota[u].status \in Consumed => quota'[u].status \in Consumed
    BY <1>5, <2>2 DEF Consumed
  <2> QED
    BY <1>5, <2>2, <2>3, <2>5, <2>6, <2>7, <2>8, <2>9 DEF QuotaInv, KeepsQuota
<1> QED
  BY <1>6, <1>10, <1>11 DEF Admit

-----------------------------------------------------------------------------
(* The handlers, their messages and the provider.                          *)

\* What a handler may have heard: the status of a row, or an answer of its own.
Statuses == {"none", "reserved", "released", "dispatched", "completed", "outcome_unknown",
             "taken", "exceeded", "held", "refused", "finalized", "answered"}

TurnTypeOK ==
  /\ ask \in [Turns -> Requests \cup {NoAsk}] /\ pc \in [Turns -> Labels]
  /\ wire \subseteq [turn : Turns, op : Labels] /\ reply \in [Turns -> Statuses]
  /\ provider \in [Turns -> {"idle", "called", "billed", "refused"}]
  /\ cost \in [Turns -> 0..CostCap] /\ retryable \subseteq Turns

\* A turn both of whose rows are dispatched; nothing takes that back.
Sealed(t) == quota[t].status \in Consumed /\ Bound(site[t])

\* A turn that has not arrived has no row and no message; one whose admission
\* is under way has no row; one that may call the provider is sealed.
TurnsInStep ==
  \A t \in Turns :
    /\ pc[t] # "idle" => ask[t] \in Requests
    /\ pc[t] = "idle" => quota[t].status = "none" /\ \A m \in wire : m.turn # t
    /\ [turn |-> t, op |-> "admit"] \in wire => quota[t].status = "none"
    /\ pc[t] = "mark" /\ reply[t] = "dispatched" => Sealed(t)
    /\ provider[t] # "idle" => Sealed(t)

\* The tables and the handlers keep their types.
AdmissionTypeOK ==
  /\ QuotaTypeOK /\ TurnTypeOK
  /\ site \in [Turns -> SiteRow] /\ counters \in [Buckets -> Counter]

AdmissionInv == QuotaInv /\ SiteInv /\ TurnTypeOK /\ TurnsInStep

\* A handler goes on: it waits for its next RPC, or for the provider, or ends.
GoesTo(t, label) ==
  /\ Goto(t, label) /\ (UNCHANGED wire \/ wire' = wire \cup {[turn |-> t, op |-> label]})
  /\ UNCHANGED ask

\* Whatever a committed RPC answers, the turns stay in step with their rows.
LEMMA AnswersKeepTurns ==
  ASSUME AdmissionInv, KeepsQuota, KeepsSite,
         NEW m \in wire, NEW status \in Statuses, Answers(m, status),
         m.op = "mark" /\ status = "dispatched" => Sealed(m.turn)',
         \A u \in Turns : /\ quota[u].status = "none" /\ quota'[u].status # "none"
                          => u = m.turn /\ m.op = "admit"
  PROVE  AdmissionInv'
<1>1. /\ TurnTypeOK /\ TurnsInStep
      /\ m \in [turn : Turns, op : Labels] /\ m.turn \in Turns
      /\ m = [turn |-> m.turn, op |-> m.op]
  BY DEF AdmissionInv, TurnTypeOK
<1>2. /\ wire' = wire \ {m} /\ UNCHANGED <<ask, pc, provider, cost, retryable>>
      /\ reply' = IF pc[m.turn] = m.op THEN [reply EXCEPT ![m.turn] = status] ELSE reply
  BY DEF Answers, Awaited
<1>3. TurnTypeOK'
  BY <1>1, <1>2 DEF TurnTypeOK
<1>4. \A u \in Turns : Sealed(u) => Sealed(u)'
  BY DEF KeepsQuota, KeepsSite, Sealed
<1>5. ASSUME NEW u \in Turns
      PROVE  /\ pc'[u] # "idle" => ask'[u] \in Requests
             /\ pc'[u] = "idle" => quota'[u].status = "none" /\ \A n \in wire' : n.turn # u
             /\ [turn |-> u, op |-> "admit"] \in wire' => quota'[u].status = "none"
             /\ pc'[u] = "mark" /\ reply'[u] = "dispatched" => Sealed(u)'
             /\ provider'[u] # "idle" => Sealed(u)'
  <2>1. pc'[u] # "idle" => ask'[u] \in Requests
    BY <1>1, <1>2 DEF TurnsInStep
  <2>2. ASSUME pc[u] = "idle"
        PROVE  quota'[u].status = "none" /\ \A n \in wire' : n.turn # u
    <3>1. quota[u].status = "none" /\ \A n \in wire : n.turn # u
      BY <1>1, <2>2 DEF TurnsInStep
    <3> QED
      BY <1>2, <3>1
  <2>3. ASSUME [turn |-> u, op |-> "admit"] \in wire' PROVE quota'[u].status = "none"
    <3>1. [turn |-> u, op |-> "admit"] \in wire /\ [turn |-> u, op |-> "admit"] # m
      BY <1>2, <2>3
    <3>2. quota[u].status = "none" /\ ~(u = m.turn /\ m.op = "admit")
      BY <1>1, <3>1 DEF TurnsInStep
    <3> QED
      BY <3>2
  <2>4. ASSUME pc[u] = "mark", reply'[u] = "dispatched" PROVE Sealed(u)'
    <3>1. CASE reply'[u] = reply[u]
      BY <1>1, <1>4, <2>4, <3>1 DEF TurnsInStep
    <3>2. CASE reply'[u] # reply[u]
      <4>1. u = m.turn /\ pc[m.turn] = m.op /\ reply'[u] = status
        BY <1>1, <1>2, <3>2 DEF TurnTypeOK
      <4> QED
        BY <2>4, <4>1
    <3> QED
      BY <3>1, <3>2
  <2>5. provider'[u] # "idle" => Sealed(u)'
    BY <1>1, <1>2, <1>4 DEF TurnsInStep
  <2> QED
    BY <1>2, <2>1, <2>2, <2>3, <2>4, <2>5
<1>6. TurnsInStep'
  BY <1>5 DEF TurnsInStep
<1> QED
  BY <1>3, <1>6 DEF AdmissionInv, KeepsQuota, KeepsSite

\* One RPC, served at whatever instant.
LEMMA ServeKeepsInv ==
  ASSUME AdmissionInv, NEW now \in Starts, NEW m \in wire, Serve(m, now)
  PROVE  AdmissionInv'
<1>1. /\ QuotaInv /\ SiteInv /\ TurnTypeOK /\ TurnsInStep /\ now \in Times
      /\ m \in [turn : Turns, op : Labels] /\ m.turn \in Turns
      /\ m = [turn |-> m.turn, op |-> m.op]
  BY DEF AdmissionInv, TurnTypeOK, Starts
<1>2. quota[m.turn].status \in Statuses
  <2>1. quota[m.turn] \in QuotaRow
    BY <1>1 DEF QuotaInv, QuotaTypeOK
  <2> QED
    BY <2>1 DEF QuotaRow, Consumed, Statuses
<1>3. ASSUME OnlySite, \E status \in Statuses : Answers(m, status) /\ (m.op = "mark" => status # "dispatched"),
             KeepsSite
      PROVE  AdmissionInv'
  <2>1. UNCHANGED <<quota, windows, late, clock, ask>>
    BY <1>3 DEF OnlySite, Answers
  <2>2. KeepsQuota
    BY <1>1, <2>1, QuietKeepsQuota
  <2> QED
    BY <1>3, <2>1, <2>2, AnswersKeepTurns
<1>4. ASSUME OnlyQuota, \E status \in Statuses : Answers(m, status) /\ (m.op = "mark" => status # "dispatched"),
             KeepsQuota,
             \A u \in Turns : /\ quota[u].status = "none" /\ quota'[u].status # "none"
                              => u = m.turn /\ m.op = "admit"
      PROVE  AdmissionInv'
  <2>1. KeepsSite
    BY <1>1, <1>4 DEF OnlyQuota, KeepsSite, SiteInv, Books
  <2> QED
    BY <1>4, <2>1, AnswersKeepTurns
<1>5. CASE m.op = "admit" /\ Admit(m, now)
  <2>1. ask[m.turn] \in Requests /\ quota[m.turn].status = "none"
    BY <1>1, <1>5 DEF TurnsInStep
  <2>2. /\ KeepsQuota
        /\ \A u \in Turns : u # m.turn /\ quota[u].status = "none" => quota'[u].status = "none"
    BY <1>1, <1>5, <2>1, AdmitKeepsQuota
  <2>3. OnlyQuota /\ \E status \in Statuses : Answers(m, status)
    BY <1>5 DEF Admit, Statuses
  <2> QED
    BY <1>4, <1>5, <2>2, <2>3
<1>6. CASE m.op = "hold" /\ Hold(m, now)
  <2>1. OnlySite /\ \E status \in Statuses : Answers(m, status)
    BY <1>6 DEF Hold, Statuses
  <2> QED
    BY <1>1, <1>3, <1>6, <2>1, HoldKeepsSite
<1>7. CASE m.op = "mark" /\ Mark(m, now)
  <2>1. KeepsQuota /\ \A u \in Turns : quota[u].status = "none" => quota'[u].status = "none"
    BY <1>1, <1>7, MarkKeepsQuota
  <2>2. KeepsSite
    BY <1>1, <1>7, MarkKeepsSite
  <2>3. CASE Answers(m, "refused")
    BY <1>7, <2>1, <2>2, <2>3, AnswersKeepTurns DEF Statuses
  <2>4. CASE /\ Answers(m, "dispatched") /\ quota[m.turn].status = "reserved"
             /\ quota' = [quota EXCEPT ![m.turn].status = "dispatched"]
             /\ site' = [Swept(now) EXCEPT ![m.turn].dispatched = TRUE,
                              ![m.turn].expires = Greatest(@, now + DispatchLease)]
             /\ Swept(now)[m.turn].status = "reserved"
    <3>1. quota'[m.turn].status = "dispatched"
      BY <1>1, <2>4 DEF QuotaInv, QuotaTypeOK, QuotaRow
    <3>2. Bound(site'[m.turn])
      <4>1. Swept(now) \in [Turns -> SiteRow]
        BY <1>1, SweepKeepsBooks
      <4>2. Swept(now)[m.turn] \in SiteRow
        BY <1>1, <4>1
      <4>3. site'[m.turn] = [Swept(now)[m.turn] EXCEPT !.dispatched = TRUE,
                              !.expires = Greatest(@, now + DispatchLease)]
        BY <1>1, <2>4, <4>1
      <4>4. /\ site'[m.turn].dispatched
            /\ site'[m.turn].status = Swept(now)[m.turn].status
        BY <4>2, <4>3 DEF SiteRow
      <4> QED
        BY <2>4, <4>4 DEF Bound
    <3>3. Sealed(m.turn)'
      BY <3>1, <3>2 DEF Sealed, Consumed
    <3> QED
      BY <2>1, <2>2, <2>4, <3>3, AnswersKeepTurns DEF Statuses
  <2> QED
    BY <1>7, <2>3, <2>4 DEF Mark
<1>8. CASE m.op = "finalize" /\ Finalize(m, cost[m.turn], now)
  <2>1. cost[m.turn] \in 0..CostCap
    BY <1>1 DEF TurnTypeOK
  <2>2. OnlySite /\ Answers(m, "finalized")
    BY <1>8 DEF Finalize, Statuses
  <2> QED
    BY <1>1, <1>3, <1>8, <2>1, <2>2, FinalizeKeepsSite DEF Statuses
<1>9. CASE m.op = "charge" /\ Finalize(m, Price, now)
  <2>1. Price \in 0..CostCap
    BY AdmissionAssumption
  <2>2. OnlySite /\ Answers(m, "finalized")
    BY <1>9 DEF Finalize, Statuses
  <2> QED
    BY <1>1, <1>3, <1>9, <2>1, <2>2, FinalizeKeepsSite DEF Statuses
<1>10. CASE m.op = "unhold" /\ Unhold(m, now)
  <2>1. OnlySite /\ Answers(m, "answered")
    BY <1>10 DEF Unhold, Statuses
  <2> QED
    BY <1>1, <1>3, <1>10, <2>1, UnholdKeepsSite DEF Statuses
<1>11. CASE m.op = "complete" /\ Complete(m)
  <2>1. Moves(m, "dispatched", "completed", quota[m.turn].status)
    BY <1>11 DEF Complete
  <2>2. OnlyQuota /\ \E status \in Statuses : Answers(m, status)
    BY <1>2, <2>1 DEF Moves, Statuses
  <2> QED
    BY <1>1, <1>4, <1>11, <2>1, <2>2, MovesOfOneRow
<1>12. CASE m.op = "unknown" /\ Unknown(m)
  <2>1. Moves(m, "dispatched", "outcome_unknown", quota[m.turn].status)
    BY <1>12 DEF Unknown
  <2>2. OnlyQuota /\ \E status \in Statuses : Answers(m, status)
    BY <1>2, <2>1 DEF Moves, Statuses
  <2> QED
    BY <1>1, <1>4, <1>12, <2>1, <2>2, MovesOfOneRow
<1>13. CASE m.op = "giveback" /\ GiveBack(m)
  <2>1. Moves(m, "reserved", "released", quota[m.turn].status)
    BY <1>13 DEF GiveBack
  <2>2. OnlyQuota /\ \E status \in Statuses : Answers(m, status)
    BY <1>2, <2>1 DEF Moves, Statuses
  <2> QED
    BY <1>1, <1>4, <1>13, <2>1, <2>2, MovesOfOneRow
<1> QED
  BY <1>5, <1>6, <1>7, <1>8, <1>9, <1>10, <1>11, <1>12, <1>13 DEF Serve

\* A step of the handlers or the provider, which leaves the tables alone.
LEMMA LocalKeepsTables ==
  ASSUME AdmissionInv, Locally,
         \A u \in Turns : ask'[u] = ask[u] \/ quota[u].status = "none"
  PROVE  QuotaInv' /\ SiteInv' /\ \A u \in Turns : Sealed(u)' = Sealed(u)
<1>1. UNCHANGED <<quota, windows, site, counters, clock, late>>
  BY DEF Locally, dbVars
<1>2. \A u \in Turns : RowMoves(u)
  BY <1>1 DEF RowMoves
<1>3. QuotaInv /\ SiteInv /\ clock \in Times /\ quota \in [Turns -> QuotaRow] /\ late \subseteq Turns
  BY DEF AdmissionInv, QuotaInv, QuotaTypeOK
<1>4. clock <= clock
  BY <1>3, AdmissionAssumption DEF Times
<1>5. QuotaInv'
  BY <1>1, <1>2, <1>3, <1>4, MovesKeepQuota DEF KeepsQuota
<1>6. SiteInv'
  BY <1>1, <1>3 DEF SiteInv
<1> QED
  BY <1>1, <1>5, <1>6 DEF Sealed

\* A handler that has arrived goes on; it calls the provider only after its
\* marker was confirmed.
LEMMA HandlerKeepsInv ==
  ASSUME AdmissionInv, NEW t \in Turns, NEW label \in Labels \ {"idle", "admit"},
         pc[t] # "idle", Locally, GoesTo(t, label),
         \/ provider' = provider
         \/ pc[t] = "mark" /\ reply[t] = "dispatched"
              /\ provider' = [provider EXCEPT ![t] = "called"],
         cost' = cost \/ \E c \in Costs : cost' = [cost EXCEPT ![t] = c],
         retryable' = retryable \/ retryable' = retryable \cup {t}
  PROVE  AdmissionInv'
<1>1. TurnTypeOK /\ TurnsInStep /\ ask' = ask /\ Costs \subseteq 0..CostCap
  BY AdmissionAssumption DEF AdmissionInv, GoesTo
<1>2. /\ pc' = [pc EXCEPT ![t] = label] /\ reply' = [reply EXCEPT ![t] = "none"]
      /\ wire' \subseteq wire \cup {[turn |-> t, op |-> label]}
  BY DEF GoesTo, Goto
<1>3. QuotaInv' /\ SiteInv' /\ \A u \in Turns : Sealed(u)' = Sealed(u)
  BY <1>1, LocalKeepsTables
<1>4. TurnTypeOK'
  BY <1>1, <1>2 DEF TurnTypeOK, Statuses
<1>5. quota' = quota
  BY DEF Locally, dbVars
<1>6. ASSUME NEW u \in Turns
      PROVE  /\ pc'[u] # "idle" => ask'[u] \in Requests
             /\ pc'[u] = "idle" => quota'[u].status = "none" /\ \A n \in wire' : n.turn # u
             /\ [turn |-> u, op |-> "admit"] \in wire' => quota'[u].status = "none"
             /\ pc'[u] = "mark" /\ reply'[u] = "dispatched" => Sealed(u)'
             /\ provider'[u] # "idle" => Sealed(u)'
  <2>1. pc'[u] = IF u = t THEN label ELSE pc[u]
    BY <1>1, <1>2 DEF TurnTypeOK
  <2>2. pc'[u] # "idle" => ask'[u] \in Requests
    BY <1>1, <2>1 DEF TurnsInStep
  <2>3. pc'[u] = "idle" => quota'[u].status = "none" /\ \A n \in wire' : n.turn # u
    <3>1. ASSUME pc'[u] = "idle" PROVE quota'[u].status = "none" /\ \A n \in wire' : n.turn # u
      <4>1. u # t /\ pc[u] = "idle"
        BY <2>1, <3>1
      <4>2. quota[u].status = "none" /\ \A n \in wire : n.turn # u
        BY <1>1, <4>1 DEF TurnsInStep
      <4>3. [turn |-> t, op |-> label].turn # u
        BY <4>1
      <4> QED
        BY <1>2, <1>5, <4>2, <4>3
    <3> QED
      BY <3>1
  <2>4. [turn |-> u, op |-> "admit"] \in wire' => quota'[u].status = "none"
    <3>1. [turn |-> u, op |-> "admit"] # [turn |-> t, op |-> label]
      OBVIOUS
    <3> QED
      BY <1>1, <1>2, <1>5, <3>1 DEF TurnsInStep
  <2>5. pc'[u] = "mark" /\ reply'[u] = "dispatched" => Sealed(u)'
    <3>1. u = t => reply'[u] = "none"
      BY <1>1, <1>2 DEF TurnTypeOK
    <3>2. u # t => reply'[u] = reply[u] /\ pc'[u] = pc[u]
      BY <1>1, <1>2, <2>1 DEF TurnTypeOK
    <3> QED
      BY <1>1, <1>3, <3>1, <3>2 DEF TurnsInStep
  <2>6. provider'[u] # "idle" => Sealed(u)'
    <3>1. provider'[u] = provider[u] \/ (u = t /\ pc[t] = "mark" /\ reply[t] = "dispatched")
      BY <1>1 DEF TurnTypeOK
    <3> QED
      BY <1>1, <1>3, <3>1 DEF TurnsInStep
  <2> QED
    BY <2>2, <2>3, <2>4, <2>5, <2>6
<1>7. TurnsInStep'
  BY <1>6 DEF TurnsInStep
<1> QED
  BY <1>3, <1>4, <1>7 DEF AdmissionInv

\* A request arrives, with no row yet.
LEMMA ArriveKeepsInv ==
  ASSUME AdmissionInv, NEW t \in Turns, Arrive(t)
  PROVE  AdmissionInv'
<1>1. /\ TurnTypeOK /\ TurnsInStep
      /\ quota[t].status = "none" /\ \A m \in wire : m.turn # t
  BY DEF AdmissionInv, TurnsInStep, Arrive
<1>2. PICK r \in Requests : ask' = [ask EXCEPT ![t] = r]
  BY DEF Arrive
<1>3. /\ pc' = [pc EXCEPT ![t] = "admit"] /\ reply' = [reply EXCEPT ![t] = "none"]
      /\ wire' = wire \cup {[turn |-> t, op |-> "admit"]}
      /\ Locally /\ UNCHANGED <<provider, cost, retryable>>
  BY DEF Arrive, Send, Goto
<1>4. quota' = quota
  BY <1>3 DEF Locally, dbVars
<1>5. \A u \in Turns : ask'[u] = ask[u] \/ quota[u].status = "none"
  BY <1>1, <1>2 DEF TurnTypeOK
<1>6. QuotaInv' /\ SiteInv' /\ \A u \in Turns : Sealed(u)' = Sealed(u)
  BY <1>3, <1>5, LocalKeepsTables
<1>7. TurnTypeOK'
  BY <1>1, <1>2, <1>3 DEF TurnTypeOK, Labels, Statuses
<1>8. TurnsInStep'
  <2>1. \A u \in Turns : u # t => pc'[u] = pc[u] /\ reply'[u] = reply[u] /\ ask'[u] = ask[u]
    BY <1>1, <1>2, <1>3 DEF TurnTypeOK
  <2>2. pc'[t] = "admit" /\ ask'[t] = r
    BY <1>1, <1>2, <1>3 DEF TurnTypeOK
  <2>3. ASSUME NEW u \in Turns, u # t
        PROVE  /\ pc'[u] # "idle" => ask'[u] \in Requests
               /\ pc'[u] = "idle" => quota'[u].status = "none" /\ \A n \in wire' : n.turn # u
               /\ [turn |-> u, op |-> "admit"] \in wire' => quota'[u].status = "none"
               /\ pc'[u] = "mark" /\ reply'[u] = "dispatched" => Sealed(u)'
               /\ provider'[u] # "idle" => Sealed(u)'
    <3>1. /\ [turn |-> u, op |-> "admit"] # [turn |-> t, op |-> "admit"]
          /\ [turn |-> t, op |-> "admit"].turn # u
      BY <2>3
    <3>2. pc'[u] = pc[u] /\ reply'[u] = reply[u] /\ ask'[u] = ask[u] /\ provider'[u] = provider[u]
      BY <1>3, <2>1, <2>3
    <3>3. pc'[u] = "idle" => \A n \in wire' : n.turn # u
      BY <1>1, <1>3, <3>1, <3>2 DEF TurnsInStep
    <3>4. [turn |-> u, op |-> "admit"] \in wire' => [turn |-> u, op |-> "admit"] \in wire
      BY <1>3, <3>1
    <3> QED
      BY <1>1, <1>4, <1>6, <3>2, <3>3, <3>4 DEF TurnsInStep
  <2>4. provider'[t] # "idle" => Sealed(t)'
    BY <1>1, <1>3, <1>6 DEF TurnsInStep
  <2>5. quota'[t].status = "none"
    BY <1>1, <1>4
  <2> QED
    BY <2>2, <2>3, <2>4, <2>5 DEF TurnsInStep
<1> QED
  BY <1>6, <1>7, <1>8 DEF AdmissionInv

\* The provider decides; its turn is sealed before and after.
LEMMA DecidesKeepsInv ==
  ASSUME AdmissionInv, NEW t \in Turns, Decides(t)
  PROVE  AdmissionInv'
<1>1. TurnTypeOK /\ TurnsInStep /\ provider[t] = "called"
  BY DEF AdmissionInv, Decides
<1>2. UNCHANGED <<dbVars, ask, pc, wire, reply, cost, retryable>>
  BY DEF Decides
<1>3. QuotaInv' /\ SiteInv' /\ \A u \in Turns : Sealed(u)' = Sealed(u)
  BY <1>2, LocalKeepsTables DEF Locally
<1>4. TurnTypeOK'
  BY <1>1, <1>2 DEF TurnTypeOK, Decides
<1>5. \A u \in Turns : provider'[u] # "idle" => provider[u] # "idle"
  BY <1>1 DEF Decides, TurnTypeOK
<1>6. TurnsInStep'
  BY <1>1, <1>2, <1>3, <1>5 DEF TurnsInStep, dbVars
<1> QED
  BY <1>3, <1>4, <1>6 DEF AdmissionInv

\* Each step of a handler that has arrived is one of those steps.
LEMMA HandlersKeepInv ==
  ASSUME AdmissionInv, NEW t \in Turns, Handler(t)
  PROVE  AdmissionInv'
<1>1. CASE Arrive(t)
  BY <1>1, ArriveKeepsInv
<1>2. CASE HearAdmit(t)
  BY <1>2, HandlerKeepsInv DEF HearAdmit, Hears, Fails, Send, Stay, GoesTo, Labels
<1>3. CASE HearHold(t)
  BY <1>3, HandlerKeepsInv DEF HearHold, Hears, Fails, Send, GoesTo, Labels
<1>4. CASE Invoke(t)
  BY <1>4, HandlerKeepsInv DEF Invoke, Hears, Stay, GoesTo, Labels
<1>5. CASE MarkFails(t)
  BY <1>5, HandlerKeepsInv DEF MarkFails, Fails, Send, GoesTo, Labels
<1>6. CASE SafeToRetry(t)
  BY <1>6, HandlerKeepsInv DEF SafeToRetry, Hears, Send, GoesTo, Labels
<1>7. CASE Evaluated(t)
  BY <1>7, HandlerKeepsInv DEF Evaluated, Send, GoesTo, Labels
<1>8. CASE Unclear(t)
  BY <1>8, HandlerKeepsInv DEF Unclear, Send, GoesTo, Labels
<1>9. CASE GoesOn(t)
  BY <1>9, HandlerKeepsInv DEF GoesOn, Hears, Send, Stay, GoesTo, Labels
<1> QED
  BY <1>1, <1>2, <1>3, <1>4, <1>5, <1>6, <1>7, <1>8, <1>9 DEF Handler

\* Another visitor's budget RPC, and the clock.
LEMMA EnvironmentKeepsInv ==
  ASSUME AdmissionInv, (\E now \in Starts : Visit(now)) \/ Tick
  PROVE  AdmissionInv'
<1>1. QuotaInv /\ SiteInv /\ TurnTypeOK /\ TurnsInStep
  BY DEF AdmissionInv
<1>2. CASE \E now \in Starts : Visit(now)
  <2>1. UNCHANGED <<quota, windows, late, clock, ask, turnVars>>
    BY <1>2 DEF Visit, OnlySite, turnVars
  <2>2. KeepsQuota /\ KeepsSite
    BY <1>1, <1>2, <2>1, QuietKeepsQuota, OnlySweepKeepsSite DEF Visit
  <2>3. \A u \in Turns : Sealed(u) => Sealed(u)'
    BY <2>2 DEF KeepsQuota, KeepsSite, Sealed
  <2>4. TurnTypeOK' /\ TurnsInStep'
    BY <1>1, <2>1, <2>3 DEF TurnTypeOK, TurnsInStep, turnVars
  <2> QED
    BY <2>2, <2>4 DEF AdmissionInv, KeepsQuota, KeepsSite
<1>3. CASE Tick
  <2>1. /\ UNCHANGED <<quota, windows, site, counters, late, ask, pc, wire, reply, provider, cost,
                       retryable>>
        /\ clock' = clock + 1 /\ clock < MaxTime
    BY <1>3 DEF Tick, turnVars
  <2>2. \A u \in Turns : RowMoves(u)
    BY <2>1 DEF RowMoves
  <2>3. clock' \in Times /\ clock <= clock'
    BY <1>1, <2>1, AdmissionAssumption DEF QuotaInv, QuotaTypeOK, Times
  <2>4. QuotaInv'
    BY <1>1, <2>1, <2>2, <2>3, MovesKeepQuota DEF QuotaInv, QuotaTypeOK, KeepsQuota
  <2>5. SiteInv'
    BY <1>1, <2>1 DEF SiteInv
  <2>6. TurnTypeOK' /\ TurnsInStep'
    BY <1>1, <2>1 DEF TurnTypeOK, TurnsInStep, Sealed
  <2> QED
    BY <2>4, <2>5, <2>6 DEF AdmissionInv
<1> QED
  BY <1>2, <1>3

\* The tables begin empty.
LEMMA AdmissionInit == Init => AdmissionInv
<1> SUFFICES ASSUME Init PROVE AdmissionInv
  OBVIOUS
<1>1. /\ CostCap \in Nat /\ Price \in Nat /\ MaxTime \in Nat /\ LimitOf \in [Buckets -> Nat]
  BY AdmissionAssumption
<1>2. 0 \in Times /\ 0 \in 0..CostCap
  BY <1>1 DEF Times
<1>3. QuotaInv
  <2>1. QuotaTypeOK
    BY <1>2 DEF Init, QuotaTypeOK, QuotaRow, NoTurn
  <2>2. \A t \in Turns : quota[t].status = "none"
    BY DEF Init, NoTurn
  <2>3. \A s \in Subjects : windows[s] = NoWindow
    BY DEF Init
  <2> QED
    BY <2>1, <2>2, <2>3
       DEF QuotaInv, RowsAreAsked, LiveRowsDiffer, Alive, RowsInWindows, PlacesWithinLimit
<1>4. SiteInv
  <2>1. NoHold \in SiteRow /\ NoCount \in Counter
    BY <1>2 DEF NoHold, SiteRow, NoCount, Counter
  <2>2. site \in [Turns -> SiteRow] /\ counters \in [Buckets -> Counter]
    BY <2>1 DEF Init
  <2>3. ASSUME NEW b \in Buckets
        PROVE  Matches(site, counters, b) /\ Committed(site, b) <= LimitOf[b]
    <3>1. Held(site, b) = {} /\ Charged(site, b) = {}
      BY DEF Init, Held, Charged, NoHold
    <3>2. /\ Cardinality(Held(site, b)) = 0 /\ Cardinality(Charged(site, b)) = 0
          /\ Total(Charged(site, b), Actual(site), CostCap) = 0
          /\ Total(Charged(site, b), CoveredOf(site), CostCap) = 0
      BY <1>1, <3>1, FS_EmptySet, TotalOfNone
    <3>3. counters[b] = [reserved |-> 0, actual |-> 0, count |-> 0]
      BY DEF Init, NoCount
    <3>4. Price * 0 = 0 /\ LimitOf[b] \in Nat
      BY <1>1
    <3> QED
      BY <3>2, <3>3, <3>4 DEF Matches, Committed
  <2> QED
    BY <2>2, <2>3 DEF SiteInv, Books
<1>5. TurnTypeOK
  BY <1>2 DEF Init, TurnTypeOK, Labels, NoAsk, Statuses
<1>6. TurnsInStep
  BY DEF Init, TurnsInStep, NoTurn
<1> QED
  BY <1>3, <1>4, <1>5, <1>6 DEF AdmissionInv

\* The inductive step, action by action.
LEMMA AdmissionNext == AdmissionInv /\ [Next]_vars => AdmissionInv'
<1> SUFFICES ASSUME AdmissionInv, [Next]_vars PROVE AdmissionInv'
  OBVIOUS
<1>1. CASE \E t \in Turns : Handler(t) \/ Decides(t)
  BY <1>1, HandlersKeepInv, DecidesKeepsInv
<1>2. CASE \E now \in Starts : Visit(now) \/ \E m \in wire : Serve(m, now)
  BY <1>2, ServeKeepsInv, EnvironmentKeepsInv
<1>3. CASE Tick
  BY <1>3, EnvironmentKeepsInv
<1>4. CASE UNCHANGED vars
  <2>1. UNCHANGED <<quota, windows, site, counters, clock, late,
                    ask, pc, wire, reply, provider, cost, retryable>>
    BY <1>4 DEF vars, dbVars, turnVars
  <2>2. /\ Locally /\ QuotaInv' /\ SiteInv'
        /\ \A u \in Turns : Sealed(u)' = Sealed(u)
    BY <2>1, LocalKeepsTables DEF Locally, dbVars
  <2>3. TurnTypeOK' /\ TurnsInStep'
    BY <2>1, <2>2 DEF AdmissionInv, TurnTypeOK, TurnsInStep
  <2> QED
    BY <2>2, <2>3 DEF AdmissionInv
<1> QED
  BY <1>1, <1>2, <1>3, <1>4 DEF Next

-----------------------------------------------------------------------------
(* The theorems.                                                           *)

\* The inductive invariant holds throughout.
THEOREM AdmissionSound == Spec => []AdmissionInv
BY AdmissionInit, AdmissionNext, PTL DEF Spec

\* The quota, the site's budget and the handlers keep their types.
THEOREM AdmissionTypes == Spec => []AdmissionTypeOK
<1>1. AdmissionInv => AdmissionTypeOK
  BY DEF AdmissionInv, AdmissionTypeOK, QuotaInv, SiteInv, Books
<1> QED
  BY <1>1, AdmissionSound, PTL

\* No lost answer, delayed release or expiry refunds either half of a turn the
\* provider may have billed.
THEOREM PaidStaysConsumed == Spec => []PaidIsConsumed
<1>1. AdmissionInv => PaidIsConsumed
  BY DEF AdmissionInv, TurnsInStep, Sealed, Bound, PaidIsConsumed, Paid
<1> QED
  BY <1>1, AdmissionSound, PTL

\* One principal pays one provider call for one text.
THEOREM RequestPaidOnce == Spec => []OneTurnPerRequest
<1>1. AdmissionInv => OneTurnPerRequest
  <2> SUFFICES ASSUME AdmissionInv, NEW t \in Turns, NEW u \in Turns, t # u, Paid(t), Paid(u),
                      ask[t].principal = ask[u].principal
               PROVE  ask[t].fp # ask[u].fp
    BY DEF OneTurnPerRequest
  <2>1. Sealed(t) /\ Sealed(u)
    BY DEF AdmissionInv, TurnsInStep, Paid
  <2>2. Alive(t) /\ Alive(u)
    BY <2>1 DEF Sealed, Alive, Consumed
  <2> QED
    BY <2>2 DEF AdmissionInv, QuotaInv, LiveRowsDiffer
<1> QED
  BY <1>1, AdmissionSound, PTL

\* The day's and the month's counters are the sums of the rows they admitted.
THEOREM SiteCountersExact == Spec => []SiteCountersMatchRows
<1>1. AdmissionInv => SiteCountersMatchRows
  <2> SUFFICES ASSUME AdmissionInv, NEW b \in Buckets
               PROVE  counters[b] = [reserved |-> Price * Cardinality(Held(site, b)),
                                     actual |-> Total(Charged(site, b), Actual(site), CostCap),
                                     count |-> Cardinality(Charged(site, b))]
    BY DEF SiteCountersMatchRows
  <2>1. counters[b] \in Counter /\ Matches(site, counters, b)
    BY DEF AdmissionInv, SiteInv, Books
  <2> QED
    BY <2>1 DEF Matches, Counter
<1> QED
  BY <1>1, AdmissionSound, PTL

\* What the site holds and charges for its visitors, each answer counted up to
\* its reservation, stays within its budgets.  Of the turns created in a
\* visitor's window no more than the limit are dispatched, but for those whose
\* marker committed after their lease: the code admits one too many there.
THEOREM LimitsHoldButForLateMarkers == Spec => []LimitsHold
<1>1. AdmissionInv => WindowWithinLimit
  <2> SUFFICES ASSUME AdmissionInv, NEW s \in Subjects, windows[s] # NoWindow
               PROVE  Cardinality({t \in InWindow(quota, s, windows[s]) \ late :
                                     quota[t].status \in Consumed}) <= Limit
    BY DEF WindowWithinLimit
  <2>1. Cardinality(Places(s)) <= Limit
    BY DEF AdmissionInv, QuotaInv, PlacesWithinLimit
  <2>2. {t \in InWindow(quota, s, windows[s]) \ late : quota[t].status \in Consumed}
          \subseteq Places(s) /\ Places(s) \subseteq Turns
    BY DEF Places, InWindow
  <2>3. Limit \in Nat
    BY AdmissionAssumption
  <2> QED
    BY <2>1, <2>2, <2>3, FewerTurns
<1>2. AdmissionInv => SiteWithinLimit
  BY DEF AdmissionInv, SiteInv, Books, Committed, SiteWithinLimit, CoveredOf, Covered
<1>3. AdmissionInv => LimitsHold
  BY <1>1, <1>2 DEF LimitsHold
<1> QED
  BY <1>3, AdmissionSound, PTL

\* The turns of a visitor's window, late ones included.
EveryTurnWithinLimit ==
  \A s \in Subjects :
    windows[s] # NoWindow =>
      Cardinality({t \in InWindow(quota, s, windows[s]) : quota[t].status \in Consumed}) <= Limit

\* Where no transaction waits for its lock, a marker reads the clock, and none
\* finds a lease alive that is over.
LEMMA PromptMarkers ==
  ASSUME LockWait = 0, AdmissionInv, [Next]_vars
  PROVE  late' = late
<1>1. /\ clock \in Nat /\ \A now \in Starts : now = clock
      /\ quota \in [Turns -> QuotaRow] /\ wire \subseteq [turn : Turns, op : Labels]
  BY AdmissionAssumption
  DEF AdmissionInv, QuotaInv, QuotaTypeOK, TurnTypeOK, Times, Starts
<1>2. ASSUME NEW now \in Starts, NEW m \in wire, Serve(m, now)
      PROVE  late' = late
  <2>1. quota[m.turn].expires \in Nat
    BY <1>1 DEF QuotaRow
  <2>2. CASE Mark(m, now)
    BY <1>1, <2>1, <2>2 DEF Mark, OnlySite
  <2>3. CASE ~Mark(m, now)
    BY <1>2, <2>3 DEF Serve, Admit, Hold, Finalize, Unhold, Complete, Unknown, GiveBack, Moves,
                      OnlyQuota, OnlySite
  <2> QED
    BY <2>2, <2>3
<1>3. ASSUME NEW t \in Turns, Handler(t) \/ Decides(t)
      PROVE  late' = late
  BY <1>3 DEF Handler, Arrive, HearAdmit, HearHold, Invoke, MarkFails, SafeToRetry, Evaluated,
              Unclear, GoesOn, Decides, Locally, dbVars
<1>4. CASE (\E now \in Starts : Visit(now)) \/ Tick \/ UNCHANGED vars
  BY <1>4 DEF Visit, OnlySite, Tick, vars, dbVars
<1> QED
  BY <1>2, <1>3, <1>4 DEF Next

\* Only a stale now() lets a window dispatch more than the limit: where no
\* transaction waits for its lock, no turn is excepted.
THEOREM PromptMarkersKeepEveryLimit ==
  ASSUME LockWait = 0
  PROVE  Spec => [](EveryTurnWithinLimit /\ SiteWithinLimit)
<1> DEFINE NoneLate == late = {}
<1>1. Init => NoneLate
  BY DEF Init
<1>2. AdmissionInv /\ NoneLate /\ [Next]_vars => NoneLate'
  BY PromptMarkers
<1>3. LimitsHold /\ NoneLate => EveryTurnWithinLimit /\ SiteWithinLimit
  <2> SUFFICES ASSUME LimitsHold, NoneLate, NEW s \in Subjects, windows[s] # NoWindow
               PROVE  Cardinality({t \in InWindow(quota, s, windows[s]) :
                                     quota[t].status \in Consumed}) <= Limit
    BY DEF EveryTurnWithinLimit, LimitsHold
  <2>1. InWindow(quota, s, windows[s]) \ late = InWindow(quota, s, windows[s])
    OBVIOUS
  <2> QED
    BY <2>1 DEF LimitsHold, WindowWithinLimit
<1> HIDE DEF NoneLate
<1> QED
  BY <1>1, <1>2, <1>3, AdmissionSound, LimitsHoldButForLateMarkers, PTL DEF Spec

------------------------------------------------------------------------------
(***************************************************************************)
(* The public interview, for any number of tabs, fetches, sessions, keys and *)
(* devices: a submission is graded for money once, and a page that says its *)
(* report is saved is right.                                               *)
(*                                                                         *)
(* The invariant says that a fetch which asks the provider is alone with its *)
(* turn, still unpaid (AsksOnce), that a turn paid for is never free again *)
(* (PaidIsOver), and that an answer on its way back which says its report was *)
(* saved is of one in the cloud (AnswerIsThere).                           *)
(***************************************************************************)

Sessions ==
  [id : Nat, status : {"none", "in_progress", "evaluating", "completed"}, revision : Nat,
   key : Nat, report : Nat]
Fetches ==
  [pc : {"idle", "sent", "mark", "ask", "record", "answered"}, tab : Tabs \cup {None},
   heard : {"page", "storage", "none"}, session : Sessions, device : Nat, minted : BOOLEAN,
   reply : {"none", "report", "terminal", "ai_failed", "other"}, saved : BOOLEAN]

\* A page, whose list may be any.
Codes == {"none", "terminal", "ai_failed", "other"}
Pages(listed) ==
  [open : BOOLEAN, session : Sessions, revision : Nat, listed : {listed},
   code : Codes, saved : BOOLEAN]
IsPage(p) == p \in Pages(p.listed)

InterviewTypes ==
  /\ stored \in Sessions
  /\ tab = [t \in Tabs |-> tab[t]] /\ \A t \in Tabs : IsPage(tab[t])
  /\ request \in [Slots -> Fetches]
  /\ cookie \in Nat /\ bank \in Nat
  /\ turn \in [General!TurnIds -> Slots \cup {"free", "dispatched", "settled"}]
  /\ paid \in [General!TurnIds -> Nat]
  /\ made \in [sessions : Nat, keys : Nat, devices : Nat]

\* The request that asks for a turn is its only one, and nobody has paid for it.
AsksOnce ==
  \A r \in Slots : General!At(r, "ask") /\ General!Turn(r) \in General!TurnIds =>
    /\ turn[General!Turn(r)] = "dispatched" /\ paid[General!Turn(r)] = 0
    /\ \A s \in Slots : General!At(s, "ask") /\ General!Turn(s) = General!Turn(r) => s = r

\* A turn that was paid for is not given back.
PaidIsOver ==
  \A p \in General!TurnIds : paid[p] = 0 \/ (paid[p] = 1 /\ turn[p] \in {"dispatched", "settled"})

\* An answer that says its report was saved.
AnswerIsThere ==
  \A r \in Slots : General!At(r, "answered") /\ request[r].reply = "report" /\ request[r].saved =>
    General!Attempt(r, "completed") \in cloud

\* A page that says its report was saved.
SavedAreThere ==
  \A t \in Tabs : tab[t].saved =>
    [session |-> tab[t].session.id, key |-> tab[t].session.report, status |-> "completed"] \in cloud

InterviewSafe == InterviewTypes /\ AsksOnce /\ PaidIsOver /\ AnswerIsThere /\ SavedAreThere

\* No session, no request and no page are of their types.
LEMMA IdleRequest ==
  /\ General!NoSession \in Sessions /\ General!Idle \in Fetches /\ General!Idle.pc = "idle"
  /\ IsPage(General!Closed) /\ General!Closed.saved = FALSE
<1>1. General!NoSession \in Sessions
  BY DEF General!NoSession, Sessions
<1>2. QED
  BY <1>1 DEF General!Idle, Fetches, General!Closed, IsPage, Pages, Codes

\* Nothing is sent and no turn is taken.
LEMMA InterviewInit == ASSUME General!Init PROVE InterviewSafe
<1>1. /\ stored = General!NoSession /\ tab = [t \in Tabs |-> General!Closed]
      /\ request = [r \in Slots |-> General!Idle]
      /\ turn = [p \in General!TurnIds |-> "free"] /\ paid = [p \in General!TurnIds |-> 0]
      /\ bank = 1
  BY DEF General!Init
<1>2. cookie \in Nat /\ made \in [sessions : Nat, keys : Nat, devices : Nat]
  BY DEF General!Init
<1>3. InterviewTypes
  BY <1>1, <1>2, IdleRequest DEF InterviewTypes
<1>4. AsksOnce /\ PaidIsOver /\ AnswerIsThere /\ SavedAreThere
  BY <1>1, IdleRequest DEF AsksOnce, PaidIsOver, AnswerIsThere, SavedAreThere, General!At
<1>5. QED
  BY <1>3, <1>4 DEF InterviewSafe

------------------------------------------------------------------------------
(* The browser.                                                             *)

\* What a request asks for, and how far it is, is not changed by its page.
SameRequest(r) ==
  /\ request'[r].pc = request[r].pc /\ request'[r].session = request[r].session
  /\ request'[r].device = request[r].device /\ request'[r].reply = request[r].reply
  /\ request'[r].saved = request[r].saved

\* A step of the browser: the requests ask for what they did, and no page says more of the cloud.
LEMMA BrowserKeeps ==
  ASSUME InterviewSafe, InterviewTypes', UNCHANGED <<turn, cloud, paid>>,
         \A r \in Slots : SameRequest(r) \/ request'[r].pc \in {"idle", "sent"},
         \A t \in Tabs : tab'[t].saved =>
           [session |-> tab'[t].session.id, key |-> tab'[t].session.report,
               status |-> "completed"] \in cloud
  PROVE  InterviewSafe'
<1>1. AsksOnce /\ PaidIsOver /\ AnswerIsThere
  BY DEF InterviewSafe
<1>2. \A r \in Slots : General!At(r, "ask")' => General!At(r, "ask")
          /\ General!Turn(r)' = General!Turn(r)
  BY DEF General!At, General!Turn, General!Key, SameRequest
<1>3. \A r \in Slots : General!At(r, "answered")' =>
        /\ General!At(r, "answered")
        /\ General!Attempt(r, "completed")' = General!Attempt(r, "completed")
        /\ request'[r].reply = request[r].reply /\ request'[r].saved = request[r].saved
  BY DEF General!At, General!Attempt, General!Key, SameRequest
<1>4. AsksOnce' /\ PaidIsOver'
  BY <1>1, <1>2 DEF AsksOnce, PaidIsOver
<1>5. AnswerIsThere'
  BY <1>1, <1>3 DEF AnswerIsThere
<1>6. SavedAreThere'
  BY DEF SavedAreThere
<1>7. QED
  BY <1>4, <1>5, <1>6 DEF InterviewSafe

\* A tab's page is replaced by one that says nothing of the cloud, or what it said.
LEMMA TabPage ==
  ASSUME InterviewSafe, NEW t \in Tabs, NEW newPage, IsPage(newPage),
         tab' = [tab EXCEPT ![t] = newPage],
         newPage.saved => [session |-> newPage.session.id, key |-> newPage.session.report,
                        status |-> "completed"] \in cloud
  PROVE  /\ tab' = [u \in Tabs |-> tab'[u]] /\ \A u \in Tabs : IsPage(tab'[u])
         /\ \A u \in Tabs : tab'[u].saved =>
              [session |-> tab'[u].session.id, key |-> tab'[u].session.report,
                  status |-> "completed"] \in cloud
<1>1. tab = [u \in Tabs |-> tab[u]] /\ (\A u \in Tabs : IsPage(tab[u])) /\ SavedAreThere
  BY DEF InterviewSafe, InterviewTypes
<1>2. \A u \in Tabs : tab'[u] = IF u = t THEN newPage ELSE tab[u]
  BY <1>1
<1>3. tab' = [u \in Tabs |-> tab'[u]]
  BY <1>1
<1>4. QED
  BY <1>1, <1>2, <1>3 DEF SavedAreThere

\* The page of a session that a tab goes on with.
LEMMA NextPage ==
  ASSUME InterviewSafe, NEW t \in Tabs, NEW session \in Sessions,
         NEW code \in Codes, General!Page(t, session, code)
  PROVE  \E newPage : IsPage(newPage) /\ ~ newPage.saved /\ tab' = [tab EXCEPT ![t] = newPage]
<1>1. tab = [u \in Tabs |-> tab[u]] /\ IsPage(tab[t])
  BY DEF InterviewSafe, InterviewTypes
<1> DEFINE newPage == [tab[t] EXCEPT !.session = session, !.code = code, !.saved = FALSE]
<1>2. tab' = [tab EXCEPT ![t] = newPage]
  BY <1>1 DEF General!Page
<1>3. newPage \in Pages(tab[t].listed) /\ ~ newPage.saved /\ newPage.listed = tab[t].listed
  BY <1>1 DEF IsPage, Pages
<1> HIDE DEF newPage
<1>4. QED
  BY <1>2, <1>3 DEF IsPage

\* A request is sent with the session of its page.
LEMMA SentRequest ==
  ASSUME InterviewSafe, NEW t \in Tabs, NEW session \in Sessions, General!Send(t, session)
  PROVE  /\ request' \in [Slots -> Fetches]
         /\ \A r \in Slots : SameRequest(r) \/ request'[r].pc = "sent"
<1>1. request \in [Slots -> Fetches] /\ cookie \in Nat
  BY DEF InterviewSafe, InterviewTypes
<1> DEFINE sending == [General!Idle EXCEPT !.pc = "sent", !.tab = t, !.heard = "page",
               !.session = session, !.device = cookie]
<1>2. sending \in Fetches /\ sending.pc = "sent"
  BY <1>1, IdleRequest DEF Fetches
<1>3. PICK r \in Slots : request' = [request EXCEPT ![r] = sending]
  BY DEF General!Send
<1> HIDE DEF sending
<1>4. QED
  BY <1>1, <1>2, <1>3 DEF SameRequest

\* A page goes on with a session of its own.
LEMMA SessionKeeps ==
  ASSUME InterviewSafe, NEW t \in Tabs, NEW session \in Sessions,
         NEW code \in Codes, General!Page(t, session, code),
         stored' \in Sessions, UNCHANGED <<cookie, turn, cloud, bank, paid>>,
         made' \in [sessions : Nat, keys : Nat, devices : Nat],
         request' = request \/ General!Send(t, session)
  PROVE  InterviewSafe'
<1>1. PICK newPage : IsPage(newPage) /\ ~ newPage.saved /\ tab' = [tab EXCEPT ![t] = newPage]
  BY NextPage
<1>2. /\ tab' = [u \in Tabs |-> tab'[u]] /\ \A u \in Tabs : IsPage(tab'[u])
      /\ \A u \in Tabs : tab'[u].saved =>
           [session |-> tab'[u].session.id, key |-> tab'[u].session.report,
               status |-> "completed"] \in cloud
  BY <1>1, TabPage
<1>3. InterviewTypes
  BY DEF InterviewSafe
<1>4. /\ request' \in [Slots -> Fetches]
      /\ \A r \in Slots : SameRequest(r) \/ request'[r].pc \in {"idle", "sent"}
  <2>1. CASE request' = request
    BY <1>3, <2>1 DEF InterviewTypes, SameRequest
  <2>2. CASE General!Send(t, session)
    BY <2>2, SentRequest
  <2>3. QED
    BY <2>1, <2>2
<1>5. (\A u \in Tabs : IsPage(tab[u]))'
  BY <1>2 DEF IsPage, Pages
<1>6. InterviewTypes'
  BY <1>2, <1>3, <1>4, <1>5 DEF InterviewTypes
<1>7. QED
  BY <1>2, <1>4, <1>6, BrowserKeeps

\* A page starts, writes, submits, retries, edits again or resets.
LEMMA TabKeeps ==
  ASSUME InterviewSafe, NEW t \in Tabs,
         General!Start(t) \/ General!Write(t) \/ General!Submit(t) \/ General!Retry(t)
             \/ General!EditAgain(t) \/ General!Reset(t)
  PROVE  InterviewSafe'
<1>1. /\ tab[t].session \in Sessions /\ tab[t].revision \in Nat /\ stored \in Sessions
      /\ made \in [sessions : Nat, keys : Nat, devices : Nat]
      /\ tab[t].code \in Codes
  BY DEF InterviewSafe, InterviewTypes, IsPage, Pages
<1>2. made.sessions + 1 \in Nat /\ made.keys + 1 \in Nat
  BY <1>1
<1>3. CASE General!Start(t)
  <2> DEFINE session == [General!NoSession EXCEPT !.id = made.sessions + 1,
                 !.status = "in_progress",
                                          !.revision = tab[t].revision]
  <2>1. session \in Sessions
    BY <1>1, <1>2, IdleRequest DEF Sessions
  <2>2. made' \in [sessions : Nat, keys : Nat, devices : Nat]
    BY <1>1, <1>2, <1>3 DEF General!Start
  <2>3. stored' = session /\ General!Page(t, session, "none") /\ UNCHANGED <<request, cookie, turn,
            cloud, bank, paid>>
    BY <1>3 DEF General!Start, General!Saves
  <2> HIDE DEF session
  <2>4. QED
    BY <2>1, <2>2, <2>3, SessionKeeps DEF Codes
<1>4. CASE General!Write(t)
  <2>1. /\ stored' = tab[t].session /\ General!Page(t, tab[t].session, tab[t].code)
        /\ UNCHANGED <<request, cookie, turn, cloud, bank, paid, made>>
    BY <1>4 DEF General!Write, General!Saves
  <2>2. QED
    BY <1>1, <2>1, SessionKeeps DEF Codes
<1>5. CASE General!Submit(t)
  <2> DEFINE session == [tab[t].session EXCEPT !.status = "evaluating", !.key = made.keys + 1]
  <2>1. session \in Sessions
    BY <1>1, <1>2 DEF Sessions
  <2>2. made' \in [sessions : Nat, keys : Nat, devices : Nat]
    BY <1>1, <1>2, <1>5 DEF General!Submit
  <2>3. /\ stored' = session /\ General!Page(t, session, "none") /\ General!Send(t, session)
        /\ UNCHANGED <<cookie, turn, cloud, bank, paid>>
    BY <1>5 DEF General!Submit, General!Saves
  <2> HIDE DEF session
  <2>4. QED
    BY <2>1, <2>2, <2>3, SessionKeeps DEF Codes
<1>6. CASE General!Retry(t)
  <2>1. /\ General!Page(t, tab[t].session, "none") /\ General!Send(t, tab[t].session)
        /\ UNCHANGED <<stored, cookie, turn, cloud, bank, paid, made>>
    BY <1>6 DEF General!Retry
  <2>2. QED
    BY <1>1, <2>1, SessionKeeps DEF Codes
<1>7. CASE General!EditAgain(t)
  <2> DEFINE session == [tab[t].session EXCEPT !.status = "in_progress", !.key = 0]
  <2>1. session \in Sessions
    BY <1>1 DEF Sessions
  <2>2. /\ stored' = session /\ General!Page(t, session, "none")
        /\ UNCHANGED <<request, cookie, turn, cloud, bank, paid, made>>
    BY <1>7 DEF General!EditAgain, General!Saves
  <2> HIDE DEF session
  <2>3. QED
    BY <1>1, <2>1, <2>2, SessionKeeps DEF Codes
<1>8. CASE General!Reset(t)
  <2>1. /\ stored' = General!NoSession /\ General!Page(t, General!NoSession, "none")
        /\ UNCHANGED <<request, cookie, turn, cloud, bank, paid, made>>
    BY <1>8 DEF General!Reset, General!Saves
  <2>2. QED
    BY <1>1, <2>1, IdleRequest, SessionKeeps DEF Codes
<1>9. QED
  BY <1>3, <1>4, <1>5, <1>6, <1>7, <1>8

\* A page opens the stored session.
LEMMA PageOpens ==
  ASSUME InterviewSafe, NEW t \in Tabs, General!Open(t)
  PROVE  InterviewSafe'
<1>1. InterviewTypes
  BY DEF InterviewSafe
<1> DEFINE session == IF General!Restores THEN stored ELSE General!NoSession
           newPage == [General!Closed EXCEPT !.open = TRUE, !.session = session, !.revision = bank,
               !.listed = history,
                                  !.code = IF session.status = "evaluating" THEN "other" ELSE "none"]
<1>2. session \in Sessions
  BY <1>1, IdleRequest DEF InterviewTypes
<1>3. /\ stored' = session /\ tab' = [tab EXCEPT ![t] = newPage]
      /\ UNCHANGED <<request, cookie, turn, cloud, bank, paid, made>>
  BY DEF General!Open
<1> HIDE DEF session
<1>4. IsPage(newPage) /\ ~ newPage.saved
  BY <1>1, <1>2 DEF IsPage, Pages, Codes, General!Closed, InterviewTypes
<1> HIDE DEF newPage
<1>5. /\ tab' = [u \in Tabs |-> tab'[u]] /\ \A u \in Tabs : IsPage(tab'[u])
      /\ \A u \in Tabs : tab'[u].saved =>
           [session |-> tab'[u].session.id, key |-> tab'[u].session.report,
               status |-> "completed"] \in cloud
  BY <1>3, <1>4, TabPage
<1>6. (\A u \in Tabs : IsPage(tab[u]))'
  BY <1>5 DEF IsPage, Pages
<1>7. InterviewTypes'
  BY <1>1, <1>2, <1>3, <1>5, <1>6 DEF InterviewTypes
<1>8. \A r \in Slots : SameRequest(r)
  BY <1>3 DEF SameRequest
<1>9. QED
  BY <1>3, <1>5, <1>7, <1>8, BrowserKeeps

\* A page is left; its requests go on or end.
LEMMA LeaveKeeps ==
  ASSUME InterviewSafe, NEW t \in Tabs, General!Leave(t)
  PROVE  InterviewSafe'
<1>1. InterviewTypes
  BY DEF InterviewSafe
<1>2. PICK heard \in {"storage", "none"} :
        request' = [r \in Slots |->
          CASE request[r].heard # "page" \/ request[r].tab # t -> request[r]
            [] request[r].heard = "page" /\ request[r].tab = t /\ heard = "none"
                /\ General!At(r, "answered")
                 -> General!Idle
            [] OTHER -> [request[r] EXCEPT !.heard = heard]]
  BY DEF General!Leave
<1>3. ASSUME NEW r \in Slots
      PROVE  request'[r] \in Fetches /\ (SameRequest(r) \/ request'[r].pc = "idle")
  <2>1. request[r] \in Fetches
    BY <1>1 DEF InterviewTypes
  <2>2. request'[r] \in {request[r], General!Idle, [request[r] EXCEPT !.heard = heard]}
    BY <1>2
  <2>3. QED
    BY <2>1, <2>2, IdleRequest DEF SameRequest, Fetches
<1>4. request' \in [Slots -> Fetches]
  BY <1>2, <1>3
<1>5. tab' = [tab EXCEPT ![t] = General!Closed] /\ UNCHANGED <<stored, cookie, turn, cloud, bank,
          paid, made>>
  BY DEF General!Leave
<1>6. /\ tab' = [u \in Tabs |-> tab'[u]] /\ \A u \in Tabs : IsPage(tab'[u])
      /\ \A u \in Tabs : tab'[u].saved =>
           [session |-> tab'[u].session.id, key |-> tab'[u].session.report,
               status |-> "completed"] \in cloud
  BY <1>5, IdleRequest, TabPage
<1>7. (\A u \in Tabs : IsPage(tab[u]))'
  BY <1>6 DEF IsPage, Pages
<1>8. InterviewTypes'
  BY <1>1, <1>4, <1>5, <1>6, <1>7 DEF InterviewTypes
<1>9. QED
  BY <1>3, <1>5, <1>6, <1>8, BrowserKeeps

\* A report is shown with what the answer says of the cloud.
LEMMA HearKeeps ==
  ASSUME InterviewSafe, NEW r \in Slots, General!Hear(r)
  PROVE  InterviewSafe'
<1>1. InterviewTypes /\ AnswerIsThere /\ SavedAreThere /\ request[r] \in Fetches
  BY DEF InterviewSafe, InterviewTypes
<1> DEFINE q == request[r]
           t == q.tab
           session == General!Completed(q.session)
<1>2. /\ q.session \in Sessions /\ session \in Sessions /\ session.id = q.session.id
      /\ session.report = q.session.key
  BY <1>1 DEF Fetches, General!Completed, Sessions
<1>3. /\ q.pc = "answered" /\ request' = [request EXCEPT ![r] = General!Idle]
      /\ cookie' \in {q.device, cookie}
      /\ UNCHANGED <<turn, cloud, bank, paid, made>>
  BY DEF General!Hear
<1>4. request' \in [Slots -> Fetches] /\ \A s \in Slots : SameRequest(s) \/ request'[s].pc = "idle"
  BY <1>1, <1>3, IdleRequest DEF InterviewTypes, SameRequest
<1>5. stored' \in Sessions /\ cookie' \in Nat /\ q.device \in Nat
  BY <1>1, <1>2, <1>3 DEF General!Hear, InterviewTypes, Fetches
<1>6. /\ tab' = [u \in Tabs |-> tab'[u]] /\ \A u \in Tabs : IsPage(tab'[u])
      /\ \A u \in Tabs : tab'[u].saved =>
           [session |-> tab'[u].session.id, key |-> tab'[u].session.report,
               status |-> "completed"] \in cloud
  <2>1. CASE tab' = tab
    BY <1>1, <2>1 DEF InterviewTypes, SavedAreThere
  <2>2. CASE t \in Tabs /\ q.reply = "report" /\ q.heard = "page" /\ tab' # tab
    <3> DEFINE newPage == [tab[t] EXCEPT !.session = session, !.listed = history', !.code = "none",
                   !.saved = q.saved]
    <3>1. tab = [u \in Tabs |-> tab[u]] /\ IsPage(tab[t])
      BY <1>1, <2>2 DEF InterviewTypes
    <3>2. tab' = [tab EXCEPT ![t].session = session, ![t].listed = history', ![t].code = "none",
                             ![t].saved = q.saved]
      BY <2>2 DEF General!Hear
    <3>3. tab' = [tab EXCEPT ![t] = newPage]
      BY <2>2, <3>1, <3>2
    <3>4. q.saved \in BOOLEAN
      BY <1>1 DEF Fetches
    <3> HIDE DEF session
    <3>5. newPage \in Pages(history') /\ newPage.listed = history' /\ newPage.session = session
              /\ newPage.saved = q.saved
      BY <1>2, <3>1, <3>4 DEF IsPage, Pages, Codes
    <3> HIDE DEF newPage
    <3>6. q.saved => General!Attempt(r, "completed") \in cloud
      BY <1>1, <1>3, <2>2 DEF AnswerIsThere, General!At
    <3>7. newPage.saved
              => [session |-> newPage.session.id, key |-> newPage.session.report,
                  status |-> "completed"] \in cloud
      BY <1>2, <3>5, <3>6 DEF General!Attempt, General!Key
    <3>8. QED
      BY <2>2, <3>3, <3>5, <3>7, TabPage DEF IsPage
  <2>3. CASE t \in Tabs /\ q.reply # "report" /\ q.heard = "page" /\ tab' # tab
    <3> DEFINE newPage == [tab[t] EXCEPT !.code = q.reply]
    <3>1. tab = [u \in Tabs |-> tab[u]] /\ IsPage(tab[t])
      BY <1>1, <2>3 DEF InterviewTypes
    <3>2. tab' = [tab EXCEPT ![t] = newPage]
      BY <2>3, <3>1 DEF General!Hear
    <3>3. q.reply \in Codes
      BY <1>1, <2>3 DEF Fetches, Codes
    <3>4. /\ newPage \in Pages(tab[t].listed) /\ newPage.listed = tab[t].listed
          /\ newPage.session = tab[t].session /\ newPage.saved = tab[t].saved
      BY <3>1, <3>3 DEF IsPage, Pages
    <3> HIDE DEF newPage
    <3>5. newPage.saved
              => [session |-> newPage.session.id, key |-> newPage.session.report,
                  status |-> "completed"] \in cloud
      BY <1>1, <2>3, <3>4 DEF SavedAreThere
    <3>6. QED
      BY <2>3, <3>2, <3>4, <3>5, TabPage DEF IsPage
  <2>4. ASSUME t \notin Tabs PROVE tab' = tab
    BY <1>1, <2>4 DEF General!Hear, InterviewTypes
  <2>5. ASSUME q.heard # "page" PROVE tab' = tab
    BY <2>5 DEF General!Hear
  <2>6. QED
    BY <2>1, <2>2, <2>3, <2>4, <2>5
<1>7. (\A u \in Tabs : IsPage(tab[u]))'
  BY <1>6 DEF IsPage, Pages
<1>8. InterviewTypes'
  BY <1>1, <1>3, <1>4, <1>5, <1>6, <1>7 DEF InterviewTypes
<1>9. QED
  BY <1>3, <1>4, <1>6, <1>8, BrowserKeeps

------------------------------------------------------------------------------
(* The server.                                                              *)

\* What is left of the request when it is answered.
AnsweredAs(r, q) == q \in Fetches /\ request' = [request EXCEPT ![r] = q]
    /\ q.pc \in {"idle", "answered"}

\* An answer without a report.
LEMMA AnswerRequest ==
  ASSUME InterviewSafe, NEW r \in Slots, NEW code \in {"terminal", "ai_failed", "other"},
         General!Answer(r, code)
  PROVE  \E q \in Fetches : AnsweredAs(r, q) /\ q.reply # "report"
<1>1. request[r] \in Fetches
  BY DEF InterviewSafe, InterviewTypes
<1> DEFINE answered == [request[r] EXCEPT !.pc = "answered", !.reply = code]
<1>2. answered \in Fetches /\ answered.pc = "answered" /\ answered.reply # "report"
  BY <1>1 DEF Fetches
<1>3. \/ request' = [request EXCEPT ![r] = General!Idle]
           \/ request' = [request EXCEPT ![r] = answered]
  BY DEF General!Answer
<1>4. General!Idle.reply # "report"
  BY DEF General!Idle
<1> HIDE DEF answered
<1>5. QED
  BY <1>2, <1>3, <1>4, IdleRequest DEF AnsweredAs

\* An answer with one.
LEMMA ReportRequest ==
  ASSUME InterviewSafe, NEW r \in Slots, NEW isSaved \in BOOLEAN, General!Report(r, isSaved)
  PROVE  \E q \in Fetches : AnsweredAs(r, q)
             /\ (q.pc = "idle" \/ (q.saved = isSaved /\ q.session = request[r].session))
<1>1. request[r] \in Fetches
  BY DEF InterviewSafe, InterviewTypes
<1> DEFINE answered == [request[r] EXCEPT !.pc = "answered", !.reply = "report", !.saved = isSaved]
<1>2. /\ answered \in Fetches /\ answered.pc = "answered" /\ answered.saved = isSaved
      /\ answered.session = request[r].session
  BY <1>1 DEF Fetches
<1>3. \/ request' = [request EXCEPT ![r] = General!Idle]
           \/ request' = [request EXCEPT ![r] = answered]
  BY DEF General!Report
<1> HIDE DEF answered
<1>4. QED
  BY <1>2, <1>3, IdleRequest DEF AnsweredAs

\* A step of a request that does not come to ask: every turn is as it was, or
\* nobody has paid for it, or it is the one that this request pays for.
LEMMA ServerKeeps ==
  ASSUME General!InterviewAssumption, InterviewSafe, NEW r \in Slots, NEW q \in Fetches,
         request' = [request EXCEPT ![r] = q], General!Server, cloud \subseteq cloud', q.pc # "ask",
         made' \in [sessions : Nat, keys : Nat, devices : Nat],
         turn' \in [General!TurnIds -> Slots \cup {"free", "dispatched", "settled"}],
             paid' \in [General!TurnIds -> Nat],
         q.pc = "answered" /\ q.reply = "report" /\ q.saved =>
           [session |-> q.session.id, key |-> q.session.key, status |-> "completed"] \in cloud',
         \A p \in General!TurnIds :
           \/ turn'[p] = turn[p] /\ paid'[p] = paid[p]
           \/ turn[p] \notin {"dispatched", "settled"} /\ paid'[p] = paid[p]
           \/ /\ p = General!Turn(r) /\ General!At(r, "ask")
              /\ turn'[p] \in {"dispatched", "settled"}
              /\ paid'[p] \in {paid[p], paid[p] + 1}
  PROVE  InterviewSafe'
<1>1. InterviewTypes /\ AsksOnce /\ PaidIsOver /\ AnswerIsThere /\ SavedAreThere
  BY DEF InterviewSafe
<1>2. request'[r] = q /\ \A s \in Slots : s # r => request'[s] = request[s]
  BY <1>1 DEF InterviewTypes
<1>3. InterviewTypes'
  <2>1. stored' \in Sessions /\ cookie' \in Nat /\ bank' \in Nat /\ request' \in [Slots -> Fetches]
    BY <1>1 DEF InterviewTypes, General!Server
  <2>2. (tab = [t \in Tabs |-> tab[t]])' /\ (\A t \in Tabs : IsPage(tab[t]))'
    BY <1>1 DEF InterviewTypes, General!Server, IsPage, Pages
  <2>3. QED
    BY <2>1, <2>2 DEF InterviewTypes
<1>4. \A s \in Slots : General!At(s, "ask")' => s # r /\ General!At(s, "ask")
          /\ General!Turn(s)' = General!Turn(s)
  BY <1>2 DEF General!At, General!Turn, General!Key
<1>5. ASSUME NEW s \in Slots, General!At(s, "ask"), General!Turn(s) \in General!TurnIds, s # r
      PROVE  turn'[General!Turn(s)] = "dispatched" /\ paid'[General!Turn(s)] = 0
  <2>1. turn[General!Turn(s)] = "dispatched" /\ paid[General!Turn(s)] = 0
    BY <1>1, <1>5 DEF AsksOnce
  <2>2. ~ (General!Turn(s) = General!Turn(r) /\ General!At(r, "ask"))
    BY <1>1, <1>5 DEF AsksOnce
  <2>3. QED
    BY <1>5, <2>1, <2>2
<1>6. AsksOnce'
  BY <1>1, <1>4, <1>5 DEF AsksOnce
<1>7. PaidIsOver'
  <2> SUFFICES ASSUME NEW p \in General!TurnIds
               PROVE  paid'[p] = 0 \/ (paid'[p] = 1 /\ turn'[p] \in {"dispatched", "settled"})
    BY DEF PaidIsOver
  <2>1. paid[p] = 0 \/ (paid[p] = 1 /\ turn[p] \in {"dispatched", "settled"})
    BY <1>1 DEF PaidIsOver
  <2>2. CASE /\ p = General!Turn(r) /\ General!At(r, "ask")
             /\ turn'[p] \in {"dispatched", "settled"}
             /\ paid'[p] \in {paid[p], paid[p] + 1}
    <3>1. paid[p] = 0
      BY <1>1, <2>2 DEF AsksOnce
    <3>2. QED
      BY <2>2, <3>1
  <2>3. QED
    BY <2>1, <2>2
<1>8. AnswerIsThere'
  <2> SUFFICES ASSUME NEW s \in Slots, General!At(s, "answered")', request'[s].reply = "report",
                   request'[s].saved
               PROVE  General!Attempt(s, "completed")' \in cloud'
    BY DEF AnswerIsThere
  <2>1. CASE s = r
    BY <1>2, <2>1 DEF General!At, General!Attempt, General!Key
  <2>2. CASE s # r
    <3>1. General!At(s, "answered") /\ request[s].reply = "report" /\ request[s].saved
          /\ General!Attempt(s, "completed")' = General!Attempt(s, "completed")
      BY <1>2, <2>2 DEF General!At, General!Attempt, General!Key
    <3>2. QED
      BY <1>1, <3>1 DEF AnswerIsThere
  <2>3. QED
    BY <2>1, <2>2
<1>9. SavedAreThere'
  BY <1>1 DEF SavedAreThere, General!Server
<1>10. QED
  BY <1>3, <1>6, <1>7, <1>8, <1>9 DEF InterviewSafe

\* A turn is taken, or refused.
LEMMA AdmitKeeps ==
  ASSUME General!InterviewAssumption, InterviewSafe, NEW r \in Slots, General!Admit(r)
  PROVE  InterviewSafe'
<1> DEFINE device == General!Device(r)
           p == <<device, General!Key(r)>>
           admitted == [request[r] EXCEPT !.pc = "mark", !.device = device,
               !.minted = (request[r].device = 0)]
<1>1. /\ InterviewTypes /\ request[r] \in Fetches
      /\ turn \in [General!TurnIds -> Slots \cup {"free", "dispatched", "settled"}]
      /\ paid \in [General!TurnIds -> Nat]
      /\ made \in [sessions : Nat, keys : Nat, devices : Nat]
  BY DEF InterviewSafe, InterviewTypes
<1>2. device \in Nat
  BY DEF General!Admit, General!Principals
<1>3. admitted \in Fetches /\ admitted.pc = "mark"
  <2>1. (request[r].device = 0) \in BOOLEAN
    OBVIOUS
  <2> HIDE DEF device
  <2>2. QED
    BY <1>1, <1>2, <2>1 DEF Fetches
<1>4. UNCHANGED <<cloud, paid>> /\ General!Server
  BY DEF General!Admit
<1>5. \/ UNCHANGED <<turn, made>>
      \/ /\ turn[p] = "free" /\ turn' = [turn EXCEPT ![p] = r]
         /\ made' = [made EXCEPT !.devices = IF device > @ THEN device ELSE @]
  BY DEF General!Admit
<1>6. /\ made' \in [sessions : Nat, keys : Nat, devices : Nat]
      /\ turn' \in [General!TurnIds -> Slots \cup {"free", "dispatched", "settled"}]
      /\ \A i \in General!TurnIds : turn'[i] = turn[i] \/ turn[i] = "free"
  <2> HIDE DEF device
  <2>1. QED
    BY <1>1, <1>2, <1>5
<1>7. PICK q \in Fetches : /\ request' = [request EXCEPT ![r] = q] /\ q.pc # "ask"
                           /\ q.pc = "mark" \/ q.reply # "report"
  <2>1. \/ request' = [request EXCEPT ![r] = admitted]
        \/ \E code \in {"terminal", "other"} : General!Answer(r, code)
    <3>1. request' = [request EXCEPT ![r].pc = "mark", ![r].device = device,
                                             ![r].minted = (request[r].device = 0)]
            => request' = [request EXCEPT ![r] = admitted]
      BY <1>1 DEF InterviewTypes
    <3>2. QED
      BY <3>1 DEF General!Admit
  <2>2. CASE request' = [request EXCEPT ![r] = admitted]
    BY <1>3, <2>2
  <2>3. CASE \E code \in {"terminal", "other"} : General!Answer(r, code)
    BY <2>3, AnswerRequest DEF AnsweredAs
  <2>4. QED
    BY <2>1, <2>2, <2>3
<1>8. \A i \in General!TurnIds : \/ turn'[i] = turn[i] /\ paid'[i] = paid[i]
                                 \/ turn[i] \notin {"dispatched", "settled"} /\ paid'[i] = paid[i]
  BY <1>4, <1>6
<1>9. QED
  BY <1>1, <1>4, <1>6, <1>7, <1>8, ServerKeeps

\* A turn that is given back was not dispatched.
LEMMA GivenBack ==
  ASSUME General!InterviewAssumption, InterviewSafe, NEW r \in Slots, General!GivesBack(r),
         paid' = paid
  PROVE  /\ turn' \in [General!TurnIds -> Slots \cup {"free", "dispatched", "settled"}]
         /\ \A i \in General!TurnIds : \/ turn'[i] = turn[i] /\ paid'[i] = paid[i]
                                       \/ turn[i] \notin {"dispatched", "settled"}
                                            /\ paid'[i] = paid[i]
<1>1. turn \in [General!TurnIds -> Slots \cup {"free", "dispatched", "settled"}]
  BY DEF InterviewSafe, InterviewTypes
<1>2. r \notin {"free", "dispatched", "settled"}
  BY DEF General!InterviewAssumption
<1>3. turn' = turn
          \/ (turn[General!Turn(r)] = r /\ turn' = [turn EXCEPT ![General!Turn(r)] = "free"])
  BY DEF General!GivesBack
<1>4. QED
  BY <1>1, <1>2, <1>3

\* The turn is marked dispatched, or given back.
LEMMA MarkKeeps ==
  ASSUME General!InterviewAssumption, InterviewSafe, NEW r \in Slots, General!Mark(r)
  PROVE  InterviewSafe'
<1>1. /\ InterviewTypes /\ AsksOnce /\ PaidIsOver /\ AnswerIsThere /\ SavedAreThere
      /\ request \in [Slots -> Fetches] /\ request[r] \in Fetches
      /\ turn \in [General!TurnIds -> Slots \cup {"free", "dispatched", "settled"}]
      /\ paid \in [General!TurnIds -> Nat]
      /\ made \in [sessions : Nat, keys : Nat, devices : Nat]
  BY DEF InterviewSafe, InterviewTypes
<1>2. UNCHANGED <<cloud, paid, made>> /\ General!Server /\ General!At(r, "mark")
  BY DEF General!Mark
<1>3. r \notin {"free", "dispatched", "settled"}
  BY DEF General!InterviewAssumption
<1>4. CASE \E code \in {"other", "ai_failed"} : General!Answer(r, code)
  <2>1. PICK q \in Fetches : AnsweredAs(r, q) /\ q.reply # "report"
    BY <1>4, AnswerRequest
  <2>2. request' = [request EXCEPT ![r] = q] /\ q.pc # "ask"
    BY <2>1 DEF AnsweredAs
  <2>3. \/ turn[General!Turn(r)] = r /\ turn' = [turn EXCEPT ![General!Turn(r)] = "dispatched"]
        \/ General!GivesBack(r)
    BY DEF General!Mark
  <2>4. /\ turn' \in [General!TurnIds -> Slots \cup {"free", "dispatched", "settled"}]
        /\ \A i \in General!TurnIds : \/ turn'[i] = turn[i] /\ paid'[i] = paid[i]
                                      \/ turn[i] \notin {"dispatched", "settled"}
                                           /\ paid'[i] = paid[i]
    BY <1>1, <1>2, <1>3, <2>3, GivenBack
  <2>5. QED
    BY <1>1, <1>2, <2>1, <2>2, <2>4, ServerKeeps
<1>5. CASE /\ turn[General!Turn(r)] = r
           /\ turn' = [turn EXCEPT ![General!Turn(r)] = "dispatched"] /\ General!Go(r, "ask")
  <2> DEFINE q == [request[r] EXCEPT !.pc = "ask"]
  <2>1. /\ q \in Fetches /\ request' = [request EXCEPT ![r] = q] /\ q.pc = "ask"
        /\ q.device = request[r].device /\ q.session = request[r].session
    BY <1>1, <1>5 DEF General!Go, Fetches
  <2> HIDE DEF q
  <2>2. /\ request'[r] = q /\ request' \in [Slots -> Fetches]
        /\ \A s \in Slots : s # r => request'[s] = request[s]
    BY <1>1, <2>1
  <2>3. turn' \in [General!TurnIds -> Slots \cup {"free", "dispatched", "settled"}]
    BY <1>1, <1>5
  <2>4. InterviewTypes'
    <3>1. (tab = [t \in Tabs |-> tab[t]])' /\ (\A t \in Tabs : IsPage(tab[t]))'
      BY <1>1, <1>2 DEF InterviewTypes, General!Server, IsPage, Pages
    <3>2. QED
      BY <1>1, <1>2, <2>2, <2>3, <3>1 DEF InterviewTypes, General!Server
  <2>5. General!Turn(r)' = General!Turn(r) /\ \A s \in Slots : s # r
            => General!Turn(s)' = General!Turn(s) /\ (General!At(s, "ask")' = General!At(s, "ask"))
    BY <2>1, <2>2 DEF General!Turn, General!Key, General!At
  <2>6. General!Turn(r) \in General!TurnIds => paid[General!Turn(r)] = 0
    BY <1>1, <1>3, <1>5 DEF PaidIsOver
  <2>7. \A s \in Slots : General!At(s, "ask") /\ General!Turn(s) \in General!TurnIds
            => General!Turn(s) # General!Turn(r)
    BY <1>1, <1>3, <1>5 DEF AsksOnce
  <2>8. AsksOnce'
    <3> SUFFICES ASSUME NEW s \in Slots, General!At(s, "ask")', General!Turn(s)' \in General!TurnIds
                 PROVE  /\ turn'[General!Turn(s)'] = "dispatched" /\ paid'[General!Turn(s)'] = 0
                        /\ \A u \in Slots : General!At(u, "ask")'
                             /\ General!Turn(u)' = General!Turn(s)' => u = s
      BY DEF AsksOnce, General!TurnIds, General!Principals, General!Keys
    <3>1. CASE s = r
      BY <1>1, <1>2, <1>5, <2>5, <2>6, <2>7, <3>1
    <3>2. CASE s # r
      <4>1. General!At(s, "ask") /\ General!Turn(s)' = General!Turn(s)
                /\ General!Turn(s) # General!Turn(r)
        BY <2>5, <2>7, <3>2
      <4>2. turn[General!Turn(s)] = "dispatched" /\ paid[General!Turn(s)] = 0
            /\ \A u \in Slots : General!At(u, "ask") /\ General!Turn(u) = General!Turn(s) => u = s
        BY <1>1, <4>1 DEF AsksOnce
      <4>3. QED
        BY <1>1, <1>2, <1>5, <2>5, <4>1, <4>2
    <3>3. QED
      BY <3>1, <3>2
  <2>9. PaidIsOver'
    BY <1>1, <1>2, <1>3, <1>5 DEF PaidIsOver
  <2>10. AnswerIsThere'
    <3>1. \A s \in Slots : General!At(s, "answered")' => s # r /\ request'[s] = request[s]
      BY <2>1, <2>2 DEF General!At
    <3>2. QED
      BY <1>1, <1>2, <3>1 DEF AnswerIsThere, General!At, General!Attempt, General!Key
  <2>11. SavedAreThere'
    BY <1>1, <1>2 DEF SavedAreThere, General!Server
  <2>12. QED
    BY <2>4, <2>8, <2>9, <2>10, <2>11 DEF InterviewSafe
<1>6. QED
  BY <1>4, <1>5 DEF General!Mark

\* The provider is asked: the turn was its own, and unpaid.
LEMMA TurnAsks ==
  ASSUME General!InterviewAssumption, InterviewSafe, NEW r \in Slots, General!Ask(r)
  PROVE  InterviewSafe'
<1>1. /\ InterviewTypes /\ AsksOnce
      /\ request \in [Slots -> Fetches] /\ request[r] \in Fetches
      /\ turn \in [General!TurnIds -> Slots \cup {"free", "dispatched", "settled"}]
      /\ paid \in [General!TurnIds -> Nat]
      /\ made \in [sessions : Nat, keys : Nat, devices : Nat]
  BY DEF InterviewSafe, InterviewTypes
<1>2. UNCHANGED <<cloud, made>> /\ General!Server /\ General!At(r, "ask")
  BY DEF General!Ask
<1>3. PICK q \in Fetches : /\ request' = [request EXCEPT ![r] = q] /\ q.pc # "ask"
                           /\ q.pc = "record" \/ q.reply # "report"
  <2>1. CASE General!Go(r, "record")
    <3> DEFINE q == [request[r] EXCEPT !.pc = "record"]
    <3>1. q \in Fetches /\ request' = [request EXCEPT ![r] = q] /\ q.pc = "record"
      BY <1>1, <2>1 DEF General!Go, Fetches
    <3> HIDE DEF q
    <3>2. QED
      BY <3>1
  <2>2. CASE \E code \in {"terminal", "ai_failed"} : General!Answer(r, code)
    BY <2>2, AnswerRequest DEF AnsweredAs
  <2>3. QED
    BY <2>1, <2>2 DEF General!Ask
<1>4. CASE paid' = [paid EXCEPT ![General!Turn(r)] = @ + 1] /\ General!Settles(r)
  <2>1. paid' \in [General!TurnIds -> Nat]
            /\ turn' \in [General!TurnIds -> Slots \cup {"free", "dispatched", "settled"}]
    <3>1. \A i \in General!TurnIds : paid[i] + 1 \in Nat
      BY <1>1
    <3>2. paid' \in [General!TurnIds -> Nat]
      BY <1>1, <1>4, <3>1
    <3>3. turn' \in [General!TurnIds -> Slots \cup {"free", "dispatched", "settled"}]
      BY <1>1, <1>4 DEF General!Settles
    <3>4. QED
      BY <3>2, <3>3
  <2>2. General!Turn(r) \in General!TurnIds => turn[General!Turn(r)] = "dispatched"
    BY <1>1, <1>2 DEF AsksOnce
  <2>3. ASSUME NEW i \in General!TurnIds
        PROVE  \/ turn'[i] = turn[i] /\ paid'[i] = paid[i]
               \/ /\ i = General!Turn(r) /\ General!At(r, "ask")
                  /\ turn'[i] \in {"dispatched", "settled"}
                  /\ paid'[i] \in {paid[i], paid[i] + 1}
    BY <1>1, <1>2, <1>4, <2>2 DEF General!Settles
  <2>4. QED
    BY <1>1, <1>2, <1>3, <2>1, <2>3, ServerKeeps
<1>5. CASE paid' = paid /\ General!GivesBack(r)
  BY <1>1, <1>2, <1>3, <1>5, GivenBack, ServerKeeps
<1>6. QED
  BY <1>4, <1>5 DEF General!Ask

\* A function dies, or its answer is lost.
LEMMA BreakKeeps ==
  ASSUME General!InterviewAssumption, InterviewSafe, NEW r \in Slots, General!Break(r)
  PROVE  InterviewSafe'
<1>1. /\ InterviewTypes /\ AsksOnce
      /\ request \in [Slots -> Fetches] /\ request[r] \in Fetches
      /\ turn \in [General!TurnIds -> Slots \cup {"free", "dispatched", "settled"}]
      /\ paid \in [General!TurnIds -> Nat]
      /\ made \in [sessions : Nat, keys : Nat, devices : Nat]
  BY DEF InterviewSafe, InterviewTypes
<1>2. UNCHANGED <<turn, cloud, made>> /\ General!Server
  BY DEF General!Break
<1>3. PICK q \in Fetches : request' = [request EXCEPT ![r] = q] /\ q.pc # "ask"
               /\ q.reply # "report"
  <2> DEFINE broken == [request[r] EXCEPT !.pc = "answered", !.reply = "other", !.minted = FALSE]
  <2>1. broken \in Fetches /\ broken.pc = "answered" /\ broken.reply = "other"
    BY <1>1 DEF Fetches
  <2>2. request' = [request EXCEPT ![r] = General!Idle] \/ request' = [request EXCEPT ![r] = broken]
    BY DEF General!Break
  <2>3. General!Idle.reply # "report" /\ General!Idle.pc # "ask"
    BY DEF General!Idle
  <2> HIDE DEF broken
  <2>4. QED
    BY <2>1, <2>2, <2>3, IdleRequest
<1>4. paid' = paid \/ (General!At(r, "ask") /\ paid' = [paid EXCEPT ![General!Turn(r)] = @ + 1])
  BY DEF General!Break
<1>5. paid' \in [General!TurnIds -> Nat]
  BY <1>1, <1>4
<1>6. General!At(r, "ask") /\ General!Turn(r) \in General!TurnIds
          => turn[General!Turn(r)] = "dispatched"
  BY <1>1 DEF AsksOnce
<1>7. ASSUME NEW i \in General!TurnIds
      PROVE  \/ turn'[i] = turn[i] /\ paid'[i] = paid[i]
             \/ /\ i = General!Turn(r) /\ General!At(r, "ask")
                /\ turn'[i] \in {"dispatched", "settled"}
                /\ paid'[i] \in {paid[i], paid[i] + 1}
  BY <1>1, <1>2, <1>4, <1>6
<1>8. QED
  BY <1>1, <1>2, <1>3, <1>5, <1>7, ServerKeeps

\* The report is recorded, or not.
LEMMA RecordKeeps ==
  ASSUME General!InterviewAssumption, InterviewSafe, NEW r \in Slots, General!Record(r)
  PROVE  InterviewSafe'
<1>1. /\ InterviewTypes /\ request[r] \in Fetches
      /\ turn \in [General!TurnIds -> Slots \cup {"free", "dispatched", "settled"}]
      /\ paid \in [General!TurnIds -> Nat]
      /\ made \in [sessions : Nat, keys : Nat, devices : Nat]
  BY DEF InterviewSafe, InterviewTypes
<1>2. UNCHANGED <<turn, paid, made>> /\ General!Server /\ cloud \subseteq cloud'
  BY DEF General!Record
<1>3. PICK isSaved \in BOOLEAN : General!Report(r, isSaved)
               /\ (isSaved => General!Attempt(r, "completed") \in cloud')
  <2>1. CASE UNCHANGED cloud /\ General!Report(r, General!Attempt(r, "completed") \in cloud)
    <3> DEFINE there == General!Attempt(r, "completed") \in cloud
    <3>1. there \in BOOLEAN /\ General!Report(r, there)
              /\ (there => General!Attempt(r, "completed") \in cloud')
      BY <2>1
    <3> HIDE DEF there
    <3>2. QED
      BY <3>1
  <2>2. CASE General!Report(r, FALSE)
    BY <2>2
  <2>3. CASE cloud' = cloud \cup {General!Attempt(r, "completed")} /\ General!Report(r, TRUE)
    BY <2>3
  <2>4. QED
    BY <2>1, <2>2, <2>3 DEF General!Record
<1>4. PICK q \in Fetches : AnsweredAs(r, q)
               /\ (q.pc = "idle" \/ (q.saved = isSaved /\ q.session = request[r].session))
  BY <1>3, ReportRequest
<1>5. q.pc = "answered" /\ q.reply = "report" /\ q.saved =>
        [session |-> q.session.id, key |-> q.session.key, status |-> "completed"] \in cloud'
  BY <1>3, <1>4 DEF General!Attempt, General!Key
<1>6. request' = [request EXCEPT ![r] = q] /\ q.pc # "ask"
  BY <1>4 DEF AnsweredAs
<1>7. \A i \in General!TurnIds : turn'[i] = turn[i] /\ paid'[i] = paid[i]
  BY <1>2
<1>8. QED
  BY <1>1, <1>2, <1>5, <1>6, <1>7, ServerKeeps

\* A turn's lease ends, or the bank is published.
LEMMA ExpireKeeps ==
  ASSUME General!InterviewAssumption, InterviewSafe, General!Expire \/ General!Publish
             \/ UNCHANGED General!vars
  PROVE  InterviewSafe'
<1>1. InterviewTypes /\ AsksOnce /\ PaidIsOver /\ AnswerIsThere /\ SavedAreThere
  BY DEF InterviewSafe
<1>2. UNCHANGED <<stored, tab, request, cookie, cloud, paid, made>> /\ bank' \in Nat
  BY <1>1 DEF General!Expire, General!Publish, General!vars, InterviewTypes
<1>3. /\ turn' \in [General!TurnIds -> Slots \cup {"free", "dispatched", "settled"}]
      /\ \A p \in General!TurnIds : turn[p] \in {"dispatched", "settled"} => turn'[p] = turn[p]
  <2>1. turn \in [General!TurnIds -> Slots \cup {"free", "dispatched", "settled"}]
    BY <1>1 DEF InterviewTypes
  <2>2. CASE turn' = turn
    BY <2>1, <2>2
  <2>3. CASE General!Expire
    BY <2>1, <2>3 DEF General!Expire, General!InterviewAssumption
  <2>4. QED
    BY <2>2, <2>3 DEF General!Publish, General!vars
<1>4. InterviewTypes'
  <2>1. (tab = [t \in Tabs |-> tab[t]])' /\ (\A t \in Tabs : IsPage(tab[t]))'
    BY <1>1, <1>2 DEF InterviewTypes, IsPage, Pages
  <2>2. QED
    BY <1>1, <1>2, <1>3, <2>1 DEF InterviewTypes
<1>5. \A r \in Slots : General!At(r, "ask")' = General!At(r, "ask")
          /\ General!Turn(r)' = General!Turn(r)
  BY <1>2 DEF General!At, General!Turn, General!Key
<1>6. AsksOnce' /\ PaidIsOver'
  BY <1>1, <1>2, <1>3, <1>5 DEF AsksOnce, PaidIsOver
<1>7. AnswerIsThere' /\ SavedAreThere'
  BY <1>1, <1>2 DEF AnswerIsThere, SavedAreThere, General!At, General!Attempt, General!Key
<1>8. QED
  BY <1>4, <1>6, <1>7 DEF InterviewSafe

------------------------------------------------------------------------------

\* Every reachable state of the interview satisfies the inductive invariant.
THEOREM InterviewIsSafe == ASSUME General!InterviewAssumption PROVE General!Spec => []InterviewSafe
<1>1. General!Init => InterviewSafe
  BY InterviewInit
<1>2. InterviewSafe /\ [General!Next]_(General!vars) => InterviewSafe'
  <2> SUFFICES ASSUME InterviewSafe, [General!Next]_(General!vars) PROVE InterviewSafe'
    OBVIOUS
  <2>1. CASE \E t \in Tabs :
          \/ General!Open(t) \/ General!Leave(t) \/ General!Start(t) \/ General!Write(t)
               \/ General!Submit(t) \/ General!Retry(t) \/ General!EditAgain(t) \/ General!Reset(t)
    BY <2>1, PageOpens, LeaveKeeps, TabKeeps
  <2>2. CASE \E r \in Slots : General!Hear(r) \/ General!Admit(r) \/ General!Mark(r)
                 \/ General!Ask(r) \/ General!Record(r) \/ General!Break(r)
    BY <2>2, HearKeeps, AdmitKeeps, MarkKeeps, TurnAsks, RecordKeeps, BreakKeeps
  <2>3. QED
    BY <2>1, <2>2, ExpireKeeps DEF General!Next
<1>3. QED
  BY <1>1, <1>2, PTL DEF General!Spec

\* A submission is graded for money once, from however many tabs and fetches.
THEOREM SubmissionsAreGradedOnce == ASSUME General!InterviewAssumption PROVE General!Spec
    => []GradedOnce
<1>1. InterviewSafe => GradedOnce
  BY DEF InterviewSafe, InterviewTypes, PaidIsOver, GradedOnce, General!GradedOnce
<1>2. QED
  BY <1>1, InterviewIsSafe, PTL

\* A page that says its report is saved shows one that the cloud has.
THEOREM SavedReportsAreThere == ASSUME General!InterviewAssumption PROVE General!Spec
    => []SavedIsThere
<1>1. InterviewSafe => SavedIsThere
  BY DEF InterviewSafe, InterviewTypes, SavedAreThere, SavedIsThere, General!SavedIsThere
<1>2. QED
  BY <1>1, InterviewIsSafe, PTL

------------------------------------------------------------------------------
(***************************************************************************)
(* The local history, for a history of any length: a report on a page, or  *)
(* the stored one, is in it, once, until it is full.                       *)
(*                                                                         *)
(* A tab's report is compared with a history that other tabs have changed  *)
(* since; so the invariant also says that the history names a session once, *)
(* and that it never shrinks once it is full.                              *)
(***************************************************************************)

Reports == [session : Nat, key : Nat]

IsHistory ==
  /\ history \in Seq(Reports) /\ Len(history) <= Kept
  /\ \A i, j \in DOMAIN history : history[i].session = history[j].session => i = j

Lists(list, id) == \E i \in DOMAIN list : list[i].session = id
IsKept(session) == session.status = "completed" => Lists(history, session.id) \/ Len(history) = Kept

HistorySafe == IsHistory /\ IsKept(stored) /\ \A t \in Tabs : IsKept(tab[t].session)

------------------------------------------------------------------------------

\* The instance counts as FiniteSets does.
LEMMA GeneralCount == ASSUME NEW S PROVE General!Cardinality(S) = Cardinality(S)
  BY DEF General!Cardinality, Cardinality, General!IsFiniteSet, IsFiniteSet

\* The numbers up to n.
LEMMA UpTo == ASSUME NEW n \in Nat PROVE IsFiniteSet(1..n) /\ Cardinality(1..n) = n
<1>1. IsFiniteSet(1..n) /\ Cardinality(1..n) = IF 1 > n THEN 0 ELSE n - 1 + 1
  BY FS_Interval
<1> QED
  BY <1>1

\* Where a list has other sessions.
Apart(list, id) == {i \in DOMAIN list : list[i].session # id}

\* The others of a list are its entries at these places, each once.
LEMMA OthersAre ==
  ASSUME NEW list \in Seq(Reports), NEW id
  PROVE  /\ IsFiniteSet(Apart(list, id)) /\ Cardinality(Apart(list, id)) \in Nat
         /\ \E f \in [1..Cardinality(Apart(list, id)) -> Apart(list, id)] :
              /\ General!Others(list, id) = [k \in 1..Cardinality(Apart(list, id)) |-> list[f[k]]]
              /\ \A k, l \in 1..Cardinality(Apart(list, id)) : f[k] = f[l] => k = l
              /\ \A i \in Apart(list, id) : \E k \in 1..Cardinality(Apart(list, id)) : f[k] = i
<1> DEFINE P == Apart(list, id)
           n == General!Cardinality(P)
           Upto(i) == {j \in P : j <= i}
           rank == [i \in P |-> General!Cardinality({j \in P : j <= i})]
           f == [k \in 1..n |-> CHOOSE i \in P : rank[i] = k]
<1>1. P \in SUBSET (1..Len(list)) /\ Len(list) \in Nat /\ P \subseteq Nat
  BY DEF Apart
<1>2. IsFiniteSet(P) /\ n \in Nat /\ n = Cardinality(P)
  <2> HIDE DEF P
  <2>1. IsFiniteSet(1..Len(list))
    BY <1>1, UpTo
  <2>2. n = Cardinality(P)
    BY GeneralCount
  <2> QED
    BY <1>1, <2>1, <2>2, FS_Subset, FS_CardinalityType
<1>3. General!Others(list, id) = [k \in 1..n |-> list[f[k]]]
  <2>1. General!Others(list, id) = [k \in 1..n |-> list[CHOOSE i \in P : rank[i] = k]]
    BY DEF General!Others, Apart
  <2> HIDE DEF rank, P, n
  <2>2. \A k \in 1..n : f[k] = CHOOSE i \in P : rank[i] = k
    OBVIOUS
  <2> HIDE DEF f
  <2> QED
    BY <2>1, <2>2
<1> HIDE DEF P, n, f
<1>4. ASSUME NEW i \in P
      PROVE  /\ Upto(i) \in SUBSET P /\ IsFiniteSet(Upto(i)) /\ i \in Upto(i)
             /\ Cardinality(Upto(i)) \in 1..n
  <2>1. Upto(i) \in SUBSET P /\ i \in Upto(i)
    BY <1>1
  <2> HIDE DEF Upto
  <2>2. IsFiniteSet(Upto(i)) /\ Cardinality(Upto(i)) <= n /\ Cardinality(Upto(i)) \in Nat
    BY <1>2, <2>1, FS_Subset, FS_CardinalityType
  <2>3. Cardinality(Upto(i)) # 0
    BY <2>1, <2>2, FS_EmptySet
  <2>4. QED
    BY <1>2, <2>1, <2>2, <2>3
<1>5. \A i \in P : rank[i] = Cardinality(Upto(i))
  BY GeneralCount
<1> HIDE DEF rank
<1>6. ASSUME NEW i \in P, NEW j \in P, rank[i] = rank[j] PROVE i = j
  <2>1. ASSUME NEW a \in P, NEW b \in P, a < b PROVE rank[a] # rank[b]
    <3>1. Upto(a) \in SUBSET Upto(b) /\ b \notin Upto(a)
      <4>1. \A p \in P : p \in Nat
        BY <1>1
      <4> QED
        BY <2>1, <4>1
    <3>2. b \in Upto(b)
      BY <1>4
    <3> HIDE DEF Upto
    <3>3. Cardinality(Upto(a)) # Cardinality(Upto(b))
      BY <1>4, <3>1, <3>2, FS_Subset
    <3> QED
      BY <1>5, <3>3
  <2>2. ~ (i < j) /\ ~ (j < i)
    BY <1>6, <2>1
  <2> QED
    BY <1>1, <2>2
<1>7. rank \in Injection(P, 1..n)
  <2>1. rank \in [P -> 1..n]
    <3>1. rank = [i \in P |-> rank[i]]
      BY DEF rank
    <3> QED
      BY <1>4, <1>5, <3>1
  <2> QED
    BY <1>6, <2>1 DEF Injection, IsInjective
<1>8. rank \in Surjection(P, 1..n)
  <2>1. IsFiniteSet(1..n) /\ Cardinality(1..n) = n
    BY <1>2, UpTo
  <2> QED
    BY <1>2, <1>7, <2>1, FS_Injection
<1>9. \A k \in 1..n : f[k] \in P /\ rank[f[k]] = k
  <2> SUFFICES ASSUME NEW k \in 1..n PROVE f[k] \in P /\ rank[f[k]] = k
    OBVIOUS
  <2>1. \E i \in P : rank[i] = k
    BY <1>8 DEF Surjection
  <2> QED
    BY <2>1 DEF f
<1>10. f \in [1..n -> P]
  <2>1. f = [k \in 1..n |-> f[k]]
    BY DEF f
  <2> QED
    BY <1>9, <2>1
<1>11. \A k, l \in 1..n : f[k] = f[l] => k = l
  BY <1>9
<1>12. \A i \in P : \E k \in 1..n : f[k] = i
  <2> SUFFICES ASSUME NEW i \in P PROVE \E k \in 1..n : f[k] = i
    OBVIOUS
  <2>1. rank[i] \in 1..n
    BY <1>7 DEF Injection
  <2>2. f[rank[i]] \in P /\ rank[f[rank[i]]] = rank[i]
    BY <1>9, <2>1
  <2>3. f[rank[i]] = i
    BY <1>6, <2>2
  <2> QED
    BY <2>1, <2>3
<1> QED
  BY <1>2, <1>3, <1>10, <1>11, <1>12 DEF P

\* A list that names each session once has one entry of this one at most.
LEMMA OthersAreMost ==
  ASSUME IsHistory, NEW id
  PROVE  Cardinality(Apart(history, id)) >= Len(history) - 1
<1> DEFINE P == Apart(history, id)
<1>1. DOMAIN history = 1..Len(history) /\ Len(history) \in Nat
  BY DEF IsHistory
<1>2. IsFiniteSet(1..Len(history)) /\ Cardinality(1..Len(history)) = Len(history)
  BY <1>1, UpTo
<1>3. CASE \E x \in DOMAIN history : history[x].session = id
  <2>1. PICK x \in DOMAIN history : history[x].session = id
    BY <1>3
  <2>2. P = (1..Len(history)) \ {x}
    BY <1>1, <2>1 DEF IsHistory, Apart
  <2>3. Cardinality((1..Len(history)) \ {x}) = Len(history) - 1
    <3> DEFINE all == 1..Len(history)
    <3>1. x \in all /\ IsFiniteSet(all) /\ Cardinality(all) = Len(history)
      BY <1>1, <1>2, <2>1
    <3> HIDE DEF all
    <3>2. Cardinality(all \ {x}) = Cardinality(all) - 1
      BY <3>1, FS_RemoveElement
    <3> QED
      BY <3>1, <3>2 DEF all
  <2> QED
    BY <1>1, <2>2, <2>3
<1>4. CASE ~ \E x \in DOMAIN history : history[x].session = id
  <2>1. P = 1..Len(history)
    BY <1>1, <1>4 DEF Apart
  <2> QED
    BY <1>1, <1>2, <2>1
<1> QED
  BY <1>3, <1>4

\* A new report is in the history, which names every session once and loses none
\* unless it is full; one that was full still is.
LEMMA Prepended ==
  ASSUME General!InterviewAssumption, IsHistory, NEW r \in Slots, request[r] \in Fetches,
         history' = General!Prepend(r)
  PROVE  /\ IsHistory' /\ Lists(history', request[r].session.id)
         /\ \A id : Lists(history, id) => Lists(history', id) \/ Len(history') = Kept
         /\ Len(history) = Kept => Len(history') = Kept
<1> DEFINE id == request[r].session.id
           entry == General!Artifact(request[r].session)
           P == Apart(history, id)
           n == Cardinality(P)
           next == <<entry>> \o General!Others(history, id)
           length == IF n + 1 < Kept THEN n + 1 ELSE Kept
<1>1. entry \in Reports /\ entry.session = id
  BY DEF Fetches, Sessions, Reports, General!Artifact
<1>2. history \in Seq(Reports) /\ Len(history) \in Nat /\ Len(history) <= Kept
      /\ DOMAIN history = 1..Len(history) /\ Kept \in Nat \ {0}
  BY DEF IsHistory, General!InterviewAssumption
<1>3. n \in Nat /\ n >= Len(history) - 1
  <2>1. Cardinality(P) \in Nat
    BY <1>2, OthersAre
  <2> QED
    BY <2>1, OthersAreMost
<1>0. \A i : i \in P <=> i \in DOMAIN history /\ history[i].session # id
  BY DEF Apart
<1>4. PICK f \in [1..n -> P] :
        /\ General!Others(history, id) = [k \in 1..n |-> history[f[k]]]
        /\ \A k, l \in 1..n : f[k] = f[l] => k = l
        /\ \A i \in P : \E k \in 1..n : f[k] = i
  BY <1>2, OthersAre
<1> HIDE DEF n, P, id
<1>5. General!Others(history, id) \in Seq(Reports) /\ Len(General!Others(history, id)) = n
  <2>1. \A k \in 1..n : history[f[k]] \in Reports
    BY <1>0, <1>2
  <2> QED
    BY <1>3, <1>4, <2>1
<1>6. next \in Seq(Reports) /\ Len(next) = n + 1 /\ next[1] = entry
      /\ \A k \in 1..n : next[k + 1] = history[f[k]]
  BY <1>1, <1>3, <1>4, <1>5
<1>7. history' = SubSeq(next, 1, length)
  <2>1. General!Prepend(r) = SubSeq(next, 1, IF Len(next) < Kept THEN Len(next) ELSE Kept)
    BY <1>1 DEF General!Prepend
  <2> HIDE DEF next
  <2> QED
    BY <1>6, <2>1
<1> HIDE DEF next, entry
<1>8. length \in 1..(n + 1) /\ length <= Kept
  BY <1>2, <1>3
<1>9. /\ history' \in Seq(Reports) /\ Len(history') = length /\ DOMAIN history' = 1..length
      /\ \A k \in 1..length : history'[k] = next[k]
  BY <1>3, <1>6, <1>7, <1>8
<1>10. \A k \in 1..length : k = 1 \/ (k - 1 \in 1..n /\ next[k] = history[f[k - 1]])
  BY <1>3, <1>6, <1>8
<1> HIDE DEF length
<1>11. ASSUME NEW i \in 1..length, NEW j \in 1..length, next[i].session = next[j].session
       PROVE  i = j
  <2>1. \A k \in 1..n : f[k] \in DOMAIN history /\ history[f[k]].session # id
    BY <1>0
  <2>2. CASE i = 1 \/ j = 1
    BY <1>1, <1>6, <1>10, <1>11, <2>1, <2>2
  <2>3. CASE i # 1 /\ j # 1
    <3>1. f[i - 1] = f[j - 1] /\ i - 1 \in 1..n /\ j - 1 \in 1..n
      BY <1>10, <1>11, <2>1, <2>3 DEF IsHistory
    <3>2. i - 1 = j - 1
      BY <1>4, <3>1
    <3> QED
      BY <3>2
  <2> QED
    BY <2>2, <2>3
<1>12. IsHistory'
  BY <1>8, <1>9, <1>11 DEF IsHistory
<1>13. Lists(history', id)
  BY <1>1, <1>6, <1>8, <1>9 DEF Lists
<1>14. ASSUME NEW other, Lists(history, other), Len(history') # Kept PROVE Lists(history', other)
  <2>1. length = n + 1
    BY <1>9, <1>14 DEF length
  <2>2. PICK i \in DOMAIN history : history[i].session = other
    BY <1>14 DEF Lists
  <2>3. CASE other = id
    BY <1>13, <2>3
  <2>4. CASE other # id
    <3>1. PICK k \in 1..n : f[k] = i
      BY <1>0, <1>4, <2>2, <2>4
    <3>2. k + 1 \in 1..length /\ next[k + 1] = history[i]
      BY <1>3, <1>6, <2>1, <3>1
    <3> QED
      BY <1>9, <2>2, <3>2 DEF Lists
  <2> QED
    BY <2>3, <2>4
<1>15. Len(history) = Kept => Len(history') = Kept
  BY <1>2, <1>3, <1>9 DEF length
<1> QED
  BY <1>12, <1>13, <1>14, <1>15 DEF id

------------------------------------------------------------------------------

\* Nothing is shown and nothing is listed.
LEMMA HistoryInit == ASSUME General!InterviewAssumption, General!Init PROVE HistorySafe
BY DEF General!Init, General!InterviewAssumption, General!NoSession, General!Closed, HistorySafe,
   IsHistory, IsKept

\* The history stays as it is, and what is stored and what a page shows is the
\* same, another page's, or not a report.
LEMMA SameHistory ==
  ASSUME HistorySafe, UNCHANGED history,
         stored'.status # "completed" \/ stored' = stored
           \/ \E u \in Tabs : stored' = tab[u].session,
         \A t \in Tabs :
           \/ tab'[t].session.status # "completed" \/ tab'[t].session = stored
           \/ \E u \in Tabs : tab'[t].session = tab[u].session
  PROVE  HistorySafe'
<1>1. IsHistory'
  BY DEF HistorySafe, IsHistory
<1>2. \A session : IsKept(session) /\ session.status = "completed" =>
                     Lists(history', session.id) \/ Len(history') = Kept
  BY DEF IsKept, Lists
<1>3. IsKept(stored)'
  BY <1>2 DEF HistorySafe, IsKept
<1>4. ASSUME NEW t \in Tabs PROVE IsKept(tab[t].session)'
  BY <1>2 DEF HistorySafe, IsKept
<1> QED
  BY <1>1, <1>3, <1>4 DEF HistorySafe

\* A session that a page starts, submits or edits again is not a report.
LEMMA StartedSession ==
  ASSUME NEW session \in Sessions, NEW id, NEW revision, NEW key
  PROVE  /\ [General!NoSession EXCEPT !.id = id, !.status = "in_progress",
                                      !.revision = revision].status = "in_progress"
         /\ [session EXCEPT !.status = "evaluating", !.key = key].status = "evaluating"
         /\ [session EXCEPT !.status = "in_progress", !.key = key].status = "in_progress"
BY DEF General!NoSession, Sessions

\* What the pages show when one of them changes its session.
LEMMA PageShows ==
  ASSUME tab = [u \in Tabs |-> tab[u]], NEW t \in Tabs, IsPage(tab[t]),
         NEW session, NEW code, General!Page(t, session, code)
  PROVE  tab'[t].session = session /\ \A u \in Tabs : u # t => tab'[u] = tab[u]
<1> DEFINE newPage == [tab[t] EXCEPT !.session = session, !.code = code, !.saved = FALSE]
<1>1. tab' = [tab EXCEPT ![t] = newPage]
  BY DEF General!Page
<1>2. newPage.session = session
  BY DEF IsPage, Pages
<1> HIDE DEF newPage
<1> QED
  BY <1>1, <1>2

\* A page changes its session, or loses its report.
LEMMA PagesHistory ==
  ASSUME InterviewTypes, HistorySafe, NEW t \in Tabs,
         \/ General!Open(t) \/ General!Leave(t) \/ General!Start(t) \/ General!Write(t)
         \/ General!Submit(t) \/ General!Retry(t) \/ General!EditAgain(t) \/ General!Reset(t)
  PROVE  HistorySafe'
<1>1. tab = [u \in Tabs |-> tab[u]] /\ IsPage(tab[t]) /\ tab[t].session \in Sessions
  BY DEF InterviewTypes, IsPage, Pages
<1>2. General!NoSession.status = "none" /\ General!Closed.session = General!NoSession
  BY DEF General!NoSession, General!Closed
<1>3. UNCHANGED history
  BY DEF General!Open, General!Leave, General!Start, General!Write, General!Submit,
     General!Retry, General!EditAgain, General!Reset
<1>4. /\ \A u \in Tabs : u # t => tab'[u] = tab[u]
      /\ \/ tab'[t].session.status # "completed" \/ tab'[t].session = stored
         \/ tab'[t].session = tab[t].session
      /\ \/ stored'.status # "completed" \/ stored' = stored \/ stored' = tab[t].session
  <2>1. CASE General!Open(t)
    BY <1>1, <1>2, <2>1 DEF General!Open, General!Closed
  <2>2. CASE General!Leave(t)
    BY <1>1, <1>2, <2>2 DEF General!Leave
  <2>3. CASE General!Start(t)
    <3> DEFINE session == [General!NoSession EXCEPT !.id = made.sessions + 1,
                             !.status = "in_progress", !.revision = tab[t].revision]
    <3>1. stored' = session /\ General!Page(t, session, "none")
      BY <2>3 DEF General!Start, General!Saves
    <3>2. session.status = "in_progress"
      BY <1>1, StartedSession
    <3> HIDE DEF session
    <3> QED
      BY <1>1, <3>1, <3>2, PageShows
  <2>4. CASE General!Write(t)
    BY <1>1, <2>4, PageShows DEF General!Write, General!Saves
  <2>5. CASE General!Submit(t)
    <3> DEFINE session == [tab[t].session EXCEPT !.status = "evaluating", !.key = made.keys + 1]
    <3>1. stored' = session /\ General!Page(t, session, "none")
      BY <2>5 DEF General!Submit, General!Saves
    <3>2. session.status = "evaluating"
      BY <1>1, StartedSession
    <3> HIDE DEF session
    <3> QED
      BY <1>1, <3>1, <3>2, PageShows
  <2>6. CASE General!Retry(t)
    BY <1>1, <2>6, PageShows DEF General!Retry
  <2>7. CASE General!EditAgain(t)
    <3> DEFINE session == [tab[t].session EXCEPT !.status = "in_progress", !.key = 0]
    <3>1. stored' = session /\ General!Page(t, session, "none")
      BY <2>7 DEF General!EditAgain, General!Saves
    <3>2. session.status = "in_progress"
      BY <1>1, StartedSession
    <3> HIDE DEF session
    <3> QED
      BY <1>1, <3>1, <3>2, PageShows
  <2>8. CASE General!Reset(t)
    BY <1>1, <1>2, <2>8, PageShows DEF General!Reset, General!Saves
  <2> QED
    BY <2>1, <2>2, <2>3, <2>4, <2>5, <2>6, <2>7, <2>8
<1> QED
  BY <1>3, <1>4, SameHistory

\* An answer with a report adds it to the history, and shows it.
LEMMA HearHistory ==
  ASSUME General!InterviewAssumption, InterviewTypes, HistorySafe, NEW r \in Slots, General!Hear(r)
  PROVE  HistorySafe'
<1> DEFINE t == request[r].tab
           session == General!Completed(request[r].session)
<1>1. request[r] \in Fetches /\ tab = [u \in Tabs |-> tab[u]]
      /\ \A u \in Tabs : tab[u].session \in Sessions /\ IsPage(tab[u])
  BY DEF InterviewTypes, IsPage, Pages
<1>2. session.id = request[r].session.id
  BY <1>1 DEF General!Completed, Fetches, Sessions
<1>3. CASE request[r].reply # "report"
  <2>1. UNCHANGED <<stored, history>>
        /\ tab' \in {tab, [tab EXCEPT ![t].code = request[r].reply]}
    BY <1>3 DEF General!Hear
  <2>2. CASE tab' = tab
    BY <2>1, <2>2, SameHistory
  <2>3. CASE tab' # tab
    <3> DEFINE newPage == [tab[t] EXCEPT !.code = request[r].reply]
    <3>1. tab' = [tab EXCEPT ![t] = newPage]
      BY <2>1, <2>3
    <3>2. t \in Tabs => newPage.session = tab[t].session
      BY <1>1 DEF IsPage, Pages
    <3> HIDE DEF newPage
    <3>3. \A u \in Tabs : tab'[u].session = tab[u].session
      BY <1>1, <3>1, <3>2
    <3> QED
      BY <2>1, <3>3, SameHistory
  <2> QED
    BY <2>2, <2>3
<1>4. CASE request[r].reply = "report"
  <2>1. /\ stored' = session /\ history' = General!Prepend(r)
        /\ \/ tab' = [tab EXCEPT ![t].session = session, ![t].listed = history', ![t].code = "none",
                                  ![t].saved = request[r].saved]
           \/ tab' = tab
    BY <1>4 DEF General!Hear
  <2>2. /\ IsHistory' /\ Lists(history', session.id)
        /\ \A id : Lists(history, id) => Lists(history', id) \/ Len(history') = Kept
        /\ Len(history) = Kept => Len(history') = Kept
    BY <1>1, <1>2, <2>1, Prepended DEF HistorySafe
  <2> HIDE DEF session
  <2>3. \A u \in Tabs : tab'[u].session \in {session, tab[u].session}
    <3>1. CASE tab' = tab
      BY <3>1
    <3>2. CASE tab' # tab
      <4> DEFINE newPage == [tab[t] EXCEPT !.session = session, !.listed = history',
                               !.code = "none", !.saved = request[r].saved]
      <4>1. tab' = [tab EXCEPT ![t] = newPage]
        BY <2>1, <3>2
      <4>2. t \in Tabs => newPage.session = session
        BY <1>1 DEF IsPage, Pages
      <4> HIDE DEF newPage
      <4> QED
        BY <1>1, <4>1, <4>2
    <3> QED
      BY <3>1, <3>2
  <2>4. ASSUME NEW u \in Tabs PROVE IsKept(tab[u].session)'
    <3>1. CASE tab'[u].session = session
      BY <2>2, <3>1 DEF IsKept
    <3>2. CASE tab'[u].session = tab[u].session
      BY <2>2, <3>2 DEF HistorySafe, IsKept
    <3> QED
      BY <2>3, <3>1, <3>2
  <2>5. IsKept(stored)'
    BY <2>1, <2>2 DEF IsKept
  <2> QED
    BY <2>2, <2>4, <2>5 DEF HistorySafe
<1> QED
  BY <1>3, <1>4

\* Every step keeps the history.
LEMMA HistoryStep ==
  ASSUME General!InterviewAssumption, InterviewTypes, HistorySafe, [General!Next]_(General!vars)
  PROVE  HistorySafe'
<1>1. CASE \E t \in Tabs :
        \/ General!Open(t) \/ General!Leave(t) \/ General!Start(t) \/ General!Write(t)
        \/ General!Submit(t) \/ General!Retry(t) \/ General!EditAgain(t) \/ General!Reset(t)
  BY <1>1, PagesHistory
<1>2. CASE \E r \in Slots : General!Hear(r)
  BY <1>2, HearHistory
<1>3. ASSUME UNCHANGED <<stored, history, tab>> PROVE HistorySafe'
  BY <1>3, SameHistory
<1>4. CASE \E r \in Slots : General!Admit(r) \/ General!Mark(r) \/ General!Ask(r)
                               \/ General!Record(r) \/ General!Break(r)
  BY <1>3, <1>4 DEF General!Admit, General!Mark, General!Ask, General!Record, General!Break,
     General!Server
<1>5. CASE General!Expire \/ General!Publish \/ UNCHANGED General!vars
  BY <1>3, <1>5 DEF General!Expire, General!Publish, General!vars
<1> QED
  BY <1>1, <1>2, <1>4, <1>5 DEF General!Next

\* Every reachable state satisfies it.
THEOREM HistoryIsSafe == ASSUME General!InterviewAssumption PROVE General!Spec => []HistorySafe
<1>1. General!Init => HistorySafe
  BY HistoryInit
<1>2. InterviewSafe /\ HistorySafe /\ [General!Next]_(General!vars) => HistorySafe'
  BY HistoryStep DEF InterviewSafe
<1> QED
  BY <1>1, <1>2, InterviewIsSafe, PTL DEF General!Spec

\* A report on a page is in the local history, once, until the history is full,
\* whatever other tabs wrote to the storage since.
THEOREM ShownReportsAreKept == ASSUME General!InterviewAssumption PROVE General!Spec
    => []ShownIsKept
<1>1. InterviewSafe /\ HistorySafe => ShownIsKept
  <2>1. InterviewSafe => DOMAIN tab = Tabs
    <3>1. InterviewSafe => tab = [u \in Tabs |-> tab[u]]
      BY DEF InterviewSafe, InterviewTypes
    <3> QED
      BY <3>1, Zenon
  <2> SUFFICES ASSUME InterviewSafe, HistorySafe, NEW t \in Tabs, tab[t].session.status = "completed",
                      Len(history) # Kept
               PROVE  \E i \in DOMAIN history :
                        {j \in DOMAIN history : history[j].session = tab[t].session.id} = {i}
    BY <2>1 DEF ShownIsKept, General!ShownIsKept
  <2>2. PICK i \in DOMAIN history : history[i].session = tab[t].session.id
    BY DEF HistorySafe, IsKept, Lists
  <2>3. {j \in DOMAIN history : history[j].session = tab[t].session.id} = {i}
    BY <2>2 DEF HistorySafe, IsHistory
  <2> QED
    BY <2>3
<1> QED
  BY <1>1, InterviewIsSafe, HistoryIsSafe, PTL
==============================================================================
