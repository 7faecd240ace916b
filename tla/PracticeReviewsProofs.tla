------------------------- MODULE PracticeReviewsProofs -------------------------
(***************************************************************************)
(* Proofs about the daily reviews of a question, for any number of tabs,   *)
(* devices, requests, days, edits and resets: every variable keeps its     *)
(* type, the rows are of the schedule's generation, the schedule is that   *)
(* of the latest row, a day's first answer is final, and none is lost.     *)
(*                                                                         *)
(* What makes these inductive: no day has two rows; a question without a   *)
(* schedule has no rows; no copy, of whatever age and wherever kept, is of *)
(* a day, version or generation still to come; and until the first edit or *)
(* reset no request has anything to discard.                               *)
(***************************************************************************)
EXTENDS PracticeReviews, TLAPS

-----------------------------------------------------------------------------
(* Types.  A review, wherever it is kept, is of no later day, version or   *)
(* generation than the server has come to.                                 *)

Ratings == UNION {Answers[t] : t \in Tabs}
Reviews == [day : 1..today, rating : Ratings, gen : 0..state.gen, ver : 1..version,
            attempt : Tabs \cup {None}]
Known == [exists : BOOLEAN, gen : 0..state.gen, last : Nat, rating : Ratings \cup {"none"}]
Payload == [rows : SUBSET Reviews, known : Known]
Page == [open : BOOLEAN, ver : 1..version, first : Payload, cloud : Payload]
Call == [phase : {"none", "sent", "working", "reading", "answered"}, tab : Tabs \cup {None},
         todo : SUBSET Reviews, marked : SUBSET Reviews,
         resolved : SUBSET Reviews, discarded : SUBSET Reviews, payload : Payload]

ServerOK ==
  /\ rows \subseteq Reviews
  /\ state \in [exists : BOOLEAN, gen : Nat, last : Nat, rating : Ratings \cup {"none"}]
  /\ version \in Nat \ {0} /\ today \in Nat \ {0}

BrowsersOK ==
  /\ home \in [Tabs -> Devices]
  /\ store \in [Devices -> SUBSET Reviews]
  /\ page \in [Tabs -> Page]
  /\ call \in [Calls -> Call] /\ sent \in Nat
  /\ answers \subseteq [device : Devices, review : Reviews]

PracticeTypeOK == ServerOK /\ BrowsersOK

-----------------------------------------------------------------------------
(* The inductive invariant.                                                *)

OneADay == \A r, s \in rows : r.day = s.day => r = s

ScheduleInv ==
  /\ OneADay /\ RowsOfOneGeneration /\ ScheduleFollowsLatest
  /\ ~ state.exists => state.last = 0
  /\ state.last = 0 => rows = {}

\* The question has neither been edited nor its history reset.
AsFirstWritten == state.gen = 0 /\ version = 1

NoneDiscarded == AsFirstWritten => \A c \in Calls : call[c].discarded = {}

PracticeInv == PracticeTypeOK /\ ScheduleInv /\ NoneDiscarded /\ NoAnswerLost

-----------------------------------------------------------------------------
(* Sets of reviews.                                                        *)

\* A merge has the days of both sides and reviews of no other.
LEMMA MergeHasBoth ==
  ASSUME NEW S, NEW T
  PROVE  /\ MergeProgress(S, T) \subseteq S \cup T /\ T \subseteq MergeProgress(S, T)
         /\ DaysOf(MergeProgress(S, T)) = DaysOf(S) \cup DaysOf(T)
BY DEF MergeProgress, DaysOf

\* A review without its attempt is otherwise the same.
LEMMA RowOfReview ==
  ASSUME NEW r \in Reviews
  PROVE  /\ Row(r) \in Reviews /\ Row(r).day = r.day /\ Row(r).rating = r.rating
         /\ Row(r).gen = r.gen /\ Row(r).ver = r.ver
BY DEF Row, Reviews

\* Until the first edit or reset, reviews of a day are of one identity and a
\* page forgets none of them.
LEMMA OneHistory ==
  ASSUME AsFirstWritten
  PROVE  /\ \A r, s \in Reviews : SameIdentity(r, s) <=> r.day = s.day
         /\ \A S \in SUBSET Reviews, known \in Known : OfHistory(S, known) = S
         /\ \A r \in Reviews, p \in Page : r.ver = p.ver
<1>1. \A r \in Reviews : r.gen = 0 /\ r.ver = 1
  BY DEF Reviews, AsFirstWritten
<1>2. (\A known \in Known : known.gen = 0) /\ (\A p \in Page : p.ver = 1)
  BY DEF Known, Page, AsFirstWritten
<1> QED
  BY <1>1, <1>2 DEF SameIdentity, OfHistory

\* The answers are where NoAnswerLost wants them if their days are.
LEMMA AnswersByDay ==
  ASSUME PracticeTypeOK, AsFirstWritten
  PROVE  NoAnswerLost <=>
           \A a \in answers : a.review.day \in DaysOf(rows) \cup DaysOf(store[a.device])
<1>1. /\ rows \subseteq Reviews
      /\ \A a \in answers : a.review \in Reviews /\ store[a.device] \subseteq Reviews
  BY DEF PracticeTypeOK, ServerOK, BrowsersOK
<1>2. \A a \in answers :
        /\ (\E r \in rows : SameIdentity(r, a.review)) <=> a.review.day \in DaysOf(rows)
        /\ (\E r \in store[a.device] : SameIdentity(r, a.review))
             <=> a.review.day \in DaysOf(store[a.device])
  BY <1>1, OneHistory DEF DaysOf
<1> QED
  BY <1>2 DEF NoAnswerLost, AsFirstWritten

-----------------------------------------------------------------------------
(* Types from step to step.                                                *)

\* Where the day, the version and the generation stay, so do the types.
LEMMA SameTypes ==
  ASSUME today' = today, version' = version, state'.gen = state.gen
  PROVE  Reviews' = Reviews /\ Known' = Known /\ Payload' = Payload /\ Page' = Page /\ Call' = Call
<1>1. Reviews' = Reviews /\ Known' = Known
  BY DEF Reviews, Known
<1>2. Payload' = Payload
  BY <1>1 DEF Payload
<1> QED
  BY <1>1, <1>2 DEF Page, Call

\* Where they grow, what was typed remains so.
LEMMA GrowingTypes ==
  ASSUME today \in Nat, version \in Nat, state.gen \in Nat,
         today' \in Nat, version' \in Nat, state'.gen \in Nat,
         today <= today', version <= version', state.gen <= state'.gen
  PROVE  /\ Reviews \subseteq Reviews' /\ Page \subseteq Page' /\ Call \subseteq Call'
<1>1. 1..today \subseteq 1..today' /\ 1..version \subseteq 1..version' /\ 0..state.gen \subseteq 0..state'.gen
  OBVIOUS
<1>2. Reviews \subseteq Reviews' /\ Known \subseteq Known'
  BY <1>1 DEF Reviews, Known
<1>3. Payload \subseteq Payload'
  BY <1>2 DEF Payload
<1> QED
  BY <1>1, <1>2, <1>3 DEF Page, Call

\* The types the steps start from.
LEMMA TypeFacts ==
  ASSUME PracticeTypeOK
  PROVE  /\ rows \subseteq Reviews /\ today \in Nat \ {0} /\ version \in Nat \ {0}
         /\ state \in Known /\ state.gen \in Nat
         /\ home \in [Tabs -> Devices] /\ store \in [Devices -> SUBSET Reviews]
         /\ page \in [Tabs -> Page] /\ call \in [Calls -> Call] /\ sent \in Nat
         /\ answers \subseteq [device : Devices, review : Reviews]
         /\ NoState \in Known /\ Nothing \in Payload /\ Closed \in Page /\ Quiet \in Call
         /\ Quiet.discarded = {}
<1>1. state.gen \in Nat /\ version \in Nat \ {0} /\ today \in Nat \ {0}
  BY DEF PracticeTypeOK, ServerOK
<1>2. state \in Known
  BY <1>1 DEF PracticeTypeOK, ServerOK, Known
<1>3. NoState \in Known
  BY <1>1 DEF NoState, Known
<1>4. Nothing \in Payload
  BY <1>3 DEF Nothing, Payload
<1>5. Closed \in Page
  BY <1>1, <1>4 DEF Closed, Page
<1>6. Quiet \in Call /\ Quiet.discarded = {}
  BY <1>4 DEF Quiet, Call
<1> QED
  BY <1>1, <1>2, <1>3, <1>4, <1>5, <1>6 DEF PracticeTypeOK, ServerOK, BrowsersOK

\* An answer stays where it is while no day leaves the rows or a store.
LEMMA NoDayLost ==
  ASSUME PracticeInv, PracticeTypeOK', AsFirstWritten' => AsFirstWritten,
         AsFirstWritten' =>
           /\ DaysOf(rows) \subseteq DaysOf(rows')
           /\ \A d \in Devices : DaysOf(store[d]) \subseteq DaysOf(store'[d])
           /\ \A a \in answers' :
                a \in answers \/ a.review.day \in DaysOf(store'[a.device])
  PROVE  NoAnswerLost'
<1> SUFFICES ASSUME AsFirstWritten'
             PROVE  NoAnswerLost'
  BY DEF NoAnswerLost, AsFirstWritten
<1>1. \A a \in answers : a.device \in Devices
  BY DEF PracticeInv, PracticeTypeOK, BrowsersOK
<1>2. \A a \in answers : a.review.day \in DaysOf(rows) \cup DaysOf(store[a.device])
  BY AnswersByDay DEF PracticeInv
<1>3. \A a \in answers' : a.review.day \in DaysOf(rows') \cup DaysOf(store'[a.device])
  BY <1>1, <1>2
<1>4. /\ rows' \subseteq Reviews'
      /\ \A a \in answers' : a.review \in Reviews' /\ store'[a.device] \subseteq Reviews'
  BY DEF PracticeTypeOK, ServerOK, BrowsersOK
<1>5. \A r \in Reviews' : r.gen = 0 /\ r.ver = 1
  BY DEF Reviews, AsFirstWritten
<1>6. ASSUME NEW a \in answers'
      PROVE  \/ \E r \in rows' : SameIdentity(r, a.review)
             \/ \E r \in store'[a.device] : SameIdentity(r, a.review)
  <2>1. a.review.gen = 0 /\ a.review.ver = 1
    BY <1>4, <1>5
  <2>2. \A r \in rows' \cup store'[a.device] : r.gen = 0 /\ r.ver = 1
    BY <1>4, <1>5
  <2> QED
    BY <1>3, <2>1, <2>2 DEF DaysOf, SameIdentity
<1> QED
  BY <1>6 DEF NoAnswerLost

-----------------------------------------------------------------------------
(* The server's steps.                                                     *)

\* The schedule's invariant where rows and schedule stay.
LEMMA SameSchedule ==
  ASSUME ScheduleInv, UNCHANGED <<rows, state>>
  PROVE  ScheduleInv'
BY DEF ScheduleInv, OneADay, RowsOfOneGeneration, ScheduleFollowsLatest

\* A reset, the first action on the schedule, an edit and the passing of a day.
LEMMA OutsideKeeps ==
  ASSUME PracticeInv, Reset \/ ManageFirst \/ Edit \/ NextDay
  PROVE  PracticeInv'
<1>1. /\ UNCHANGED <<home, store, page, call, sent, answers>>
      /\ PracticeTypeOK /\ ScheduleInv /\ NoneDiscarded /\ NoAnswerLost
  BY DEF Reset, ManageFirst, Edit, NextDay, browsers, PracticeInv
<1>2. /\ rows \subseteq Reviews /\ today \in Nat \ {0} /\ version \in Nat \ {0} /\ state.gen \in Nat
      /\ state \in [exists : BOOLEAN, gen : Nat, last : Nat, rating : Ratings \cup {"none"}]
      /\ home \in [Tabs -> Devices] /\ store \in [Devices -> SUBSET Reviews]
      /\ page \in [Tabs -> Page] /\ call \in [Calls -> Call] /\ sent \in Nat
      /\ answers \subseteq [device : Devices, review : Reviews]
  BY <1>1, TypeFacts DEF PracticeTypeOK, ServerOK
\* A schedule made anew has the next generation and no review.
<1>3. ASSUME state' = [NoState EXCEPT !.exists = TRUE, !.gen = state.gen + 1]
      PROVE  /\ state'.gen = state.gen + 1 /\ state'.exists /\ state'.last = 0
             /\ state' \in [exists : BOOLEAN, gen : Nat, last : Nat, rating : Ratings \cup {"none"}]
  <2>1. /\ NoState \in [exists : BOOLEAN, gen : Nat, last : Nat, rating : Ratings \cup {"none"}]
        /\ NoState.last = 0
    BY DEF NoState
  <2>2. state.gen + 1 \in Nat /\ TRUE \in BOOLEAN
    BY <1>2
  <2>3. /\ state'.exists = TRUE /\ state'.gen = state.gen + 1 /\ state'.last = NoState.last
        /\ state' \in [exists : BOOLEAN, gen : Nat, last : Nat, rating : Ratings \cup {"none"}]
    BY <1>3, <2>1, <2>2
  <2> QED
    BY <2>1, <2>3
<1>4. /\ today' \in Nat \ {0} /\ version' \in Nat \ {0} /\ state'.gen \in Nat
      /\ today <= today' /\ version <= version' /\ state.gen <= state'.gen
      /\ state' \in [exists : BOOLEAN, gen : Nat, last : Nat, rating : Ratings \cup {"none"}]
      /\ rows' \subseteq rows
  BY <1>2, <1>3 DEF Reset, ManageFirst, Edit, NextDay
<1>5. Reviews \subseteq Reviews' /\ Page \subseteq Page' /\ Call \subseteq Call'
  BY <1>2, <1>4, GrowingTypes
<1>6. ServerOK'
  BY <1>2, <1>4, <1>5 DEF ServerOK
<1>7. BrowsersOK'
  BY <1>1, <1>2, <1>5 DEF BrowsersOK
<1>8. ScheduleInv'
  <2>1. CASE Reset
    BY <1>3, <2>1 DEF Reset, ScheduleInv, OneADay, RowsOfOneGeneration, ScheduleFollowsLatest
  <2>2. CASE ManageFirst
    <3>1. rows' = {}
      BY <1>1, <2>2 DEF ManageFirst, ScheduleInv
    <3> QED
      BY <1>3, <2>2, <3>1
      DEF ManageFirst, ScheduleInv, OneADay, RowsOfOneGeneration, ScheduleFollowsLatest
  <2>3. CASE Edit \/ NextDay
    BY <1>1, <2>3, SameSchedule DEF Edit, NextDay
  <2> QED
    BY <2>1, <2>2, <2>3
<1>9. AsFirstWritten' => AsFirstWritten /\ UNCHANGED <<rows, state>>
  <2>1. CASE Reset \/ ManageFirst
    BY <1>2, <1>3, <2>1 DEF Reset, ManageFirst, AsFirstWritten
  <2>2. CASE Edit \/ NextDay
    BY <1>2, <1>4, <2>2 DEF Edit, NextDay, AsFirstWritten
  <2> QED
    BY <2>1, <2>2
<1>10. NoneDiscarded'
  BY <1>1, <1>9 DEF NoneDiscarded
<1>11. NoAnswerLost'
  BY <1>1, <1>6, <1>7, <1>9, NoDayLost DEF PracticeTypeOK
<1> QED
  BY <1>6, <1>7, <1>8, <1>10, <1>11 DEF PracticeInv, PracticeTypeOK

\* What record_practice_review does to rows and schedule.
LEMMA RecordingKeepsSchedule ==
  ASSUME PracticeTypeOK, ScheduleInv, NEW r \in Reviews, RecordPracticeReview(r),
         today' = today, version' = version
  PROVE  /\ ServerOK' /\ ScheduleInv' /\ state'.gen = state.gen
         /\ DaysOf(rows) \subseteq DaysOf(rows')
         /\ \A q \in rows, s \in rows' : SameIdentity(q, s) => s.rating = q.rating
<1>1. /\ rows \subseteq Reviews /\ today \in Nat \ {0} /\ version \in Nat \ {0} /\ state.gen \in Nat
      /\ state \in [exists : BOOLEAN, gen : Nat, last : Nat, rating : Ratings \cup {"none"}]
  BY TypeFacts DEF PracticeTypeOK, ServerOK
<1>2. /\ OneADay /\ RowsOfOneGeneration /\ ScheduleFollowsLatest
      /\ (~ state.exists => state.last = 0) /\ (state.last = 0 => rows = {})
  BY DEF ScheduleInv
<1>3. /\ Row(r) \in Reviews /\ Row(r).day = r.day /\ Row(r).rating = r.rating
      /\ Row(r).gen = r.gen /\ Row(r).ver = r.ver
  BY RowOfReview
<1>4. r.day \in Nat \ {0} /\ r.gen \in Nat /\ r.rating \in Ratings
  BY <1>1 DEF Reviews
<1>5. \A q \in rows : q.day \in Nat
  BY <1>1 DEF Reviews
<1> DEFINE o == Outcome(r)
<1>6. CASE o \in {"reset_discarded", "rated_otherwise"}
  <2>1. UNCHANGED <<rows, state>>
    BY <1>6 DEF RecordPracticeReview
  <2>2. ServerOK' /\ ScheduleInv'
    BY <1>1, <1>2, <2>1, SameTypes, SameSchedule DEF ServerOK
  <2>3. \A q, s \in rows : SameIdentity(q, s) => q = s
    BY <1>2 DEF OneADay, SameIdentity
  <2> QED
    BY <2>1, <2>2, <2>3
<1>7. CASE o \notin {"reset_discarded", "rated_otherwise"}
  <2>1. /\ state.gen = r.gen
        /\ \A q \in rows : SameIdentity(q, r) => q.rating = r.rating
    BY <1>7 DEF Outcome
  <2>2. rows' = {Row(r)} \cup {q \in rows : q.day # r.day}
    BY <1>3, <1>7 DEF RecordPracticeReview, MergeProgress, DaysOf
  <2> DEFINE kept == Row(r)
  <2>3. /\ kept \in Reviews /\ kept.day = r.day /\ kept.rating = r.rating
        /\ kept.gen = r.gen /\ kept.ver = r.ver
        /\ rows' = {kept} \cup {q \in rows : q.day # r.day}
    BY <1>3, <2>2
  <2> HIDE DEF kept
  <2>4. OneADay' /\ DaysOf(rows) \subseteq DaysOf(rows')
    BY <1>2, <2>3 DEF OneADay, DaysOf
  <2>5. \A q \in rows, s \in rows' : SameIdentity(q, s) => s.rating = q.rating
    BY <1>2, <2>1, <2>3 DEF OneADay, SameIdentity
  <2>6. CASE o = "history_recorded"
    <3>1. state' = state /\ state.last # 0 /\ r.day < state.last
      BY <2>6 DEF RecordPracticeReview, Outcome
    <3>2. ScheduleFollowsLatest'
      BY <1>1, <1>2, <1>4, <2>3, <3>1 DEF ScheduleFollowsLatest
    <3>3. RowsOfOneGeneration' /\ ServerOK'
      BY <1>1, <1>2, <2>1, <2>3, <3>1, SameTypes DEF RowsOfOneGeneration, ServerOK
    <3> QED
      BY <1>2, <2>4, <2>5, <3>1, <3>2, <3>3 DEF ScheduleInv
  <2>7. CASE o \in {"recorded", "already_recorded"}
    <3>1. /\ state' = [exists |-> TRUE, gen |-> r.gen, last |-> r.day, rating |-> r.rating]
          /\ ~ (state.last # 0 /\ r.day < state.last)
      BY <2>7 DEF RecordPracticeReview, Outcome
    <3>2. \A q \in rows : q.day <= r.day
      BY <1>1, <1>2, <1>4, <1>5, <3>1 DEF ScheduleFollowsLatest
    <3>3. ScheduleFollowsLatest'
      BY <1>4, <2>3, <3>1, <3>2 DEF ScheduleFollowsLatest
    <3>4. RowsOfOneGeneration' /\ state'.gen = state.gen
      BY <1>2, <2>1, <2>3, <3>1 DEF RowsOfOneGeneration
    <3>5. ServerOK'
      BY <1>1, <1>4, <2>3, <3>1, <3>4, SameTypes DEF ServerOK
    <3>6. state'.exists /\ state'.last # 0
      BY <1>4, <3>1
    <3> QED
      BY <2>4, <2>5, <3>3, <3>4, <3>5, <3>6 DEF ScheduleInv
  <2> QED
    BY <1>7, <2>6, <2>7 DEF Outcome
<1> QED
  BY <1>6, <1>7

\* A step that leaves the server alone keeps its invariant and the types.
LEMMA ServerUntouched ==
  ASSUME PracticeInv, UNCHANGED <<rows, state, version, today>>
  PROVE  /\ ServerOK' /\ ScheduleInv' /\ (AsFirstWritten' <=> AsFirstWritten)
         /\ Reviews' = Reviews /\ Known' = Known /\ Payload' = Payload /\ Page' = Page
         /\ Call' = Call
<1>1. ServerOK /\ ScheduleInv
  BY DEF PracticeInv, PracticeTypeOK
<1>2. Reviews' = Reviews
  BY SameTypes
<1>3. ServerOK'
  BY <1>1, <1>2 DEF ServerOK
<1> QED
  BY <1>1, <1>3, SameTypes, SameSchedule DEF AsFirstWritten

\* A handler's step that touches no row, or one that a request gives up.
LEMMA CallStepKeeps ==
  ASSUME PracticeInv, NEW c \in Calls, NEW k \in Call, call' = [call EXCEPT ![c] = k],
         k.discarded \in {{}, call[c].discarded},
         UNCHANGED <<rows, state, version, today, home, store, page, sent, answers>>
  PROVE  PracticeInv'
<1>1. /\ call \in [Calls -> Call] /\ home \in [Tabs -> Devices] /\ sent \in Nat
      /\ store \in [Devices -> SUBSET Reviews] /\ page \in [Tabs -> Page]
      /\ answers \subseteq [device : Devices, review : Reviews] /\ NoneDiscarded
  BY TypeFacts DEF PracticeInv
<1>2. BrowsersOK'
  BY <1>1, ServerUntouched DEF BrowsersOK
<1>3. NoneDiscarded'
  BY <1>1, ServerUntouched DEF NoneDiscarded
<1>4. NoAnswerLost'
  BY <1>2, ServerUntouched, NoDayLost DEF PracticeTypeOK
<1> QED
  BY <1>2, <1>3, <1>4, ServerUntouched DEF PracticeInv, PracticeTypeOK

\* Admitting a request, capturing a mistake, reading and failing.
LEMMA QuietHandlerKeeps ==
  ASSUME PracticeInv, NEW c \in Calls,
         Admit(c) \/ CaptureMistake(c) \/ ReadRows(c) \/ ReadState(c) \/ Fail(c)
  PROVE  PracticeInv'
<1> DEFINE k == call[c]
<1>1. /\ k \in Call /\ k.payload \in Payload /\ rows \subseteq Reviews /\ state \in Known
      /\ Quiet \in Call /\ Quiet.discarded = {}
  <2>1. /\ call \in [Calls -> Call] /\ rows \subseteq Reviews /\ state \in Known
        /\ Quiet \in Call /\ Quiet.discarded = {}
    BY TypeFacts DEF PracticeInv
  <2> QED
    BY <2>1 DEF Call
<1>2. UNCHANGED <<rows, state, version, today, home, store, page, sent, answers>>
  BY DEF Admit, CaptureMistake, ReadRows, ReadState, Fail, server
<1>3. CASE Set(c, Quiet)
  BY <1>1, <1>2, <1>3, CallStepKeeps DEF Set
<1>4. ASSUME NEW n \in Call, Set(c, n), n.discarded = k.discarded
      PROVE  PracticeInv'
  BY <1>2, <1>4, CallStepKeeps DEF Set
<1>5. CASE Admit(c)
  <2>1. [k EXCEPT !.phase = "working"] \in Call /\ [k EXCEPT !.phase = "working"].discarded = k.discarded
    BY <1>1 DEF Call
  <2> QED
    BY <1>3, <1>4, <1>5, <2>1 DEF Admit
<1>6. CASE CaptureMistake(c)
  <2>1. PICK r \in k.marked : Set(c, [k EXCEPT !.marked = k.marked \ {r}, !.resolved = k.resolved \cup {r}])
    BY <1>6 DEF CaptureMistake
  <2> DEFINE n == [k EXCEPT !.marked = k.marked \ {r}, !.resolved = k.resolved \cup {r}]
  <2>2. n \in Call /\ n.discarded = k.discarded
    BY <1>1 DEF Call
  <2> QED
    BY <1>4, <2>1, <2>2
<1>7. CASE ReadRows(c)
  <2> DEFINE n == [k EXCEPT !.phase = "reading", !.payload.rows = rows]
  <2>1. n = [k EXCEPT !.phase = "reading", !.payload = [k.payload EXCEPT !.rows = rows]]
    BY <1>1 DEF Call
  <2>2. [k.payload EXCEPT !.rows = rows] \in Payload
    BY <1>1 DEF Payload
  <2>3. n \in Call /\ n.discarded = k.discarded
    <3> HIDE DEF n
    <3> QED
      BY <1>1, <2>1, <2>2 DEF Call
  <2> QED
    BY <1>3, <1>4, <1>7, <2>3 DEF ReadRows
<1>8. CASE ReadState(c)
  <2> DEFINE p == [rows |-> OfHistory(k.payload.rows, state), known |-> state]
             n == [k EXCEPT !.phase = "answered", !.payload = p]
  <2>1. p \in Payload
    BY <1>1 DEF Payload, OfHistory
  <2>2. Set(c, n)
    BY <1>8 DEF ReadState
  <2> HIDE DEF p
  <2>3. n \in Call /\ n.discarded = k.discarded
    BY <1>1, <2>1 DEF Call
  <2> HIDE DEF n
  <2> QED
    BY <1>4, <2>2, <2>3
<1> QED
  BY <1>3, <1>5, <1>6, <1>7, <1>8 DEF Fail

\* A review is recorded, or found to be of another history.
LEMMA RecordKeeps ==
  ASSUME PracticeInv, NEW c \in Calls, Record(c)
  PROVE  PracticeInv'
<1> DEFINE k == call[c]
<1>1. PICK r \in k.todo :
        /\ RecordPracticeReview(r)
        /\ LET authoritative == Outcome(r) \in {"recorded", "already_recorded"}
           IN Set(c, [k EXCEPT
                !.todo = k.todo \ {r},
                !.discarded = IF Outcome(r) = "reset_discarded" THEN k.discarded \cup {r} ELSE k.discarded,
                !.marked = IF r.attempt # None /\ authoritative THEN k.marked \cup {r} ELSE k.marked,
                !.resolved = IF r.attempt # None /\ ~ authoritative THEN k.resolved \cup {r}
                             ELSE k.resolved])
        /\ UNCHANGED <<version, today, home, store, page, sent, answers>>
  BY DEF Record
<1>2. /\ call \in [Calls -> Call] /\ home \in [Tabs -> Devices] /\ sent \in Nat
      /\ store \in [Devices -> SUBSET Reviews] /\ page \in [Tabs -> Page]
      /\ answers \subseteq [device : Devices, review : Reviews]
      /\ PracticeTypeOK /\ ScheduleInv /\ NoneDiscarded
  BY TypeFacts DEF PracticeInv
<1>3. k \in Call /\ r \in Reviews
  BY <1>2 DEF Call
<1>4. PICK todo \in SUBSET Reviews, discarded \in SUBSET Reviews, marked \in SUBSET Reviews,
           resolved \in SUBSET Reviews :
        /\ Set(c, [k EXCEPT !.todo = todo, !.discarded = discarded, !.marked = marked,
                            !.resolved = resolved])
        /\ discarded = k.discarded \/ Outcome(r) = "reset_discarded"
  <2>1. k.todo \subseteq Reviews /\ k.discarded \subseteq Reviews /\ k.marked \subseteq Reviews
        /\ k.resolved \subseteq Reviews
    BY <1>3 DEF Call
  <2> DEFINE authoritative == Outcome(r) \in {"recorded", "already_recorded"}
             todo == k.todo \ {r}
             discarded == IF Outcome(r) = "reset_discarded" THEN k.discarded \cup {r} ELSE k.discarded
             marked == IF r.attempt # None /\ authoritative THEN k.marked \cup {r} ELSE k.marked
             resolved == IF r.attempt # None /\ ~ authoritative THEN k.resolved \cup {r}
                         ELSE k.resolved
  <2>2. /\ todo \in SUBSET Reviews /\ discarded \in SUBSET Reviews /\ marked \in SUBSET Reviews
        /\ resolved \in SUBSET Reviews
        /\ discarded = k.discarded \/ Outcome(r) = "reset_discarded"
    BY <1>3, <2>1
  <2>3. Set(c, [k EXCEPT !.todo = todo, !.discarded = discarded, !.marked = marked,
                         !.resolved = resolved])
    BY <1>1
  <2> HIDE DEF todo, discarded, marked, resolved, k
  <2> QED
    BY <2>2, <2>3
<1> DEFINE n == [k EXCEPT !.todo = todo, !.discarded = discarded, !.marked = marked,
                          !.resolved = resolved]
<1>5. n \in Call /\ n.discarded = discarded
  BY <1>3, <1>4 DEF Call
<1>6. /\ ServerOK' /\ ScheduleInv' /\ state'.gen = state.gen /\ DaysOf(rows) \subseteq DaysOf(rows')
  BY <1>1, <1>2, <1>3, RecordingKeepsSchedule
<1>7. call' = [call EXCEPT ![c] = n]
  BY <1>4 DEF Set
<1> HIDE DEF n
<1>8. Reviews' = Reviews /\ Page' = Page /\ Call' = Call
  BY <1>1, <1>6, SameTypes
<1>9. BrowsersOK'
  BY <1>1, <1>2, <1>5, <1>7, <1>8 DEF BrowsersOK
<1>10. AsFirstWritten' <=> AsFirstWritten
  BY <1>1, <1>6 DEF AsFirstWritten
<1>11. AsFirstWritten => discarded = k.discarded
  BY <1>3, <1>4 DEF AsFirstWritten, Reviews, Outcome
<1>12. NoneDiscarded'
  BY <1>2, <1>5, <1>7, <1>10, <1>11 DEF NoneDiscarded
<1>13. NoAnswerLost'
  BY <1>1, <1>6, <1>9, <1>10, NoDayLost DEF PracticeTypeOK
<1> QED
  BY <1>6, <1>9, <1>12, <1>13 DEF PracticeInv, PracticeTypeOK

-----------------------------------------------------------------------------
(* The tabs' steps.                                                        *)

\* What a step of a tab keeps that forgets no day of any store.
LEMMA TabKeeps ==
  ASSUME PracticeInv, UNCHANGED <<rows, state, version, today, home>>,
         store' \in [Devices -> SUBSET Reviews], page' \in [Tabs -> Page],
         call' \in [Calls -> Call], sent' \in Nat,
         answers' \subseteq [device : Devices, review : Reviews],
         AsFirstWritten =>
           /\ \A c \in Calls : call'[c].discarded = {}
           /\ \A d \in Devices : DaysOf(store[d]) \subseteq DaysOf(store'[d])
           /\ \A a \in answers' : a \in answers \/ a.review.day \in DaysOf(store'[a.device])
  PROVE  PracticeInv'
<1>1. home \in [Tabs -> Devices]
  BY TypeFacts DEF PracticeInv
<1>2. BrowsersOK'
  BY <1>1, ServerUntouched DEF BrowsersOK
<1>3. NoneDiscarded'
  BY ServerUntouched DEF NoneDiscarded
<1>4. NoAnswerLost'
  BY <1>2, ServerUntouched, NoDayLost DEF PracticeTypeOK
<1> QED
  BY <1>2, <1>3, <1>4, ServerUntouched DEF PracticeInv, PracticeTypeOK

\* A page is opened with what the cloud has, or closed.
LEMMA OpenKeeps ==
  ASSUME PracticeInv, NEW t \in Tabs, Open(t) \/ Close(t)
  PROVE  PracticeInv'
<1>1. /\ rows \subseteq Reviews /\ state \in Known /\ home \in [Tabs -> Devices]
      /\ store \in [Devices -> SUBSET Reviews] /\ page \in [Tabs -> Page]
      /\ call \in [Calls -> Call] /\ sent \in Nat /\ version \in Nat \ {0}
      /\ answers \subseteq [device : Devices, review : Reviews]
      /\ Closed \in Page /\ Quiet \in Call /\ Quiet.discarded = {} /\ NoneDiscarded
  BY TypeFacts DEF PracticeInv
<1>2. UNCHANGED <<rows, state, version, today, home, store, answers>>
  BY DEF Open, Close, server
<1>3. CASE Open(t)
  <2> DEFINE payload == [rows |-> OfHistory(rows, state), known |-> state]
             p == [open |-> TRUE, ver |-> version, first |-> payload, cloud |-> payload]
  <2>1. payload \in Payload
    BY <1>1 DEF Payload, OfHistory
  <2>2. page' = [page EXCEPT ![t] = p] /\ call' = call /\ sent' = sent + 1
    BY <1>3 DEF Open
  <2> HIDE DEF payload
  <2>3. p \in Page
    BY <1>1, <2>1 DEF Page
  <2> HIDE DEF p
  <2> QED
    BY <1>1, <1>2, <2>2, <2>3, TabKeeps DEF NoneDiscarded
<1>4. CASE Close(t)
  <2> DEFINE left(c) ==
        CASE call[c].tab # t -> call[c]
          [] call[c].tab = t /\ call[c].phase \in {"sent", "working"}
              -> [call[c] EXCEPT !.tab = None]
          [] OTHER -> Quiet
  <2>1. page' = [page EXCEPT ![t] = Closed] /\ call' = [c \in Calls |-> left(c)] /\ sent' = sent
    BY <1>4 DEF Close
  <2>2. ASSUME NEW c \in Calls
        PROVE  left(c) \in Call /\ left(c).discarded \in {{}, call[c].discarded}
    <3>1. call[c] \in Call
      BY <1>1
    <3>2. CASE call[c].tab # t
      BY <3>1, <3>2
    <3>3. CASE call[c].tab = t /\ call[c].phase \in {"sent", "working"}
      <4>1. left(c) = [call[c] EXCEPT !.tab = None]
        BY <3>3
      <4> HIDE DEF left
      <4> QED
        BY <3>1, <4>1 DEF Call
    <3>4. CASE call[c].tab = t /\ call[c].phase \notin {"sent", "working"}
      <4>1. left(c) = Quiet
        BY <3>4
      <4> QED
        BY <1>1, <4>1
    <3> QED
      BY <3>2, <3>3, <3>4
  <2> HIDE DEF left
  <2>3. call' \in [Calls -> Call] /\ (AsFirstWritten => \A c \in Calls : call'[c].discarded = {})
    BY <1>1, <2>1, <2>2 DEF NoneDiscarded
  <2> QED
    BY <1>1, <1>2, <2>1, <2>3, TabKeeps
<1> QED
  BY <1>3, <1>4

\* A request has nothing to discard before the first edit.
LEMMA RequestKeeps ==
  ASSUME PracticeInv, NEW c \in Calls, NEW t \in Tabs,
         NEW reviews \in SUBSET Reviews, Request(c, t, reviews)
  PROVE  /\ call' \in [Calls -> Call] /\ sent' \in Nat
         /\ AsFirstWritten => \A x \in Calls : call'[x].discarded = {}
<1>1. /\ call \in [Calls -> Call] /\ sent \in Nat /\ page \in [Tabs -> Page]
      /\ Quiet \in Call /\ NoneDiscarded
  BY TypeFacts DEF PracticeInv
<1> DEFINE accepted == {r \in reviews : r.ver = page[t].ver}
           resolved == {r \in reviews \ accepted : r.attempt # None}
           refused == reviews \ accepted
           n == [Quiet EXCEPT !.phase = "sent", !.tab = t, !.todo = accepted,
                              !.discarded = refused, !.resolved = resolved]
<1>2. call' = [call EXCEPT ![c] = n] /\ sent' = sent + 1
  BY DEF Request, Set
<1>3. accepted \in SUBSET Reviews /\ resolved \in SUBSET Reviews /\ refused \in SUBSET Reviews
  OBVIOUS
<1>4. AsFirstWritten => refused = {}
  BY <1>1, OneHistory
<1> HIDE DEF accepted, resolved, refused
<1>5. n \in Call /\ n.discarded = refused
  BY <1>1, <1>3 DEF Call
<1> HIDE DEF n
<1> QED
  BY <1>1, <1>2, <1>4, <1>5 DEF NoneDiscarded

\* The store takes in what the page was loaded with.
LEMMA InitialSyncKeeps ==
  ASSUME PracticeInv, NEW t \in Tabs, NEW c \in Calls, InitialSync(t, c)
  PROVE  PracticeInv'
<1> DEFINE d == home[t]
           first == page[t].first
           merged == MergeProgress(first.rows, OfHistory(store[d], first.known))
           reviews == {r \in OfHistory(merged, first.known) :
                         r.attempt # None \/ r.day \notin DaysOf(first.rows)}
<1>1. /\ home \in [Tabs -> Devices] /\ store \in [Devices -> SUBSET Reviews]
      /\ page \in [Tabs -> Page] /\ answers \subseteq [device : Devices, review : Reviews]
  BY TypeFacts DEF PracticeInv
<1>2. /\ store' = [store EXCEPT ![d] = merged] /\ Request(c, t, reviews)
      /\ UNCHANGED <<rows, state, version, today, home, page, answers>>
  BY DEF InitialSync, server
<1>3. first.rows \subseteq Reviews /\ first.known \in Known /\ d \in Devices
      /\ store[d] \subseteq Reviews
  BY <1>1 DEF Page, Payload
<1>4. OfHistory(store[d], first.known) \subseteq store[d]
  BY DEF OfHistory
<1>5. merged \subseteq Reviews /\ reviews \subseteq Reviews
  BY <1>3, <1>4, MergeHasBoth DEF OfHistory
<1>6. AsFirstWritten => DaysOf(store[d]) \subseteq DaysOf(merged)
  BY <1>3, OneHistory, MergeHasBoth
<1> HIDE DEF merged, reviews, d
<1>7. /\ store' \in [Devices -> SUBSET Reviews]
      /\ AsFirstWritten => \A e \in Devices : DaysOf(store[e]) \subseteq DaysOf(store'[e])
  BY <1>1, <1>2, <1>3, <1>5, <1>6
<1>8. /\ call' \in [Calls -> Call] /\ sent' \in Nat
      /\ AsFirstWritten => \A x \in Calls : call'[x].discarded = {}
  BY <1>2, <1>5, RequestKeeps
<1> QED
  BY <1>1, <1>2, <1>7, <1>8, TabKeeps

\* An answer is given, or the day's first one stays.
LEMMA RateKeeps ==
  ASSUME PracticeInv, NEW t \in Tabs, NEW rating \in Answers[t], Rate(t, rating)
  PROVE  PracticeInv'
<1> DEFINE d == home[t]
           cloud == page[t].cloud
           prepared == OfHistory(MergeProgress(cloud.rows, store[d]), cloud.known)
           existing == {r \in prepared : r.day = today /\ r.ver = page[t].ver}
           new == [day |-> today, rating |-> rating, gen |-> cloud.known.gen, ver |-> page[t].ver,
                   attempt |-> IF rating = "again" THEN t ELSE None]
           kept == IF existing # {} THEN prepared ELSE MergeProgress(prepared, {new})
<1>1. /\ home \in [Tabs -> Devices] /\ store \in [Devices -> SUBSET Reviews]
      /\ page \in [Tabs -> Page] /\ answers \subseteq [device : Devices, review : Reviews]
      /\ call \in [Calls -> Call] /\ sent \in Nat /\ today \in Nat \ {0} /\ NoneDiscarded
  BY TypeFacts DEF PracticeInv
<1>2. /\ store' = [store EXCEPT ![d] = kept]
      /\ answers' = IF existing # {} THEN answers
                    ELSE {a \in answers : a.device # d \/ a.review.day # today}
                           \cup {[device |-> d, review |-> Row(new)]}
      /\ (\E c \in Calls : Request(c, t, kept)) \/ UNCHANGED <<call, sent>>
      /\ UNCHANGED <<rows, state, version, today, home, page>>
  BY DEF Rate, server
<1>3. /\ cloud.rows \subseteq Reviews /\ cloud.known \in Known /\ cloud.known.gen \in 0..state.gen
      /\ d \in Devices /\ store[d] \subseteq Reviews /\ page[t].ver \in 1..version
      /\ rating \in Ratings
  BY <1>1 DEF Page, Payload, Known, Ratings
<1>4. new \in Reviews /\ new.day = today
  BY <1>1, <1>3 DEF Reviews
<1>5. prepared \subseteq Reviews
  BY <1>3, MergeHasBoth DEF OfHistory
<1>6. AsFirstWritten => DaysOf(store[d]) \subseteq DaysOf(prepared)
  <2>1. MergeProgress(cloud.rows, store[d]) \in SUBSET Reviews
    BY <1>3, MergeHasBoth
  <2>2. AsFirstWritten => prepared = MergeProgress(cloud.rows, store[d])
    BY <1>3, <2>1, OneHistory
  <2> QED
    BY <2>2, MergeHasBoth
<1>7. Row(new) \in Reviews /\ Row(new).day = today
  BY <1>4, RowOfReview
<1>8. kept \subseteq Reviews /\ DaysOf(prepared) \subseteq DaysOf(kept)
      /\ (existing = {} => today \in DaysOf(kept))
  <2>1. CASE existing # {}
    BY <1>5, <2>1
  <2>2. CASE existing = {}
    <3>1. kept = MergeProgress(prepared, {new}) /\ today \in DaysOf({new})
      BY <1>4, <2>2 DEF DaysOf
    <3> HIDE DEF kept, prepared, new
    <3> QED
      BY <1>4, <1>5, <3>1, MergeHasBoth
  <2> QED
    BY <2>1, <2>2
<1> HIDE DEF kept, prepared, new, d
<1>9. store' \in [Devices -> SUBSET Reviews]
      /\ (AsFirstWritten => \A e \in Devices : DaysOf(store[e]) \subseteq DaysOf(store'[e]))
  BY <1>1, <1>2, <1>3, <1>6, <1>8
<1>10. /\ answers' \subseteq [device : Devices, review : Reviews]
       /\ \A a \in answers' : a \in answers \/ a.review.day \in DaysOf(store'[a.device])
  <2>1. CASE existing # {}
    BY <1>1, <1>2, <2>1
  <2>2. CASE existing = {}
    <3>1. \A a \in answers' : a \in answers \/ a = [device |-> d, review |-> Row(new)]
      BY <1>2, <2>2
    <3>2. store'[d] = kept /\ today \in DaysOf(kept)
      BY <1>1, <1>2, <1>3, <1>8, <2>2
    <3> QED
      BY <1>1, <1>3, <1>7, <3>1, <3>2
  <2> QED
    BY <2>1, <2>2
<1>11. /\ call' \in [Calls -> Call] /\ sent' \in Nat
       /\ AsFirstWritten => \A x \in Calls : call'[x].discarded = {}
  <2>1. ASSUME NEW c \in Calls, Request(c, t, kept)
        PROVE  /\ call' \in [Calls -> Call] /\ sent' \in Nat
               /\ AsFirstWritten => \A x \in Calls : call'[x].discarded = {}
    BY <1>8, <2>1, RequestKeeps
  <2>2. CASE UNCHANGED <<call, sent>>
    BY <1>1, <2>2 DEF NoneDiscarded
  <2> QED
    BY <1>2, <2>1, <2>2
<1> QED
  BY <1>1, <1>2, <1>9, <1>10, <1>11, TabKeeps

\* What an answer makes of a store.
LEMMA AfterSyncKeeps ==
  ASSUME PracticeTypeOK, NEW local \in SUBSET Reviews, NEW k \in Call
  PROVE  /\ AfterSync(local, k) \subseteq Reviews
         /\ AsFirstWritten /\ k.discarded = {} => DaysOf(local) \subseteq DaysOf(AfterSync(local, k))
<1> DEFINE base == OfHistory(local, k.payload.known) \ k.discarded
           kept == {IF r \in k.resolved THEN Row(r) ELSE r : r \in base}
           cloud == k.payload.rows \ k.discarded
           pending == {r \in kept : r.attempt # None}
<1>1. k.payload.known \in Known /\ cloud \subseteq Reviews
  BY DEF Call, Payload
<1>2. base \subseteq Reviews /\ base \subseteq local
  BY DEF OfHistory
<1>3. AsFirstWritten /\ k.discarded = {} => base = local
  BY <1>1, OneHistory
<1> HIDE DEF base
<1>4. \A r \in base : /\ Row(r) \in Reviews /\ Row(r).day = r.day
                      /\ r \in Reviews
  BY <1>2, RowOfReview
<1>5. kept \subseteq Reviews
  BY <1>4
<1>6. DaysOf(base) \subseteq DaysOf(kept)
  BY <1>4 DEF DaysOf
<1>7. AfterSync(local, k) = MergeProgress(MergeProgress(kept, cloud), pending)
  BY DEF AfterSync, base
<1>8. pending \subseteq kept
  OBVIOUS
<1> HIDE DEF kept, cloud, pending
<1>9. /\ AfterSync(local, k) \subseteq kept \cup cloud \cup pending
      /\ DaysOf(AfterSync(local, k)) = DaysOf(kept) \cup DaysOf(cloud) \cup DaysOf(pending)
  <2>1. /\ MergeProgress(kept, cloud) \subseteq kept \cup cloud
        /\ DaysOf(MergeProgress(kept, cloud)) = DaysOf(kept) \cup DaysOf(cloud)
    BY MergeHasBoth
  <2> DEFINE m == MergeProgress(kept, cloud)
  <2> HIDE DEF m
  <2>2. /\ MergeProgress(m, pending) \subseteq m \cup pending
        /\ DaysOf(MergeProgress(m, pending)) = DaysOf(m) \cup DaysOf(pending)
    BY MergeHasBoth
  <2> QED
    BY <1>7, <2>1, <2>2 DEF m
<1> QED
  BY <1>1, <1>3, <1>5, <1>6, <1>8, <1>9

\* The tab takes in the answer it waits for.
LEMMA SyncedKeeps ==
  ASSUME PracticeInv, NEW c \in Calls, Synced(c)
  PROVE  PracticeInv'
<1> DEFINE k == call[c]
           d == home[k.tab]
<1>1. /\ store \in [Devices -> SUBSET Reviews] /\ page \in [Tabs -> Page]
      /\ call \in [Calls -> Call] /\ sent \in Nat /\ NoneDiscarded /\ PracticeTypeOK
      /\ answers \subseteq [device : Devices, review : Reviews]
      /\ Nothing \in Payload /\ Quiet \in Call /\ Quiet.discarded = {}
  BY TypeFacts DEF PracticeInv
<1>2. /\ store' = [store EXCEPT ![d] = AfterSync(store[d], k)]
      /\ page' = [page EXCEPT ![k.tab].cloud = k.payload]
      /\ call' = [call EXCEPT ![c] = Quiet]
      /\ UNCHANGED <<rows, state, version, today, home, sent, answers>>
  BY DEF Synced, Set, server
<1>3. k \in Call /\ k.payload \in Payload
  BY <1>1 DEF Call
<1>4. page' \in [Tabs -> Page]
  <2>1. ASSUME NEW t \in Tabs
        PROVE  page'[t] \in Page
    <3>1. page[t] \in Page
      BY <1>1
    <3>2. CASE t # k.tab
      BY <1>1, <1>2, <3>1, <3>2
    <3>3. CASE t = k.tab
      <4>1. page'[t] = [page[t] EXCEPT !.cloud = k.payload]
        BY <1>1, <1>2, <3>3
      <4> HIDE DEF k
      <4> QED
        BY <1>3, <3>1, <4>1 DEF Page
    <3> QED
      BY <3>2, <3>3
  <2> QED
    BY <1>2, <2>1, <1>1
<1>5. /\ call' \in [Calls -> Call]
      /\ AsFirstWritten => \A x \in Calls : call'[x].discarded = {}
  BY <1>1, <1>2 DEF NoneDiscarded
<1>6. ASSUME NEW e \in Devices
      PROVE  /\ store'[e] \subseteq Reviews
             /\ AsFirstWritten => DaysOf(store[e]) \subseteq DaysOf(store'[e])
  <2>1. store[e] \in SUBSET Reviews
    BY <1>1
  <2>2. AsFirstWritten => k.discarded = {}
    BY <1>1 DEF NoneDiscarded
  <2>3. CASE e = d
    BY <1>1, <1>2, <1>3, <2>1, <2>2, <2>3, AfterSyncKeeps
  <2>4. CASE e # d
    BY <1>1, <1>2, <2>1, <2>4
  <2> QED
    BY <2>3, <2>4
<1>7. store' \in [Devices -> SUBSET Reviews]
  BY <1>1, <1>2, <1>6
<1> QED
  BY <1>1, <1>2, <1>4, <1>5, <1>6, <1>7, TabKeeps

-----------------------------------------------------------------------------
(* The theorems.                                                           *)

\* Nothing has been reviewed.
LEMMA PracticeInit ==
  ASSUME Init
  PROVE  PracticeInv
<1>1. /\ rows = {} /\ state = NoState /\ version = 1 /\ today = 1 /\ home \in [Tabs -> Devices]
      /\ store = [d \in Devices |-> {}] /\ page = [t \in Tabs |-> Closed]
      /\ call = [c \in Calls |-> Quiet] /\ sent = 0 /\ answers = {}
  BY PracticeAssumption DEF Init
<1>2. /\ NoState \in [exists : BOOLEAN, gen : Nat, last : Nat, rating : Ratings \cup {"none"}]
      /\ NoState.last = 0 /\ NoState.gen = 0
  BY DEF NoState
<1>3. ServerOK
  BY <1>1, <1>2 DEF ServerOK
<1>4. Nothing \in Payload
  BY <1>1, <1>2 DEF NoState, Nothing, Payload, Known
<1>5. Closed \in Page
  BY <1>1, <1>4 DEF Closed, Page
<1>6. Quiet \in Call /\ Quiet.discarded = {}
  BY <1>4 DEF Quiet, Call
<1>7. BrowsersOK
  BY <1>1, <1>5, <1>6 DEF BrowsersOK
<1>8. ScheduleInv /\ NoneDiscarded /\ NoAnswerLost
  BY <1>1, <1>2, <1>6 DEF ScheduleInv, OneADay, RowsOfOneGeneration, ScheduleFollowsLatest,
                          NoneDiscarded, NoAnswerLost
<1> QED
  BY <1>3, <1>7, <1>8 DEF PracticeInv, PracticeTypeOK

\* Every step of the server, of a handler or of a tab keeps the invariant.
LEMMA PracticeNext ==
  ASSUME PracticeInv, [Next]_vars
  PROVE  PracticeInv'
<1>1. ASSUME NEW c \in Calls, Handler(c) \/ Fail(c) \/ Synced(c) PROVE PracticeInv'
  BY <1>1, QuietHandlerKeeps, RecordKeeps, SyncedKeeps DEF Handler
<1>2. ASSUME NEW t \in Tabs, Open(t) \/ Close(t) PROVE PracticeInv'
  BY <1>2, OpenKeeps
<1>3. ASSUME NEW t \in Tabs, NEW c \in Calls, InitialSync(t, c) PROVE PracticeInv'
  BY <1>3, InitialSyncKeeps
<1>4. ASSUME NEW t \in Tabs, NEW rating \in Answers[t], Rate(t, rating) PROVE PracticeInv'
  BY <1>4, RateKeeps
<1>5. CASE UNCHANGED vars
  <2>1. UNCHANGED <<rows, state, version, today, home, store, page, call, sent, answers>>
    BY <1>5 DEF vars
  <2>2. /\ store \in [Devices -> SUBSET Reviews] /\ page \in [Tabs -> Page]
        /\ call \in [Calls -> Call] /\ sent \in Nat /\ NoneDiscarded
        /\ answers \subseteq [device : Devices, review : Reviews]
    BY TypeFacts DEF PracticeInv
  <2> QED
    BY <2>1, <2>2, TabKeeps DEF NoneDiscarded
<1> QED
  BY <1>1, <1>2, <1>3, <1>4, <1>5, OutsideKeeps DEF Next

\* Rows, schedule, stores, pages and requests keep the inductive invariant.
THEOREM PracticeSound == Spec => []PracticeInv
<1>1. Init => PracticeInv
  BY PracticeInit
<1>2. PracticeInv /\ [Next]_vars => PracticeInv'
  BY PracticeNext
<1> QED
  BY <1>1, <1>2, PTL DEF Spec

\* Every variable keeps its type; no copy of a review is of a day, a version or
\* a generation still to come.
THEOREM PracticeTypes == Spec => []PracticeTypeOK
<1>1. PracticeInv => PracticeTypeOK
  BY DEF PracticeInv
<1> QED
  BY <1>1, PracticeSound, PTL

\* Every row belongs to the generation of the schedule: a reset is not undone by
\* what a device kept from before it.
THEOREM ResetIsNotUndone == Spec => []RowsOfOneGeneration
<1>1. PracticeInv => RowsOfOneGeneration
  BY DEF PracticeInv, ScheduleInv
<1> QED
  BY <1>1, PracticeSound, PTL

\* The schedule is that of the latest review kept, in whatever order the devices
\* deliver theirs.
THEOREM ScheduleIsOfLatest == Spec => []ScheduleFollowsLatest
<1>1. PracticeInv => ScheduleFollowsLatest
  BY DEF PracticeInv, ScheduleInv
<1> QED
  BY <1>1, PracticeSound, PTL

\* Until the first edit or reset an answer is on the server or in the storage of
\* its device, unless the server has another answer of that day.
THEOREM AnswersAreKept == Spec => []NoAnswerLost
<1>1. PracticeInv => NoAnswerLost
  BY DEF PracticeInv
<1> QED
  BY <1>1, PracticeSound, PTL

\* No step of the server changes the rating of a row: only recording writes one.
LEMMA RatingsStay ==
  ASSUME PracticeInv, [Next]_vars
  PROVE  [\A r \in rows, s \in rows' : SameIdentity(r, s) => s.rating = r.rating]_vars
<1>1. PracticeTypeOK /\ ScheduleInv /\ call \in [Calls -> Call]
  BY TypeFacts DEF PracticeInv
<1>2. ASSUME rows' \subseteq rows
      PROVE  \A r \in rows, s \in rows' : SameIdentity(r, s) => s.rating = r.rating
  BY <1>1, <1>2 DEF ScheduleInv, OneADay, SameIdentity
<1>3. ASSUME NEW c \in Calls, Record(c)
      PROVE  \A r \in rows, s \in rows' : SameIdentity(r, s) => s.rating = r.rating
  <2>1. PICK r \in call[c].todo : RecordPracticeReview(r) /\ UNCHANGED <<version, today>>
    BY <1>3 DEF Record
  <2>2. r \in Reviews
    BY <1>1, <2>1 DEF Call
  <2> QED
    BY <1>1, <2>1, <2>2, RecordingKeepsSchedule
<1>4. CASE \E c \in Calls : Record(c)
  BY <1>3, <1>4
<1>5. CASE ~ \E c \in Calls : Record(c)
  <2>1. [Next]_vars => rows' \subseteq rows
    BY <1>5 DEF Next, vars, Handler, Admit, CaptureMistake, ReadRows, ReadState, Fail, Synced, Reset,
                ManageFirst, Edit, NextDay, Open, Close, InitialSync, Rate, server
  <2> QED
    BY <1>2, <2>1
<1> QED
  BY <1>4, <1>5

\* The first answer of a day to a version of the question is final.
THEOREM FirstAnswerIsFinal == Spec => DailyAnswerIsFinal
<1>1. PracticeInv /\ [Next]_vars
        => [\A r \in rows, s \in rows' : SameIdentity(r, s) => s.rating = r.rating]_vars
  BY RatingsStay
<1> QED
  BY <1>1, PracticeSound, PTL DEF Spec, DailyAnswerIsFinal
==============================================================================
