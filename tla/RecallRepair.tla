----------------------------- MODULE RecallRepair -----------------------------
(***************************************************************************)
(* Repairs of failed reviews (lib/practice/repair-queue.ts and its use in  *)
(* practice-app.tsx): a review rated again or hard carries a marker in the *)
(* progress store until the repair queue, another item of local storage,   *)
(* has taken it.  Tabs of one account share both; each write takes a lock, *)
(* and what a tab does after it, it may never come to do.                  *)
(*                                                                         *)
(* One day; a tab knows the questions' version as of its loading.  The     *)
(* queue's limit of fifty questions is not reached.                        *)
(***************************************************************************)
EXTENDS Naturals, FiniteSets

CONSTANTS
  Tabs, Questions,
  Elsewhere,  \* question -> "none", or the rating another device recorded first
  MaxVersion, \* bound: edits of the questions
  MaxSeen,    \* bound: cards seen
  MaxJobs     \* bound: writes under way in a tab

VARIABLES
  review,  \* question -> the day's review in the progress store
  seen,    \* cardsSeen of the repair queue
  items,   \* its items
  version, \* of the questions
  known,   \* tab -> the version it was loaded with
  jobs,    \* writes to come
  rated,   \* ratings so far: the next repairPendingAt
  failed   \* ghost: questions failed on this device and not repaired since

vars == <<review, seen, items, version, known, jobs, rated, failed>>

Ratings == {"again", "hard", "good"}

\* What the other device recorded is a rating.
RepairAssumption == Elsewhere \in [Questions -> Ratings \cup {"none"}]

NoReview == [ver |-> 0, rating |-> "good", marker |-> 0]
Item(q, v, rating, attempts, due) ==
  [q |-> q, ver |-> v, rating |-> rating, attempts |-> attempts, due |-> due]

Init ==
  /\ review = [q \in Questions |-> NoReview]
  /\ seen = 0 /\ items = {} /\ version = 1 /\ known = [t \in Tabs |-> 1]
  /\ jobs = {} /\ rated = 0 /\ failed = {}

------------------------------------------------------------------------------
(* The queue's operations.                                                 *)

ItemsOf(q, S) == {i \in S : i.q = q}
Distance(rating) == IF rating = "again" THEN 3 ELSE 5

Enqueue(S, q, v, rating, cards) ==
  LET attempts == IF ItemsOf(q, S) = {} THEN 0 ELSE (CHOOSE i \in ItemsOf(q, S) : TRUE).attempts
  IN (S \ ItemsOf(q, S)) \cup {Item(q, v, rating, attempts, cards + Distance(rating))}

\* The items of the version that a tab knows.
Reconcile(S, v) == {i \in S : i.ver = v}

RepairDistance(rating, attempts) ==
  CASE rating # "again" -> 4
    [] rating = "again" /\ attempts < 3 -> 2 + attempts
    [] OTHER -> 5

\* rateRecallRepair of an item that is there.
RateRepair(i, rating) ==
  LET attempts == IF i.attempts = 6 THEN 6 ELSE i.attempts + 1
  IN IF rating = "good" THEN {}
     ELSE {[i EXCEPT !.attempts = attempts, !.rating = rating,
                     !.due = seen + 1 + RepairDistance(rating, attempts)]}

Later(a, b) == IF a > b THEN a ELSE b

\* alignRecallRepairQueueWithAuthoritativeReviews, for the items of a question.
Align(q, v, local, rating) ==
  LET mine == ItemsOf(q, items)
      fresh == Item(q, v, rating, 0, seen + Distance(rating))
      moved(i) == IF i.ver # v THEN fresh
                  ELSE IF i.attempts > 0 \/ i.rating = rating THEN i
                  ELSE [i EXCEPT !.rating = rating,
                                 !.due = Later(seen, @ + Distance(rating) - Distance(i.rating))]
  IN CASE rating = "good" -> items \ mine
       [] rating # "good" /\ mine = {} ->
            IF local = "good" THEN items \cup {fresh} ELSE items
       [] OTHER -> (items \ mine) \cup {moved(i) : i \in mine}

------------------------------------------------------------------------------
(* The tabs.  A job is the write that comes next and what it was made from. *)

Job(t, kind, q) ==
  [tab |-> t, kind |-> kind, ver |-> known[t], q |-> q, rating |-> "none", local |-> "none",
   markers |-> {}]
Busy(t) == Cardinality({j \in jobs : j.tab = t}) >= MaxJobs
Marked(S) == {[q |-> q, nr |-> review[q].marker] : q \in {p \in S : review[p].marker # 0}}

\* rateCurrent, first write: the first answer of the day to this version stays.
Rate(t, q, rating) ==
  /\ ~ Busy(t) /\ seen < MaxSeen /\ review[q].ver # known[t]
  /\ rated' = rated + 1
  /\ review' = [review EXCEPT ![q] = [ver |-> known[t], rating |-> rating,
                                      marker |-> IF rating = "good" THEN 0 ELSE rated + 1]]
  /\ failed' = IF rating = "good" THEN failed \ {q} ELSE failed \cup {q}
  /\ jobs' = jobs \cup {[Job(t, "rated", q) EXCEPT !.rating = rating,
                           !.markers = IF rating = "good" THEN {} ELSE {[q |-> q, nr |-> rated + 1]}]}
  /\ UNCHANGED <<seen, items, version, known>>

\* nextRecallRepair: the first one due, even early where the deck has no other
\* card left.
NextRepair(t) ==
  {i \in Reconcile(items, known[t]) : \A o \in Reconcile(items, known[t]) : i.due <= o.due}

\* rateCurrent of that card.
RateCard(t, i, rating) ==
  /\ ~ Busy(t) /\ seen < MaxSeen /\ i \in NextRepair(t)
  /\ jobs' = jobs \cup {[Job(t, "repair", i.q) EXCEPT !.rating = rating, !.markers = Marked({i.q})]}
  /\ UNCHANGED <<review, seen, items, version, known, rated, failed>>

\* The effect on the progress store: failed reviews of the version it knows
\* are taken up, the markers of others go.
Recover(t) ==
  LET ours == {q \in Questions : review[q].ver = known[t] /\ review[q].rating # "good"}
      job(kind, S) == IF Marked(S) = {} THEN {}
                      ELSE {[Job(t, kind, "none") EXCEPT !.markers = Marked(S)]}
  IN /\ ~ Busy(t) /\ Marked(Questions) # {}
     /\ jobs' = jobs \cup job("recover", ours) \cup job("acknowledge", Questions \ ours)
     /\ UNCHANGED <<review, seen, items, version, known, rated, failed>>

\* The effect on the queue.
RefreshQueue(t) ==
  /\ items' = Reconcile(items, known[t])
  /\ UNCHANGED <<review, seen, version, known, jobs, rated, failed>>

\* Mutant: the cloud's review replaces the local one with its marker.
SyncAnsweredBare(t, q) ==
  /\ ~ Busy(t) /\ review[q].ver # 0 /\ Elsewhere[q] # "none"
  /\ review' = [review EXCEPT ![q].rating = Elsewhere[q], ![q].marker = 0]
  /\ failed' = IF Elsewhere[q] = "good" THEN failed \ {q} ELSE failed
  /\ jobs' = jobs \cup {[Job(t, "align", q) EXCEPT
       !.ver = review[q].ver, !.local = review[q].rating, !.rating = Elsewhere[q]]}
  /\ UNCHANGED <<seen, items, version, known, rated>>

\* A sync answer brings the rating that another device recorded first; the
\* marker stays, and the queue is to follow.
SyncAnswered(t, q) ==
  /\ ~ Busy(t) /\ review[q].ver # 0 /\ Elsewhere[q] # "none"
  /\ review' = [review EXCEPT ![q].rating = Elsewhere[q]]
  /\ failed' = IF Elsewhere[q] = "good" THEN failed \ {q} ELSE failed
  /\ jobs' = jobs \cup {[Job(t, "align", q) EXCEPT
       !.ver = review[q].ver, !.local = review[q].rating, !.rating = Elsewhere[q]]}
  /\ UNCHANGED <<seen, items, version, known, rated>>

Load(t) ==
  /\ known' = [known EXCEPT ![t] = version]
  /\ jobs' = {j \in jobs : j.tab # t}
  /\ UNCHANGED <<review, seen, items, version, rated, failed>>

\* A write of the queue, under its lock; the markers it answers for go next.
WriteQueue(j) ==
  LET kept == Reconcile(items, j.ver)
      mine == ItemsOf(j.q, kept)
      taken == {m \in j.markers : ItemsOf(m.q, kept) = {}}
  IN /\ j.kind \in {"rated", "repair", "recover", "align"}
     /\ CASE j.kind = "rated" ->
               /\ seen' = seen + 1
               /\ items' = IF j.rating = "good" THEN kept
                           ELSE Enqueue(kept, j.q, j.ver, j.rating, seen + 1)
          [] j.kind = "repair" ->
               /\ seen' = IF mine = {} THEN seen ELSE seen + 1
               /\ items' = (kept \ mine) \cup UNION {RateRepair(i, j.rating) : i \in mine}
          [] j.kind = "recover" ->
               /\ seen' = seen
               /\ items' = kept \cup {Item(m.q, j.ver, review[m.q].rating, 0,
                                           seen + Distance(review[m.q].rating)) : m \in taken}
          [] OTHER -> seen' = seen /\ items' = Align(j.q, j.ver, j.local, j.rating)
     /\ failed' = IF j.kind = "repair" /\ j.rating = "good" /\ mine # {} THEN failed \ {j.q} ELSE failed
     /\ jobs' = (jobs \ {j}) \cup
          IF j.markers = {} THEN {} ELSE {[j EXCEPT !.kind = "acknowledge"]}
     /\ UNCHANGED <<review, version, known, rated>>

\* acknowledgePracticeRepairSnapshotLocked, of all markers of a job.
Acknowledge(j) ==
  /\ j.kind = "acknowledge"
  /\ review' = [q \in Questions |->
       IF [q |-> q, nr |-> review[q].marker] \in j.markers
       THEN [review[q] EXCEPT !.marker = 0] ELSE review[q]]
  /\ jobs' = jobs \ {j}
  /\ UNCHANGED <<seen, items, version, known, rated, failed>>

\* The write fails, and what was to follow it is not done.
Fail(j) ==
  /\ jobs' = jobs \ {j}
  /\ UNCHANGED <<review, seen, items, version, known, rated, failed>>

Edit ==
  /\ version < MaxVersion /\ version' = version + 1
  /\ UNCHANGED <<review, seen, items, known, jobs, rated, failed>>

Next ==
  \/ Edit
  \/ \E t \in Tabs :
       \/ Recover(t) \/ RefreshQueue(t) \/ Load(t)
       \/ \E q \in Questions : SyncAnswered(t, q) \/ \E r \in Ratings : Rate(t, q, r)
       \/ \E i \in items, r \in Ratings : RateCard(t, i, r)
  \/ \E j \in jobs : WriteQueue(j) \/ Acknowledge(j) \/ Fail(j)

Spec == Init /\ [][Next]_vars

------------------------------------------------------------------------------
(* Properties.                                                             *)

\* A question failed here stays marked for the queue, or in it, once and due
\* within five cards, until it is repaired: whatever tabs do at once and
\* whichever write fails. (Before an edit: a tab that knows another version
\* drops items and markers.)
FailedIsRepaired ==
  version = 1 => \A q \in failed :
    \/ review[q].marker # 0
    \/ \E i \in items : ItemsOf(q, items) = {i} /\ i.due <= seen + 5
==============================================================================
