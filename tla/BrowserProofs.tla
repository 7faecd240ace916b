---------------------------- MODULE BrowserProofs ----------------------------
(***************************************************************************)
(* Proofs about what browsers keep: the repairs of failed reviews          *)
(* (RecallRepair), the focused sprint (FocusSession), the training evidence *)
(* (TrainingState), the mission's plan (MissionSnapshot) and the coach's   *)
(* panel (CoachPanel).  They are five of the Parts, and a theorem is about *)
(* one part's specification and its variables alone.                       *)
(***************************************************************************)
EXTENDS Parts, FiniteSetTheorems, WellFoundedInduction, TLAPS

------------------------------------------------------------------------------
(***************************************************************************)
(* Repairs, for any number of tabs, questions, versions and ratings from   *)
(* elsewhere: a question failed here stays marked, or in the queue once and *)
(* soon due, until it is repaired.                                         *)
(*                                                                         *)
(* Neither the marker nor the queue alone is safe: each write between them *)
(* was made from what another tab may have changed since.  The invariant says *)
(* what a write still to come may count on (JobFits): that what takes a    *)
(* marker away finds the question in the queue, and that a sync which takes *)
(* a question out of the queue has taken it off the failed ones.  An item is *)
(* due within the distance of its rating while nobody has repaired it      *)
(* (DueSoon), or moving it to another rating could put it off too far.     *)
(***************************************************************************)

Reviews == [ver : Nat, rating : Repair!Ratings, marker : Nat]
RepairItems == [q : Questions, ver : Nat, rating : Repair!Ratings, attempts : 0..6, due : Nat]
Markers == [q : Questions, nr : Nat]
RepairJobs ==
  [tab : Tabs, kind : {"rated", "repair", "recover", "align", "acknowledge"}, ver : Nat,
   q : Questions \cup {"none"}, rating : Repair!Ratings \cup {"none"}, local : Repair!Ratings
       \cup {"none"},
   markers : SUBSET Markers]

\* What a job answers for: one rating of its question, a sync answer, or what
\* had markers.
WellMade(j) ==
  /\ j.kind \in {"rated", "repair", "align"} => j.q \in Questions /\ j.rating \in Repair!Ratings
  /\ j.kind \in {"rated", "repair"} => \A m \in j.markers : m.q = j.q
  /\ j.kind = "rated" /\ j.rating = "good" => j.markers = {}
  /\ j.kind = "align" => j.markers = {}
  /\ j.kind = "recover" => \A m, n \in j.markers : m.q = n.q => m = n

RepairTypes ==
  /\ review \in [Questions -> Reviews] /\ seen \in Nat /\ items \subseteq RepairItems
  /\ version \in Nat \ {0} /\ known \in [Tabs -> Nat] /\ rated \in Nat /\ failed \subseteq Questions
  /\ jobs \subseteq RepairJobs /\ \A j \in jobs : WellMade(j)

HasItem(q) == \E i \in items : i.q = q

\* Before an edit there is one version, and no question is rated twice.
OneVersion ==
  /\ \A t \in Tabs : known[t] = 1
  /\ \A i \in items : i.ver = 1
  /\ \A j \in jobs : j.ver = 1
  /\ \A q \in Questions : review[q].ver \in {0, 1} /\ (review[q].marker # 0 => review[q].ver = 1)

OneItem == \A i, k \in items : i.q = k.q => i = k

\* A card not repaired yet is due within the distance of its rating.
DueSoon ==
  \A i \in items : i.due <= seen + 5
      /\ (i.attempts = 0 => i.due <= seen + Repair!Distance(i.rating))

FailedWasRated == \A q \in failed : review[q].ver = 1 /\ review[q].rating # "good"

\* A question failed here has been rated before any job could name it; what
\* takes its marker away finds it in the queue, and a sync that passes it has
\* taken it off the list of the failed.
JobFits(j) ==
  /\ \A m \in j.markers : review[m.q].ver = 1
  /\ j.kind \in {"acknowledge", "repair"} => \A m \in j.markers : m.q \in failed => HasItem(m.q)
  /\ j.kind = "align" => review[j.q].ver = 1 /\ (j.rating = "good" => j.q \notin failed)

FailedIsKept == \A q \in failed : review[q].marker # 0 \/ HasItem(q)

RepairSafe ==
  /\ RepairTypes
  /\ version = 1 =>
       /\ OneVersion /\ OneItem /\ DueSoon /\ FailedWasRated /\ FailedIsKept
       /\ \A j \in jobs : JobFits(j)

\* Nothing has been rated yet.
LEMMA RepairInit == ASSUME Repair!Init PROVE RepairSafe
<1>1. Repair!NoReview \in Reviews /\ Repair!NoReview.ver = 0 /\ Repair!NoReview.marker = 0
  BY DEF Repair!NoReview, Reviews, Repair!Ratings
<1>2. RepairTypes
  BY <1>1 DEF Repair!Init, RepairTypes
<1>3. OneVersion /\ OneItem /\ DueSoon /\ FailedWasRated /\ FailedIsKept
          /\ \A j \in jobs : JobFits(j)
  BY <1>1 DEF Repair!Init, OneVersion, OneItem, DueSoon, FailedWasRated, FailedIsKept
<1>4. QED
  BY <1>2, <1>3 DEF RepairSafe

\* A job is made of the version its tab knows.
LEMMA NewJob ==
  ASSUME RepairTypes, NEW t \in Tabs,
         NEW kind \in {"rated", "repair", "recover", "align", "acknowledge"},
         NEW q \in Questions \cup {"none"}
  PROVE  /\ Repair!Job(t, kind, q) \in RepairJobs /\ Repair!Job(t, kind, q).ver = known[t]
         /\ Repair!Job(t, kind, q).q = q
         /\ Repair!Job(t, kind, q).kind = kind /\ Repair!Job(t, kind, q).markers = {}
  BY DEF RepairTypes, RepairJobs, Repair!Job

\* The markers of some questions, one of each.
LEMMA MarkedOnes ==
  ASSUME RepairTypes, NEW S \in SUBSET Questions
  PROVE  /\ Repair!Marked(S) \subseteq Markers
         /\ \A m \in Repair!Marked(S) : m.q \in S /\ review[m.q].marker # 0
         /\ \A m, n \in Repair!Marked(S) : m.q = n.q => m = n
<1>1. \A q \in S : [q |-> q, nr |-> review[q].marker] \in Markers
  BY DEF RepairTypes, Reviews, Markers
<1>2. QED
  BY <1>1 DEF Repair!Marked

------------------------------------------------------------------------------
(* What makes jobs.                                                         *)

\* A job is added, or some, that fit; the queue is as it was.
LEMMA JobAdded ==
  ASSUME RepairSafe, RepairTypes', UNCHANGED <<items, seen, version, known>>,
         NEW new, jobs' = jobs \cup new,
         version = 1 =>
           /\ FailedWasRated' /\ FailedIsKept' /\ \A j \in new : j.ver = 1 /\ JobFits(j)'
           /\ \A q \in Questions :
                review'[q].ver \in {0, 1} /\ (review'[q].marker # 0 => review'[q].ver = 1)
           /\ \A q \in Questions :
                \/ review'[q].ver = review[q].ver /\ (q \in failed' => q \in failed)
                \/ review[q].ver = 0
  PROVE  RepairSafe'
<1> SUFFICES ASSUME version = 1
             PROVE  /\ OneVersion' /\ OneItem' /\ DueSoon' /\ FailedWasRated' /\ FailedIsKept'
                    /\ \A j \in jobs' : JobFits(j)'
  BY DEF RepairSafe
<1>1. OneVersion /\ OneItem /\ DueSoon /\ RepairTypes /\ \A j \in jobs : JobFits(j)
  BY DEF RepairSafe
<1>2. OneVersion'
  BY <1>1 DEF OneVersion
<1>3. OneItem' /\ DueSoon'
  BY <1>1 DEF OneItem, DueSoon
<1>4. \A q : HasItem(q)' = HasItem(q)
  BY DEF HasItem
<1>5. ASSUME NEW j \in jobs PROVE JobFits(j)'
  <2>1. /\ j \in RepairJobs /\ WellMade(j) /\ JobFits(j)
        /\ j.markers \subseteq Markers /\ \A m \in j.markers : m.q \in Questions
    BY <1>1 DEF RepairTypes, RepairJobs, Markers
  <2>2. \A m \in j.markers : review'[m.q].ver = 1 /\ (m.q \in failed' => m.q \in failed)
    BY <2>1 DEF JobFits
  <2>3. j.kind = "align" => review'[j.q].ver = 1 /\ (j.q \in failed' => j.q \in failed)
    BY <2>1 DEF JobFits, WellMade
  <2>4. QED
    BY <1>4, <2>1, <2>2, <2>3 DEF JobFits
<1>6. QED
  BY <1>2, <1>3, <1>5

\* A rating marks the question, and says what the queue is to do.
LEMMA RateKeeps ==
  ASSUME RepairSafe, NEW t \in Tabs, NEW q \in Questions, NEW given \in Repair!Ratings,
         Repair!Rate(t, q, given)
  PROVE  RepairSafe'
<1>1. /\ RepairTypes /\ rated \in Nat /\ rated + 1 \in Nat /\ rated + 1 # 0 /\ known[t] \in Nat
      /\ review \in [Questions -> Reviews]
  BY DEF RepairSafe, RepairTypes
<1> DEFINE marker == IF given = "good" THEN 0 ELSE rated + 1
           next == [ver |-> known[t], rating |-> given, marker |-> marker]
           marks == IF given = "good" THEN {} ELSE {[q |-> q, nr |-> rated + 1]}
           todo == [Repair!Job(t, "rated", q) EXCEPT !.rating = given, !.markers = marks]
<1>2. next \in Reviews /\ next.ver = known[t] /\ next.rating = given /\ next.marker = marker
  BY <1>1 DEF Reviews
<1>3. marks \subseteq Markers /\ (\A m \in marks : m.q = q) /\ (given = "good" => marks = {})
  BY <1>1 DEF Markers
<1>4. /\ review' = [review EXCEPT ![q] = next] /\ jobs' = jobs \cup {todo} /\ rated' = rated + 1
      /\ failed' = (IF given = "good" THEN failed \ {q} ELSE failed \cup {q})
      /\ UNCHANGED <<seen, items, version, known>> /\ review[q].ver # known[t]
  BY DEF Repair!Rate
<1> HIDE DEF marks, next
<1>5. /\ todo \in RepairJobs /\ todo.kind = "rated" /\ todo.q = q /\ todo.rating = given
      /\ todo.markers = marks
      /\ todo.ver = known[t]
  <2>1. Repair!Job(t, "rated", q) \in RepairJobs /\ Repair!Job(t, "rated", q).q = q
        /\ Repair!Job(t, "rated", q).kind = "rated" /\ Repair!Job(t, "rated", q).ver = known[t]
    BY <1>1, NewJob
  <2>2. QED
    BY <1>3, <2>1 DEF RepairJobs
<1>6. WellMade(todo)
  BY <1>3, <1>5 DEF WellMade
<1> HIDE DEF todo
<1>7. PICK j : j = todo
  OBVIOUS
<1>8. RepairTypes'
  <2>1. jobs' \subseteq RepairJobs /\ (\A k \in jobs' : WellMade(k))
    BY <1>1, <1>4, <1>5, <1>6 DEF RepairTypes
  <2>2. failed' \subseteq Questions /\ review' \in [Questions -> Reviews]
    BY <1>1, <1>2, <1>4 DEF RepairTypes
  <2>3. QED
    BY <1>1, <1>4, <2>1, <2>2 DEF RepairTypes, WellMade
<1>9. ASSUME version = 1
      PROVE  /\ FailedWasRated' /\ FailedIsKept' /\ JobFits(j)' /\ j.ver = 1
             /\ \A p \in Questions :
                  review'[p].ver \in {0, 1} /\ (review'[p].marker # 0 => review'[p].ver = 1)
             /\ \A p \in Questions :
                  \/ review'[p].ver = review[p].ver /\ (p \in failed' => p \in failed)
                  \/ review[p].ver = 0
  <2>1. OneVersion /\ FailedWasRated /\ FailedIsKept
    BY <1>9 DEF RepairSafe
  <2>2. known[t] = 1 /\ review[q].ver = 0
    BY <1>4, <2>1 DEF OneVersion
  <2>3. review'[q] = next /\ \A p \in Questions : p # q => review'[p] = review[p]
    BY <1>1, <1>4
  <2>4. FailedWasRated' /\ FailedIsKept'
    BY <1>1, <1>2, <1>4, <2>1, <2>2, <2>3 DEF FailedWasRated, FailedIsKept, HasItem, RepairTypes
  <2>5. JobFits(j)'
    BY <1>2, <1>3, <1>5, <1>7, <2>2, <2>3 DEF JobFits
  <2>6. QED
    BY <1>2, <1>4, <1>5, <1>7, <2>1, <2>2, <2>3, <2>4, <2>5 DEF OneVersion
<1>10. jobs' = jobs \cup {j}
  BY <1>4, <1>7
<1>11. QED
  BY <1>4, <1>8, <1>9, <1>10, JobAdded

\* Jobs are made of what the store and the queue have, which are as they were.
LEMMA JobsMade ==
  ASSUME RepairSafe, UNCHANGED <<review, seen, items, version, known, rated, failed>>,
         NEW new, jobs' = jobs \cup new, new \subseteq RepairJobs,
         \A j \in new : WellMade(j) /\ (version = 1 => j.ver = 1 /\ JobFits(j))
  PROVE  RepairSafe'
<1>1. RepairTypes /\ (version = 1 => OneVersion /\ FailedWasRated /\ FailedIsKept)
  BY DEF RepairSafe
<1>2. RepairTypes'
  BY <1>1 DEF RepairTypes, WellMade
<1>3. version = 1 =>
        /\ FailedWasRated' /\ FailedIsKept' /\ \A j \in new : j.ver = 1 /\ JobFits(j)'
        /\ \A q \in Questions :
             review'[q].ver \in {0, 1} /\ (review'[q].marker # 0 => review'[q].ver = 1)
  BY <1>1 DEF OneVersion, FailedWasRated, FailedIsKept, HasItem, JobFits
<1>4. \A q \in Questions : review'[q].ver = review[q].ver /\ (q \in failed' => q \in failed)
  OBVIOUS
<1>5. QED
  BY <1>2, <1>3, <1>4, JobAdded

\* A card of the queue is rated: its question's marker, if it has one, is still to be taken away.
LEMMA RateCardKeeps ==
  ASSUME RepairSafe, NEW t \in Tabs, NEW i \in items, NEW given \in Repair!Ratings,
         Repair!RateCard(t, i, given)
  PROVE  RepairSafe'
<1>1. RepairTypes /\ i.q \in Questions
  BY DEF RepairSafe, RepairTypes, RepairItems
<1> DEFINE marks == Repair!Marked({i.q})
           todo == [Repair!Job(t, "repair", i.q) EXCEPT !.rating = given, !.markers = marks]
<1>2. marks \subseteq Markers /\ \A m \in marks : m.q = i.q /\ review[m.q].marker # 0
  BY <1>1, MarkedOnes
<1>3. jobs' = jobs \cup {todo} /\ UNCHANGED <<review, seen, items, version, known, rated, failed>>
  BY DEF Repair!RateCard
<1> HIDE DEF marks
<1>4. /\ todo \in RepairJobs /\ todo.kind = "repair" /\ todo.q = i.q /\ todo.rating = given
      /\ todo.markers = marks /\ todo.ver = known[t]
  <2>1. Repair!Job(t, "repair", i.q) \in RepairJobs /\ Repair!Job(t, "repair", i.q).q = i.q
        /\ Repair!Job(t, "repair", i.q).kind = "repair"
        /\ Repair!Job(t, "repair", i.q).ver = known[t]
    BY <1>1, NewJob
  <2>2. QED
    BY <1>2, <2>1 DEF RepairJobs
<1> HIDE DEF todo
<1>5. WellMade(todo)
  BY <1>1, <1>2, <1>4 DEF WellMade
<1>6. version = 1 => todo.ver = 1 /\ JobFits(todo)
  <2>1. HasItem(i.q)
    BY DEF HasItem
  <2>2. QED
    BY <1>1, <1>2, <1>4, <2>1 DEF RepairSafe, OneVersion, JobFits
<1>7. PICK new : new = {todo}
  OBVIOUS
<1>8. /\ new \subseteq RepairJobs /\ jobs' = jobs \cup new
      /\ \A j \in new : WellMade(j) /\ (version = 1 => j.ver = 1 /\ JobFits(j))
  BY <1>3, <1>4, <1>5, <1>6, <1>7
<1>9. QED
  BY <1>3, <1>8, JobsMade

\* A page that opens puts what is still marked back in the queue.
LEMMA RecoverKeeps ==
  ASSUME RepairSafe, NEW t \in Tabs, Repair!Recover(t)
  PROVE  RepairSafe'
<1>1. RepairTypes
  BY DEF RepairSafe
<1> DEFINE ours == {q \in Questions : review[q].ver = known[t] /\ review[q].rating # "good"}
           todo(kind, S) == [Repair!Job(t, kind, "none") EXCEPT !.markers = Repair!Marked(S)]
           jobOf(kind, S) == IF Repair!Marked(S) = {} THEN {} ELSE {todo(kind, S)}
           new == jobOf("recover", ours) \cup jobOf("acknowledge", Questions \ ours)
<1>2. jobs' = jobs \cup new /\ UNCHANGED <<review, seen, items, version, known, rated, failed>>
  BY DEF Repair!Recover
<1>3. ASSUME NEW kind \in {"recover", "acknowledge"}, NEW S \in SUBSET Questions
      PROVE  /\ todo(kind, S) \in RepairJobs /\ todo(kind, S).kind = kind
             /\ todo(kind, S).ver = known[t]
             /\ todo(kind, S).markers = Repair!Marked(S) /\ WellMade(todo(kind, S))
  <2>1. /\ todo(kind, S) \in RepairJobs /\ todo(kind, S).kind = kind /\ todo(kind, S).ver = known[t]
        /\ todo(kind, S).markers = Repair!Marked(S)
    BY <1>1, MarkedOnes, NewJob DEF RepairJobs
  <2> HIDE DEF todo
  <2>2. QED
    BY <1>1, <2>1, MarkedOnes DEF WellMade
<1>4. ASSUME version = 1, NEW kind \in {"recover", "acknowledge"}, NEW S \in SUBSET Questions,
             kind = "acknowledge" => S \cap ours = {}
      PROVE  todo(kind, S).ver = 1 /\ JobFits(todo(kind, S))
  <2>1. OneVersion /\ FailedWasRated
    BY <1>4 DEF RepairSafe
  <2>2. known[t] = 1 /\ \A m \in Repair!Marked(S) : m.q \in S /\ review[m.q].ver = 1
    BY <1>1, <2>1, MarkedOnes DEF OneVersion
  <2>3. S \cap ours = {} => \A m \in Repair!Marked(S) : m.q \notin failed
    BY <2>1, <2>2 DEF FailedWasRated
  <2> HIDE DEF todo, ours
  <2>4. QED
    BY <1>3, <1>4, <2>2, <2>3 DEF JobFits
<1>5. ours \in SUBSET Questions /\ (Questions \ ours) \in SUBSET Questions
          /\ (Questions \ ours) \cap ours = {}
  OBVIOUS
<1> HIDE DEF todo, ours
<1>6. /\ new \subseteq RepairJobs
      /\ \A j \in new : WellMade(j) /\ (version = 1 => j.ver = 1 /\ JobFits(j))
  BY <1>3, <1>4, <1>5
<1> HIDE DEF new
<1>7. QED
  BY <1>2, <1>6, JobsMade

\* A sync answers with a review from elsewhere.
LEMMA AnswerKeeps ==
  ASSUME Repair!RepairAssumption, RepairSafe, NEW t \in Tabs, NEW q \in Questions,
         Repair!SyncAnswered(t, q)
  PROVE  RepairSafe'
<1>1. /\ RepairTypes /\ review \in [Questions -> Reviews] /\ review[q] \in Reviews
      /\ Elsewhere[q] \in Repair!Ratings
  BY DEF RepairSafe, RepairTypes, Repair!SyncAnswered, Repair!RepairAssumption
<1> DEFINE next == [review[q] EXCEPT !.rating = Elsewhere[q]]
           todo == [Repair!Job(t, "align", q) EXCEPT
                     !.ver = review[q].ver, !.local = review[q].rating, !.rating = Elsewhere[q]]
<1>2. /\ next \in Reviews /\ next.ver = review[q].ver /\ next.marker = review[q].marker
      /\ next.rating = Elsewhere[q]
  BY <1>1 DEF Reviews
<1>3. /\ todo \in RepairJobs /\ todo.kind = "align" /\ todo.q = q /\ todo.rating = Elsewhere[q]
      /\ todo.markers = {} /\ todo.ver = review[q].ver
  <2>1. Repair!Job(t, "align", q) \in RepairJobs /\ Repair!Job(t, "align", q).q = q
        /\ Repair!Job(t, "align", q).kind = "align" /\ Repair!Job(t, "align", q).markers = {}
    BY <1>1, NewJob
  <2>2. review[q].ver \in Nat /\ review[q].rating \in Repair!Ratings
    BY <1>1 DEF Reviews
  <2>3. QED
    BY <1>1, <2>1, <2>2 DEF RepairJobs
<1>4. /\ review' = [review EXCEPT ![q] = next] /\ jobs' = jobs \cup {todo}
      /\ failed' = (IF Elsewhere[q] = "good" THEN failed \ {q} ELSE failed)
      /\ UNCHANGED <<seen, items, version, known, rated>> /\ review[q].ver # 0
  BY DEF Repair!SyncAnswered
<1> HIDE DEF next, todo
<1>5. WellMade(todo)
  BY <1>1, <1>3 DEF WellMade
<1>6. PICK j : j = todo
  OBVIOUS
<1>7. /\ review' \in [Questions -> Reviews] /\ review'[q] = next
      /\ \A p \in Questions : p # q => review'[p] = review[p]
  BY <1>1, <1>2, <1>4
<1>8. RepairTypes'
  <2>1. jobs' \subseteq RepairJobs /\ (\A k \in jobs' : WellMade(k))
    BY <1>1, <1>3, <1>4, <1>5 DEF RepairTypes
  <2>2. QED
    BY <1>1, <1>4, <1>7, <2>1 DEF RepairTypes, WellMade
<1>9. ASSUME version = 1
      PROVE  /\ FailedWasRated' /\ FailedIsKept' /\ JobFits(j)' /\ j.ver = 1
             /\ \A p \in Questions :
                  review'[p].ver \in {0, 1} /\ (review'[p].marker # 0 => review'[p].ver = 1)
             /\ \A p \in Questions : review'[p].ver = review[p].ver
                  /\ (p \in failed' => p \in failed)
  <2>1. OneVersion /\ FailedWasRated /\ FailedIsKept
    BY <1>9 DEF RepairSafe
  <2>2. review[q].ver = 1
    BY <1>4, <2>1 DEF OneVersion
  <2>3. \A p \in Questions : review'[p].ver = review[p].ver /\ review'[p].marker = review[p].marker
    BY <1>2, <1>7
  <2>4. failed' \subseteq failed /\ failed \subseteq Questions
            /\ (q \in failed' => Elsewhere[q] # "good")
    BY <1>1, <1>4 DEF RepairTypes
  <2>5. FailedWasRated' /\ FailedIsKept'
    BY <1>2, <1>4, <1>7, <2>1, <2>3, <2>4 DEF FailedWasRated, FailedIsKept, HasItem
  <2>6. JobFits(j)'
    BY <1>3, <1>6, <2>2, <2>3, <2>4 DEF JobFits
  <2>7. QED
    BY <1>3, <1>6, <2>1, <2>2, <2>3, <2>4, <2>5, <2>6 DEF OneVersion
<1>10. jobs' = jobs \cup {j}
  BY <1>4, <1>6
<1>11. QED
  BY <1>4, <1>8, <1>9, <1>10, JobAdded

\* A question edited, a queue shown again, a page opened, a write that fails.
LEMMA QuietKeeps ==
  ASSUME RepairSafe, NEW t \in Tabs,
         Repair!Edit \/ UNCHANGED Repair!vars \/ Repair!RefreshQueue(t) \/ Repair!Load(t)
             \/ \E j \in jobs : Repair!Fail(j)
  PROVE  RepairSafe'
<1>1. RepairTypes
  BY DEF RepairSafe
<1>2. CASE Repair!Edit
  <2>1. RepairTypes' /\ version' # 1
    BY <1>1, <1>2 DEF Repair!Edit, RepairTypes, WellMade
  <2>2. QED
    BY <2>1 DEF RepairSafe
<1>3. CASE UNCHANGED Repair!vars \/ Repair!RefreshQueue(t) \/ Repair!Load(t)
               \/ \E j \in jobs : Repair!Fail(j)
  <2>1. /\ UNCHANGED <<review, seen, version, rated, failed>> /\ jobs' \subseteq jobs
                                                              /\ items' \subseteq items
        /\ known' \in [Tabs -> Nat]
    BY <1>1, <1>3 DEF Repair!vars, Repair!RefreshQueue, Repair!Reconcile, Repair!Load, Repair!Fail,
        RepairTypes
  <2>2. RepairTypes'
    BY <1>1, <2>1 DEF RepairTypes, WellMade
  <2>3. ASSUME version = 1 PROVE items' = items /\ \A u \in Tabs : known'[u] = 1
    BY <1>1, <1>3, <2>3 DEF RepairSafe, OneVersion, Repair!vars, Repair!RefreshQueue,
        Repair!Reconcile, Repair!Load, Repair!Fail, RepairTypes
  <2>4. version = 1 =>
          /\ OneVersion' /\ OneItem' /\ DueSoon' /\ FailedWasRated' /\ FailedIsKept'
          /\ \A j \in jobs' : JobFits(j)'
    BY <2>1, <2>3 DEF RepairSafe, OneVersion, OneItem, DueSoon, FailedWasRated, FailedIsKept,
        JobFits, HasItem
  <2>5. QED
    BY <2>1, <2>2, <2>4 DEF RepairSafe
<1>4. QED
  BY <1>2, <1>3

\* A marker is taken away where the queue has the question.
LEMMA AcknowledgeKeeps ==
  ASSUME RepairSafe, NEW j \in jobs, Repair!Acknowledge(j)
  PROVE  RepairSafe'
<1>1. RepairTypes /\ review \in [Questions -> Reviews]
  BY DEF RepairSafe, RepairTypes
<1>2. /\ review' = [q \in Questions |->
           IF [q |-> q, nr |-> review[q].marker] \in j.markers THEN [review[q] EXCEPT !.marker = 0] ELSE review[q]]
      /\ UNCHANGED <<seen, items, version, known, rated, failed>> /\ jobs' \subseteq jobs
      /\ j.kind = "acknowledge"
  BY DEF Repair!Acknowledge
<1>3. \A q \in Questions :
        /\ review'[q] \in Reviews /\ review'[q].ver = review[q].ver
        /\ review'[q].rating = review[q].rating
        /\ \/ review'[q].marker = review[q].marker
           \/ review'[q].marker = 0 /\ [q |-> q, nr |-> review[q].marker] \in j.markers
  BY <1>1, <1>2 DEF Reviews
<1>4. RepairTypes'
  BY <1>1, <1>2, <1>3 DEF RepairTypes, WellMade
<1>5. ASSUME version = 1
      PROVE  /\ OneVersion' /\ OneItem' /\ DueSoon' /\ FailedWasRated' /\ FailedIsKept'
             /\ \A k \in jobs' : JobFits(k)'
  <2>1. OneVersion /\ OneItem /\ DueSoon /\ FailedWasRated /\ FailedIsKept
            /\ \A k \in jobs : JobFits(k)
    BY <1>5 DEF RepairSafe
  <2>2. failed \subseteq Questions /\ \A k \in jobs : k \in RepairJobs /\ WellMade(k)
    BY <1>1 DEF RepairTypes
  <2>3. OneVersion' /\ OneItem' /\ DueSoon'
    BY <1>2, <1>3, <2>1 DEF OneVersion, OneItem, DueSoon
  <2>4. FailedWasRated'
    BY <1>2, <1>3, <2>1, <2>2 DEF FailedWasRated
  <2>5. FailedIsKept'
    <3>1. ASSUME NEW q \in failed, [q |-> q, nr |-> review[q].marker] \in j.markers PROVE HasItem(q)
      BY <1>2, <2>1, <3>1 DEF JobFits
    <3>2. QED
      BY <1>2, <1>3, <2>1, <2>2, <3>1 DEF FailedIsKept, HasItem
  <2>6. ASSUME NEW k \in jobs PROVE JobFits(k)'
    <3>1. \A m \in k.markers : m.q \in Questions
      BY <2>2 DEF RepairJobs, Markers
    <3>2. QED
      BY <1>2, <1>3, <2>1, <2>2, <3>1 DEF JobFits, WellMade, HasItem
  <2>7. QED
    BY <1>2, <2>3, <2>4, <2>5, <2>6
<1>6. QED
  BY <1>2, <1>4, <1>5 DEF RepairSafe

------------------------------------------------------------------------------
(* What writes the queue.                                                   *)

\* A card comes back within five cards.
LEMMA Distances ==
  ASSUME NEW given
  PROVE  /\ Repair!Distance(given) \in {3, 5}
         /\ \A n \in 0..6 : Repair!RepairDistance(given, n) \in 2..5
<1>1. Repair!Distance(given) \in {3, 5}
  BY DEF Repair!Distance
<1>2. ASSUME NEW n \in 0..6 PROVE Repair!RepairDistance(given, n) \in 2..5
  <2>1. CASE given # "again"
    BY <2>1 DEF Repair!RepairDistance
  <2>2. CASE given = "again" /\ n < 3
    BY <2>2 DEF Repair!RepairDistance
  <2>3. CASE given = "again" /\ ~ n < 3
    BY <2>3 DEF Repair!RepairDistance
  <2>4. QED
    BY <2>1, <2>2, <2>3
<1>3. QED
  BY <1>1, <1>2

\* A question put in the queue replaces its item, at the distance of its rating.
LEMMA Enqueued ==
  ASSUME NEW S \in SUBSET RepairItems, NEW q \in Questions, NEW v \in Nat,
         NEW given \in Repair!Ratings, NEW by \in Nat
  PROVE  \E e \in RepairItems :
           /\ Repair!Enqueue(S, q, v, given, by) = (S \ Repair!ItemsOf(q, S)) \cup {e}
           /\ e.q = q /\ e.ver = v /\ e.rating = given /\ e.due = by + Repair!Distance(given)
<1> DEFINE first == CHOOSE i \in Repair!ItemsOf(q, S) : TRUE
           attempts == IF Repair!ItemsOf(q, S) = {} THEN 0 ELSE first.attempts
<1>1. Repair!ItemsOf(q, S) # {} => first \in S
  BY DEF Repair!ItemsOf
<1>2. attempts \in 0..6
  <2> HIDE DEF first
  <2>1. QED
    BY <1>1 DEF RepairItems
<1>3. Repair!Enqueue(S, q, v, given, by) =
        (S \ Repair!ItemsOf(q, S))
            \cup {Repair!Item(q, v, given, attempts, by + Repair!Distance(given))}
  BY DEF Repair!Enqueue
<1> HIDE DEF attempts
<1>4. PICK e : e = Repair!Item(q, v, given, attempts, by + Repair!Distance(given))
  OBVIOUS
<1>5. PICK due : due = by + Repair!Distance(given)
  OBVIOUS
<1>6. due \in Nat
  BY <1>5, Distances
<1>7. e \in RepairItems /\ e.q = q /\ e.ver = v /\ e.rating = given /\ e.due = due
  BY <1>2, <1>4, <1>5, <1>6 DEF Repair!Item, RepairItems
<1>8. QED
  BY <1>3, <1>4, <1>5, <1>7

\* A repaired item is gone; one failed again stays, a little later.
LEMMA RatedRepair ==
  ASSUME NEW i \in RepairItems, NEW given \in Repair!Ratings, seen \in Nat
  PROVE  \/ given = "good" /\ Repair!RateRepair(i, given) = {}
         \/ given # "good" /\ \E e \in RepairItems :
              /\ Repair!RateRepair(i, given) = {e}
              /\ e.q = i.q /\ e.ver = i.ver /\ e.attempts # 0 /\ e.due <= seen + 6
<1>1. CASE given = "good"
  BY <1>1 DEF Repair!RateRepair
<1>2. CASE given # "good"
  <2> DEFINE attempts == IF i.attempts = 6 THEN 6 ELSE i.attempts + 1
             distance == Repair!RepairDistance(given, attempts)
             e == [i EXCEPT !.attempts = attempts, !.rating = given, !.due = seen + 1 + distance]
  <2>1. attempts \in 0..6 /\ attempts # 0
    BY DEF RepairItems
  <2>2. Repair!RateRepair(i, given) = {e}
    BY <1>2 DEF Repair!RateRepair
  <2> HIDE DEF attempts
  <2>3. distance \in 2..5
    BY <2>1, Distances
  <2> HIDE DEF distance
  <2>4. seen + 1 + distance \in Nat /\ seen + 1 + distance <= seen + 6
    BY <2>3
  <2>5. e \in RepairItems /\ e.q = i.q /\ e.ver = i.ver /\ e.attempts = attempts
            /\ e.due = seen + 1 + distance
    BY <2>1, <2>4 DEF RepairItems
  <2> HIDE DEF e
  <2>6. QED
    BY <1>2, <2>1, <2>2, <2>4, <2>5
<1>3. QED
  BY <1>1, <1>2

\* A write takes its job off, or makes it one that takes markers away; what is
\* failed and in the queue stays in it, and its markers are of such.
LEMMA QueueWriteKeeps ==
  ASSUME RepairSafe, NEW j \in jobs, j.kind \in {"rated", "repair", "recover", "align"},
         UNCHANGED <<review, version, known, rated>>,
         jobs' = (jobs \ {j})
             \cup IF j.markers = {} THEN {} ELSE {[j EXCEPT !.kind = "acknowledge"]},
         seen' \in Nat, items' \subseteq RepairItems, failed' \subseteq failed,
         version = 1 =>
           /\ OneItem' /\ DueSoon' /\ \A i \in items' : i.ver = 1
           /\ \A q \in failed' : HasItem(q) => HasItem(q)'
           /\ \A m \in j.markers : m.q \in failed' => HasItem(m.q)'
  PROVE  RepairSafe'
<1>1. /\ RepairTypes /\ j \in RepairJobs /\ WellMade(j) /\ jobs \subseteq RepairJobs
      /\ \A k \in jobs : WellMade(k)
  BY DEF RepairSafe, RepairTypes
<1> DEFINE after == [j EXCEPT !.kind = "acknowledge"]
<1>2. /\ after \in RepairJobs /\ after.kind = "acknowledge" /\ after.markers = j.markers
      /\ after.ver = j.ver
  BY <1>1 DEF RepairJobs
<1>3. WellMade(after)
  <2> HIDE DEF after
  <2>1. QED
    BY <1>2 DEF WellMade
<1>4. \A k \in jobs' : k \in jobs \/ k = after
  OBVIOUS
<1> HIDE DEF after
<1>5. RepairTypes'
  <2>1. jobs' \subseteq RepairJobs /\ \A k \in jobs' : WellMade(k)
    BY <1>1, <1>2, <1>3, <1>4
  <2>2. QED
    BY <1>1, <2>1 DEF RepairTypes, WellMade
<1>6. ASSUME version = 1
      PROVE  /\ OneVersion' /\ FailedWasRated' /\ FailedIsKept'
             /\ \A k \in jobs' : JobFits(k)'
  <2>1. OneVersion /\ FailedWasRated /\ FailedIsKept /\ \A k \in jobs : JobFits(k)
    BY <1>6 DEF RepairSafe
  <2>2. \A k \in jobs' : k.ver = 1
    BY <1>2, <1>4, <2>1 DEF OneVersion
  <2>3. OneVersion'
    BY <1>6, <2>1, <2>2 DEF OneVersion
  <2>4. FailedWasRated' /\ FailedIsKept'
    BY <1>6, <2>1 DEF FailedWasRated, FailedIsKept
  <2>5. ASSUME NEW k \in jobs PROVE JobFits(k)'
    BY <1>6, <2>1 DEF JobFits
  <2>6. ASSUME NEW k, k = after PROVE JobFits(k)'
    BY <1>2, <1>6, <2>1, <2>6 DEF JobFits
  <2>7. QED
    BY <1>4, <2>3, <2>4, <2>5, <2>6
<1>7. QED
  BY <1>5, <1>6 DEF RepairSafe

\* What a write finds in the queue.
LEMMA WriteFinds ==
  ASSUME RepairSafe, NEW j \in jobs
  PROVE  /\ RepairTypes /\ j \in RepairJobs /\ WellMade(j) /\ j.ver \in Nat
         /\ j.markers \subseteq Markers /\ \A m \in j.markers : m.q \in Questions
         /\ items \subseteq RepairItems /\ Repair!Reconcile(items, j.ver) \subseteq items
         /\ Repair!Reconcile(items, j.ver) \in SUBSET RepairItems
         /\ version = 1 =>
              /\ Repair!Reconcile(items, j.ver) = items /\ j.ver = 1 /\ \A i \in items : i.ver = 1
              /\ OneItem /\ DueSoon /\ JobFits(j)
<1>1. RepairTypes /\ j \in RepairJobs /\ WellMade(j) /\ items \subseteq RepairItems
  BY DEF RepairSafe, RepairTypes
<1>2. j.ver \in Nat /\ j.markers \subseteq Markers /\ \A m \in j.markers : m.q \in Questions
  BY <1>1 DEF RepairJobs, Markers
<1>3. Repair!Reconcile(items, j.ver) \subseteq items
  BY DEF Repair!Reconcile
<1>4. ASSUME version = 1
      PROVE  /\ Repair!Reconcile(items, j.ver) = items /\ j.ver = 1 /\ \A i \in items : i.ver = 1
             /\ OneItem /\ DueSoon /\ JobFits(j)
  BY <1>4 DEF RepairSafe, OneVersion, Repair!Reconcile
<1>5. QED
  BY <1>1, <1>2, <1>3, <1>4

\* What is due soon is still so when more cards were seen.
LEMMA DueLater ==
  ASSUME RepairTypes, DueSoon, NEW n \in Nat, seen <= n
  PROVE  \A i \in items : i.due <= n + 5
             /\ (i.attempts = 0 => i.due <= n + Repair!Distance(i.rating))
<1>1. seen \in Nat /\ items \subseteq RepairItems
  BY DEF RepairTypes
<1>2. \A i \in items : i.due \in Nat /\ Repair!Distance(i.rating) \in Nat
  BY <1>1, Distances DEF RepairItems
<1>3. QED
  BY <1>1, <1>2 DEF DueSoon

\* The queue write of a rating.
LEMMA RatedWrites ==
  ASSUME RepairSafe, NEW j \in jobs, Repair!WriteQueue(j), j.kind = "rated"
  PROVE  RepairSafe'
<1> DEFINE left == Repair!Reconcile(items, j.ver)
           mine == Repair!ItemsOf(j.q, left)
<1>1. /\ seen' = seen + 1 /\ UNCHANGED <<review, version, known, rated>> /\ failed' = failed
      /\ items' = IF j.rating = "good" THEN left ELSE Repair!Enqueue(left, j.q, j.ver, j.rating,
           seen + 1)
      /\ jobs' = (jobs \ {j})
           \cup IF j.markers = {} THEN {} ELSE {[j EXCEPT !.kind = "acknowledge"]}
  BY DEF Repair!WriteQueue
<1>2. /\ RepairTypes /\ left \in SUBSET RepairItems /\ left \subseteq items /\ j.ver \in Nat
      /\ seen \in Nat /\ seen + 1 \in Nat /\ seen <= seen + 1 /\ j.q \in Questions
      /\ j.rating \in Repair!Ratings
      /\ (\A m \in j.markers : m.q = j.q) /\ (j.rating = "good" => j.markers = {})
  BY WriteFinds DEF RepairTypes, WellMade
<1>3. version = 1 =>
        /\ left = items /\ j.ver = 1 /\ (\A i \in items : i.ver = 1) /\ OneItem
        /\ \A i \in items : i.due <= seen + 1 + 5
             /\ (i.attempts = 0 => i.due <= seen + 1 + Repair!Distance(i.rating))
  BY <1>2, WriteFinds, DueLater
<1>4. CASE j.rating = "good"
  <2>1. items' \subseteq RepairItems /\ items' = left
    BY <1>1, <1>2, <1>4
  <2>2. version = 1 => OneItem' /\ DueSoon' /\ (\A i \in items' : i.ver = 1) /\ \A q : HasItem(q)
            => HasItem(q)'
    BY <1>1, <1>3, <2>1 DEF OneItem, DueSoon, HasItem
  <2>3. QED
    BY <1>1, <1>2, <1>4, <2>1, <2>2, QueueWriteKeeps
<1>5. CASE j.rating # "good"
  <2>1. PICK e \in RepairItems :
          /\ items' = (left \ mine) \cup {e} /\ e.q = j.q /\ e.ver = j.ver
          /\ e.rating = j.rating /\ e.due = seen + 1 + Repair!Distance(j.rating)
    BY <1>1, <1>2, <1>5, Enqueued
  <2>2. items' \subseteq RepairItems
    BY <1>2, <2>1
  <2>3. e.due <= seen + 1 + 5 /\ e.due <= seen + 1 + Repair!Distance(e.rating)
    BY <1>2, <2>1, Distances
  <2>4. ASSUME version = 1
        PROVE  OneItem' /\ DueSoon' /\ (\A i \in items' : i.ver = 1) /\ \A q : HasItem(q)
                   => HasItem(q)'
    <3>1. mine = {i \in items : i.q = j.q}
      BY <1>3, <2>4 DEF Repair!ItemsOf
    <3>2. OneItem' /\ (\A i \in items' : i.ver = 1) /\ \A q : HasItem(q) => HasItem(q)'
      BY <1>3, <2>1, <2>4, <3>1 DEF OneItem, HasItem
    <3>3. DueSoon'
      BY <1>1, <1>3, <2>1, <2>3, <2>4 DEF DueSoon
    <3>4. QED
      BY <3>2, <3>3
  <2>5. \A m \in j.markers : HasItem(m.q)'
    BY <1>2, <2>1 DEF HasItem
  <2>6. QED
    BY <1>1, <1>2, <2>2, <2>4, <2>5, QueueWriteKeeps
<1>6. QED
  BY <1>4, <1>5

\* The queue write of a rated card.
LEMMA RepairWrites ==
  ASSUME RepairSafe, NEW j \in jobs, Repair!WriteQueue(j), j.kind = "repair"
  PROVE  RepairSafe'
<1> DEFINE left == Repair!Reconcile(items, j.ver)
           mine == Repair!ItemsOf(j.q, left)
<1>1. /\ seen' = (IF mine = {} THEN seen ELSE seen + 1) /\ UNCHANGED <<review, version, known,
           rated>>
      /\ failed' = (IF j.rating = "good" /\ mine # {} THEN failed \ {j.q} ELSE failed)
      /\ items' = (left \ mine) \cup UNION {Repair!RateRepair(i, j.rating) : i \in mine}
      /\ jobs' = (jobs \ {j})
           \cup IF j.markers = {} THEN {} ELSE {[j EXCEPT !.kind = "acknowledge"]}
  BY DEF Repair!WriteQueue
<1>2. /\ RepairTypes /\ left \in SUBSET RepairItems /\ left \subseteq items
      /\ mine \subseteq RepairItems
      /\ seen \in Nat /\ seen' \in Nat /\ seen <= seen' /\ j.q \in Questions
      /\ j.rating \in Repair!Ratings
      /\ (\A m \in j.markers : m.q = j.q) /\ failed' \subseteq failed /\ \A i \in mine : i.q = j.q
  BY <1>1, WriteFinds DEF RepairTypes, WellMade, Repair!ItemsOf
<1>3. version = 1 =>
        /\ left = items /\ mine = {i \in items : i.q = j.q} /\ (\A i \in items : i.ver = 1)
        /\ OneItem
        /\ (\A i \in items : i.due <= seen' + 5
             /\ (i.attempts = 0 => i.due <= seen' + Repair!Distance(i.rating)))
        /\ JobFits(j)
  BY <1>2, WriteFinds, DueLater DEF Repair!ItemsOf
<1>4. items' \subseteq RepairItems
  BY <1>1, <1>2, RatedRepair
<1>5. ASSUME version = 1, mine = {}
      PROVE  /\ OneItem' /\ DueSoon' /\ \A i \in items' : i.ver = 1
             /\ \A q \in failed' : HasItem(q) => HasItem(q)'
             /\ \A m \in j.markers : m.q \in failed' => HasItem(m.q)'
  <2>1. items' = items
    BY <1>1, <1>3, <1>5
  <2>2. QED
    BY <1>1, <1>2, <1>3, <1>5, <2>1 DEF OneItem, DueSoon, HasItem, JobFits
<1>6. ASSUME version = 1, mine # {}
      PROVE  /\ OneItem' /\ DueSoon' /\ \A i \in items' : i.ver = 1
             /\ \A q \in failed' : HasItem(q) => HasItem(q)'
             /\ \A m \in j.markers : m.q \in failed' => HasItem(m.q)'
  <2>1. PICK i \in mine : mine = {i}
    BY <1>3, <1>6 DEF OneItem
  <2>2. items' = (items \ {i}) \cup Repair!RateRepair(i, j.rating) /\ i \in items /\ i.q = j.q
            /\ i.ver = 1
        /\ seen' = seen + 1 /\ i \in RepairItems
    BY <1>1, <1>2, <1>3, <1>6, <2>1
  <2>3. CASE j.rating = "good" /\ Repair!RateRepair(i, j.rating) = {}
    <3>1. items' = items \ {i} /\ failed' = failed \ {j.q}
      BY <1>1, <1>6, <2>2, <2>3
    <3>2. OneItem' /\ DueSoon' /\ \A k \in items' : k.ver = 1
      BY <1>3, <1>6, <3>1 DEF OneItem, DueSoon
    <3>3. QED
      BY <1>2, <2>2, <3>1, <3>2 DEF HasItem
  <2>4. CASE j.rating # "good" /\ \E e \in RepairItems :
               /\ Repair!RateRepair(i, j.rating) = {e}
               /\ e.q = i.q /\ e.ver = i.ver /\ e.attempts # 0 /\ e.due <= seen + 6
    <3>1. PICK e \in RepairItems :
             /\ Repair!RateRepair(i, j.rating) = {e}
             /\ e.q = i.q /\ e.ver = i.ver /\ e.attempts # 0 /\ e.due <= seen + 6
      BY <2>4
    <3>2. items' = (items \ {i}) \cup {e} /\ e.due <= seen' + 5
      BY <1>2, <2>2, <3>1 DEF RepairItems
    <3>3. OneItem' /\ \A k \in items' : k.ver = 1
      BY <1>3, <1>6, <2>2, <3>1, <3>2 DEF OneItem
    <3>4. DueSoon'
      BY <1>3, <1>6, <3>1, <3>2 DEF DueSoon
    <3>5. HasItem(j.q)' /\ \A q : HasItem(q) => HasItem(q)'
      BY <2>2, <3>1, <3>2 DEF HasItem
    <3>6. QED
      BY <1>2, <3>3, <3>4, <3>5
  <2>5. QED
    BY <1>2, <2>2, <2>3, <2>4, RatedRepair
<1>7. QED
  BY <1>1, <1>2, <1>4, <1>5, <1>6, QueueWriteKeeps

\* The queue write of the marked questions.
LEMMA RecoverWrites ==
  ASSUME RepairSafe, NEW j \in jobs, Repair!WriteQueue(j), j.kind = "recover"
  PROVE  RepairSafe'
<1> DEFINE left == Repair!Reconcile(items, j.ver)
           taken == {m \in j.markers : Repair!ItemsOf(m.q, left) = {}}
           freshCard(m) == Repair!Item(m.q, j.ver, review[m.q].rating, 0,
               seen + Repair!Distance(review[m.q].rating))
<1>1. /\ seen' = seen /\ failed' = failed /\ UNCHANGED <<review, version, known, rated>>
      /\ items' = left \cup {freshCard(m) : m \in taken}
      /\ jobs' = (jobs \ {j})
           \cup IF j.markers = {} THEN {} ELSE {[j EXCEPT !.kind = "acknowledge"]}
  BY DEF Repair!WriteQueue
<1>2. /\ RepairTypes /\ left \in SUBSET RepairItems /\ left \subseteq items /\ j.ver \in Nat
      /\ seen \in Nat
      /\ (\A m \in j.markers : m.q \in Questions) /\ \A m, n \in j.markers : m.q = n.q => m = n
  BY WriteFinds DEF RepairTypes, WellMade
<1>3. version = 1 =>
        /\ left = items /\ j.ver = 1 /\ (\A i \in items : i.ver = 1) /\ OneItem /\ DueSoon
  BY WriteFinds
<1>4. ASSUME NEW m \in j.markers
      PROVE  /\ freshCard(m) \in RepairItems /\ freshCard(m).q = m.q /\ freshCard(m).ver = j.ver
             /\ freshCard(m).due <= seen + 5
             /\ freshCard(m).due <= seen + Repair!Distance(freshCard(m).rating)
  <2>1. PICK given : given = review[m.q].rating
    OBVIOUS
  <2>2. PICK due : due = seen + Repair!Distance(given)
    OBVIOUS
  <2>3. given \in Repair!Ratings /\ m.q \in Questions
    BY <1>2, <2>1 DEF RepairTypes, Reviews
  <2>4. due \in Nat /\ due <= seen + 5
    BY <1>2, <2>2, Distances
  <2>5. /\ Repair!Item(m.q, j.ver, given, 0, due) \in RepairItems
        /\ Repair!Item(m.q, j.ver, given, 0, due).q = m.q
        /\ Repair!Item(m.q, j.ver, given, 0, due).ver = j.ver
        /\ Repair!Item(m.q, j.ver, given, 0, due).due = due
        /\ Repair!Item(m.q, j.ver, given, 0, due).rating = given
    BY <1>2, <2>3, <2>4 DEF Repair!Item, RepairItems
  <2>6. QED
    BY <1>2, <2>1, <2>2, <2>4, <2>5
<1> HIDE DEF freshCard
<1>5. items' \subseteq RepairItems
  BY <1>1, <1>2, <1>4
<1>6. ASSUME version = 1
      PROVE  /\ OneItem' /\ DueSoon' /\ (\A i \in items' : i.ver = 1) /\ \A q : HasItem(q)
                  => HasItem(q)'
             /\ \A m \in j.markers : HasItem(m.q)'
  <2>1. /\ \A i \in items' : i \in items \/ \E m \in taken : i = freshCard(m)
        /\ items \subseteq items' /\ \A m \in taken : freshCard(m) \in items'
    BY <1>1, <1>3, <1>6
  <2>2. /\ \A m \in taken : m \in j.markers /\ ~ HasItem(m.q)
        /\ \A m \in j.markers : m \in taken \/ HasItem(m.q)
    BY <1>3, <1>6 DEF Repair!ItemsOf, HasItem
  <2> HIDE DEF taken
  <2>3. OneItem'
    <3>1. ASSUME NEW m \in taken, NEW i \in items PROVE freshCard(m).q # i.q
      BY <1>4, <2>2 DEF HasItem
    <3>2. ASSUME NEW m \in taken, NEW n \in taken, freshCard(m).q = freshCard(n).q
                     PROVE freshCard(m) = freshCard(n)
      BY <1>2, <1>4, <2>2, <3>2
    <3>3. QED
      BY <1>3, <1>6, <2>1, <3>1, <3>2 DEF OneItem
  <2>4. DueSoon'
    BY <1>1, <1>3, <1>4, <1>6, <2>1, <2>2 DEF DueSoon
  <2>5. \A i \in items' : i.ver = 1
    BY <1>3, <1>4, <1>6, <2>1, <2>2
  <2>6. \A q : HasItem(q) => HasItem(q)'
    BY <2>1 DEF HasItem
  <2>7. \A m \in taken : HasItem(m.q)'
    BY <1>4, <2>1, <2>2 DEF HasItem
  <2>8. QED
    BY <2>2, <2>3, <2>4, <2>5, <2>6, <2>7
<1>7. QED
  BY <1>1, <1>2, <1>5, <1>6, QueueWriteKeeps

\* The queue write of a sync.
LEMMA AlignWrites ==
  ASSUME RepairSafe, NEW j \in jobs, Repair!WriteQueue(j), j.kind = "align"
  PROVE  RepairSafe'
<1> DEFINE mine == Repair!ItemsOf(j.q, items)
           fresh == Repair!Item(j.q, j.ver, j.rating, 0, seen + Repair!Distance(j.rating))
           later(i) == Repair!Later(seen,
               i.due + Repair!Distance(j.rating) - Repair!Distance(i.rating))
           again(i) == [i EXCEPT !.rating = j.rating, !.due = later(i)]
           moved(i) == IF i.ver # j.ver THEN fresh
                       ELSE IF i.attempts > 0 \/ i.rating = j.rating THEN i ELSE again(i)
<1>1. /\ seen' = seen /\ failed' = failed /\ UNCHANGED <<review, version, known, rated>>
      /\ items' = Repair!Align(j.q, j.ver, j.local, j.rating)
      /\ jobs' = (jobs \ {j})
           \cup IF j.markers = {} THEN {} ELSE {[j EXCEPT !.kind = "acknowledge"]}
  BY DEF Repair!WriteQueue
<1>2. /\ RepairTypes /\ items \subseteq RepairItems /\ j.ver \in Nat /\ seen \in Nat
      /\ j.markers = {}
      /\ j.q \in Questions /\ j.rating \in Repair!Ratings
  BY WriteFinds DEF RepairTypes, WellMade
<1>3. version = 1 =>
        /\ j.ver = 1 /\ (\A i \in items : i.ver = 1) /\ OneItem /\ DueSoon
        /\ (j.rating = "good" => j.q \notin failed)
  BY WriteFinds DEF JobFits
<1>4. /\ fresh \in RepairItems /\ fresh.q = j.q /\ fresh.ver = j.ver
      /\ fresh.due <= seen + 5 /\ fresh.due <= seen + Repair!Distance(fresh.rating)
  <2>1. PICK due : due = seen + Repair!Distance(j.rating)
    OBVIOUS
  <2>2. due \in Nat /\ due <= seen + 5
    BY <1>2, <2>1, Distances
  <2>3. /\ Repair!Item(j.q, j.ver, j.rating, 0, due) \in RepairItems
        /\ Repair!Item(j.q, j.ver, j.rating, 0, due).q = j.q
        /\ Repair!Item(j.q, j.ver, j.rating, 0, due).ver = j.ver
        /\ Repair!Item(j.q, j.ver, j.rating, 0, due).due = due
        /\ Repair!Item(j.q, j.ver, j.rating, 0, due).rating = j.rating
    BY <1>2, <2>2 DEF Repair!Item, RepairItems
  <2>4. QED
    BY <1>2, <2>1, <2>2, <2>3
<1>5. ASSUME NEW i \in items
      PROVE  /\ again(i) \in RepairItems /\ again(i).q = i.q /\ again(i).ver = i.ver
             /\ again(i).rating = j.rating /\ again(i).due = later(i) /\ later(i) \in Nat
             /\ i.due <= seen + Repair!Distance(i.rating)
                  => later(i) <= seen + Repair!Distance(j.rating)
  <2>1. i.due \in Nat /\ Repair!Distance(i.rating) \in {3, 5}
            /\ Repair!Distance(j.rating) \in {3, 5} /\ i \in RepairItems
    BY <1>2, Distances DEF RepairItems
  <2>2. later(i) \in Nat
    BY <1>2, <2>1 DEF Repair!Later
  <2>3. i.due <= seen + Repair!Distance(i.rating) => later(i) <= seen + Repair!Distance(j.rating)
    BY <1>2, <2>1 DEF Repair!Later
  <2> HIDE DEF later
  <2>4. QED
    BY <1>2, <2>1, <2>2, <2>3 DEF RepairItems
<1> HIDE DEF fresh, later, again
<1>6. ASSUME NEW i \in mine
      PROVE  moved(i) \in RepairItems /\ moved(i).q = j.q /\ i \in items /\ i.q = j.q
  BY <1>2, <1>4, <1>5 DEF Repair!ItemsOf
<1>7. ASSUME version = 1, NEW i \in mine
      PROVE  /\ moved(i).ver = 1 /\ moved(i).due <= seen + 5
             /\ (moved(i).attempts = 0 => moved(i).due <= seen + Repair!Distance(moved(i).rating))
  <2>1. i \in items /\ i.ver = 1 /\ j.ver = 1 /\ i \in RepairItems /\ i.attempts \in 0..6
        /\ i.due <= seen + 5 /\ (i.attempts = 0 => i.due <= seen + Repair!Distance(i.rating))
    BY <1>2, <1>3, <1>6, <1>7 DEF DueSoon, RepairItems
  <2>2. CASE i.attempts > 0 \/ i.rating = j.rating
    BY <2>1, <2>2
  <2>3. CASE ~ (i.attempts > 0 \/ i.rating = j.rating)
    <3>1. moved(i) = again(i) /\ i.attempts = 0
      BY <2>1, <2>3
    <3>2. Repair!Distance(j.rating) \in {3, 5} /\ seen \in Nat /\ later(i) \in Nat
      BY <1>2, <1>5, <2>1, Distances
    <3>3. again(i).ver = 1 /\ again(i).due <= seen + 5
              /\ again(i).due <= seen + Repair!Distance(again(i).rating)
      BY <1>5, <2>1, <3>1, <3>2
    <3>4. QED
      BY <3>1, <3>3
  <2>4. QED
    BY <2>2, <2>3
<1>8. Repair!Align(j.q, j.ver, j.local, j.rating) =
        CASE j.rating = "good" -> items \ mine
          [] j.rating # "good" /\ mine = {} -> IF j.local = "good" THEN items
              \cup {fresh} ELSE items
          [] OTHER -> (items \ mine) \cup {moved(i) : i \in mine}
  BY DEF Repair!Align, fresh, again, later
<1> HIDE DEF moved
<1>9. CASE j.rating = "good"
  <2>1. items' = items \ mine
    BY <1>1, <1>8, <1>9
  <2>2. version = 1 => /\ OneItem' /\ DueSoon' /\ (\A i \in items' : i.ver = 1)
                       /\ \A q \in failed' : HasItem(q) => HasItem(q)'
    BY <1>1, <1>3, <1>9, <2>1 DEF OneItem, DueSoon, HasItem, Repair!ItemsOf
  <2>3. QED
    BY <1>1, <1>2, <2>1, <2>2, QueueWriteKeeps
<1>10. CASE j.rating # "good" /\ mine = {}
  <2>1. items' = items \/ items' = items \cup {fresh}
    BY <1>1, <1>8, <1>10
  <2>2. version = 1 => /\ OneItem' /\ DueSoon' /\ (\A i \in items' : i.ver = 1)
                       /\ \A q \in failed' : HasItem(q) => HasItem(q)'
    BY <1>1, <1>3, <1>4, <1>10, <2>1 DEF OneItem, DueSoon, HasItem, Repair!ItemsOf
  <2>3. QED
    BY <1>1, <1>2, <1>4, <2>1, <2>2, QueueWriteKeeps
<1>11. CASE j.rating # "good" /\ mine # {}
  <2>1. items' = (items \ mine) \cup {moved(i) : i \in mine}
    BY <1>1, <1>8, <1>11
  <2>2. items' \subseteq RepairItems
    BY <1>2, <1>6, <2>1
  <2>3. ASSUME version = 1
        PROVE  /\ OneItem' /\ DueSoon' /\ (\A i \in items' : i.ver = 1)
               /\ \A q \in failed' : HasItem(q) => HasItem(q)'
    <3>1. PICK i \in mine : mine = {i}
      BY <1>3, <1>11, <2>3 DEF OneItem, Repair!ItemsOf
    <3>2. items' = (items \ {i}) \cup {moved(i)} /\ i \in items /\ i.q = j.q /\ moved(i).q = j.q
      BY <1>6, <2>1, <3>1
    <3>3. OneItem' /\ (\A k \in items' : k.ver = 1)
      BY <1>3, <1>7, <2>3, <3>2 DEF OneItem
    <3>4. DueSoon'
      BY <1>1, <1>3, <1>7, <2>3, <3>2 DEF DueSoon
    <3>5. \A q : HasItem(q) => HasItem(q)'
      BY <3>2 DEF HasItem
    <3>6. QED
      BY <3>3, <3>4, <3>5
  <2>4. QED
    BY <1>1, <1>2, <2>2, <2>3, QueueWriteKeeps
<1>12. QED
  BY <1>9, <1>10, <1>11

------------------------------------------------------------------------------
\* Every step keeps the invariant: the inductive invariant of the repair queue.
THEOREM RepairsAreSafe == ASSUME Repair!RepairAssumption PROVE Repair!Spec => []RepairSafe
<1>1. Repair!Init => RepairSafe
  BY RepairInit
<1>2. RepairSafe /\ [Repair!Next]_(Repair!vars) => RepairSafe'
  <2> SUFFICES ASSUME RepairSafe, [Repair!Next]_(Repair!vars) PROVE RepairSafe'
    OBVIOUS
  <2>1. CASE UNCHANGED Repair!vars
    <3>1. RepairTypes' /\ \A q : HasItem(q)' = HasItem(q)
      BY <2>1 DEF Repair!vars, RepairSafe, RepairTypes, WellMade, HasItem
    <3>2. QED
      BY <2>1, <3>1 DEF Repair!vars, RepairSafe, OneVersion, OneItem, DueSoon, FailedWasRated,
          FailedIsKept, JobFits
  <2>2. CASE Repair!Edit
    <3>1. RepairTypes' /\ version' # 1
      BY <2>2 DEF Repair!Edit, RepairSafe, RepairTypes, WellMade
    <3>2. QED
      BY <3>1 DEF RepairSafe
  <2>3. ASSUME NEW t \in Tabs, Repair!Recover(t) \/ Repair!RefreshQueue(t) \/ Repair!Load(t)
                   PROVE RepairSafe'
    BY <2>3, RecoverKeeps, QuietKeeps
  <2>4. ASSUME NEW t \in Tabs, NEW q \in Questions, Repair!SyncAnswered(t, q) PROVE RepairSafe'
    BY <2>4, AnswerKeeps
  <2>5. ASSUME NEW t \in Tabs, NEW q \in Questions, NEW r \in Repair!Ratings,
               Repair!Rate(t, q, r) PROVE RepairSafe'
    BY <2>5, RateKeeps
  <2>6. ASSUME NEW t \in Tabs, NEW i \in items, NEW r \in Repair!Ratings,
               Repair!RateCard(t, i, r) PROVE RepairSafe'
    BY <2>6, RateCardKeeps
  <2>7. ASSUME NEW j \in jobs, Repair!WriteQueue(j) PROVE RepairSafe'
    <3>1. j.kind \in {"rated", "repair", "recover", "align"}
      BY <2>7 DEF Repair!WriteQueue
    <3>2. QED
      BY <2>7, <3>1, RatedWrites, RepairWrites, RecoverWrites, AlignWrites
  <2>8. ASSUME NEW j \in jobs, Repair!Acknowledge(j) PROVE RepairSafe'
    BY <2>8, AcknowledgeKeeps
  <2>9. ASSUME NEW j \in jobs, Repair!Fail(j) PROVE RepairSafe'
    <3>1. UNCHANGED <<review, seen, items, version, known, rated, failed>> /\ jobs' \subseteq jobs
      BY <2>9 DEF Repair!Fail
    <3>2. RepairTypes' /\ \A q : HasItem(q)' = HasItem(q)
      BY <3>1 DEF RepairSafe, RepairTypes, WellMade, HasItem
    <3>3. QED
      BY <3>1, <3>2
         DEF RepairSafe, OneVersion, OneItem, DueSoon, FailedWasRated, FailedIsKept, JobFits
  <2>10. QED
    BY <2>1, <2>2, <2>3, <2>4, <2>5, <2>6, <2>7, <2>8, <2>9 DEF Repair!Next
<1>3. QED
  BY <1>1, <1>2, PTL DEF Repair!Spec

\* A question failed here stays marked for the queue or in it, once and soon
\* due, until it is repaired.
THEOREM FailedStaysInRepair == ASSUME Repair!RepairAssumption PROVE Repair!Spec
    => []FailedIsRepaired
<1>1. RepairSafe => FailedIsRepaired
  <2> SUFFICES ASSUME RepairSafe, version = 1, NEW q \in failed, review[q].marker = 0
               PROVE  \E i \in items : Repair!ItemsOf(q, items) = {i} /\ i.due <= seen + 5
    BY DEF FailedIsRepaired, Repair!FailedIsRepaired
  <2>1. OneItem /\ DueSoon /\ FailedIsKept
    BY DEF RepairSafe
  <2>2. PICK i \in items : i.q = q
    BY <2>1 DEF FailedIsKept, HasItem
  <2>3. Repair!ItemsOf(q, items) = {i}
    BY <2>1, <2>2 DEF OneItem, Repair!ItemsOf
  <2>4. QED
    BY <2>1, <2>3 DEF DueSoon
<1>2. QED
  BY <1>1, RepairsAreSafe, PTL

------------------------------------------------------------------------------
(***************************************************************************)
(* The sprint, for any plan, tabs and questions that change: whatever copy *)
(* a tab writes from, the stored sprint only advances.                     *)
(*                                                                         *)
(* A write takes effect on the session it was made from, or not at all; so *)
(* the invariant speaks of the writes still to come: what a tab knows to be *)
(* reviewed or gone is so, the question it rates has been reviewed, and    *)
(* what it is about to store moves on from the session it read (MovesOn).  *)
(***************************************************************************)

\* A question is in one of the two queues.
SprintSessions ==
  {s \in [id : Nat, by : Tabs \cup {None}, remaining : SUBSET Sprint!Planned,
          completed : SUBSET Sprint!Planned] : s.remaining \cap s.completed = {}}

SprintTypes ==
  /\ sprint \in SprintSessions \cup {None} /\ started \in Nat
  /\ reviewed \subseteq Sprint!Planned /\ gone \subseteq Sprint!Planned
  /\ copy \in [Tabs -> SprintSessions \cup {None}]
  /\ noted \in [Tabs -> [reviewed : SUBSET Sprint!Planned, gone : SUBSET Sprint!Planned]]
  /\ answering \in [Tabs -> [q : Sprint!Planned, from : SprintSessions] \cup {None}]
  /\ writes \subseteq [tab : Tabs, from : SprintSessions, to : SprintSessions]

MovesOn(from, to) ==
  /\ to.id = from.id
  /\ to.remaining \subseteq from.remaining
  /\ from.remaining \ to.remaining \subseteq reviewed \cup gone
  /\ from.completed \ gone \subseteq to.completed

SprintSafe ==
  /\ SprintTypes
  /\ sprint # None => sprint.id <= started
  /\ \A t \in Tabs : noted[t].reviewed \subseteq reviewed /\ noted[t].gone \subseteq gone
  /\ \A t \in Tabs : answering[t] # None => answering[t].q \in reviewed
  /\ \A w \in writes : MovesOn(w.from, w.to)

------------------------------------------------------------------------------
\* A set of naturals that is not empty has a least element.
LEMMA LeastElement ==
  ASSUME NEW S \in SUBSET Nat, S # {}
  PROVE  \E x \in S : \A y \in S : x <= y
<1>1. IsWellFoundedOn(OpToRel(<, Nat), Nat)
  BY NatLessThanWellFounded
<1>2. PICK x \in S : \A y \in S : <<y, x>> \notin OpToRel(<, Nat)
  BY <1>1, WFMin
<1>3. \A y \in S : y \in Nat /\ ~ (y < x)
  BY <1>2 DEF OpToRel
<1> QED
  BY <1>3

\* The first of some questions is one of them.
LEMMA FirstIsOne ==
  ASSUME Sprint!SprintAssumption, NEW some \in SUBSET Sprint!Planned, some # {}
  PROVE  Sprint!First(some) \in some
<1> DEFINE places == {i \in DOMAIN Plan : Plan[i] \in some}
<1>1. DOMAIN Plan \in SUBSET Nat
  BY DEF Sprint!SprintAssumption
<1>2. places \in SUBSET Nat /\ places # {}
  BY <1>1 DEF Sprint!Planned
<1>3. PICK first \in places : \A j \in places : first <= j
  BY <1>2, LeastElement
<1>4. \E i \in DOMAIN Plan : Plan[i] \in some /\ \A j \in DOMAIN Plan : Plan[j] \in some => i <= j
  BY <1>3
<1> QED
  BY <1>4 DEF Sprint!First

\* What completing a question and reconciling make of a session.
LEMMA CompletedMovesOn ==
  ASSUME NEW s \in SprintSessions, NEW q \in Sprint!Planned, q \in reviewed, NEW t \in Tabs
  PROVE  Sprint!Completed(s, q, t) \in SprintSessions /\ MovesOn(s, Sprint!Completed(s, q, t))
<1>1. CASE ~ Sprint!Active(s) \/ Sprint!First(s.remaining) # q
  BY <1>1 DEF Sprint!Completed, MovesOn
<1>2. CASE ~ (~ Sprint!Active(s) \/ Sprint!First(s.remaining) # q)
  <2> DEFINE to == [s EXCEPT !.by = t, !.remaining = s.remaining \ {q},
                             !.completed = s.completed \cup {q}]
  <2>1. Sprint!Completed(s, q, t) = to
    BY <1>2 DEF Sprint!Completed
  <2>2. /\ to \in SprintSessions /\ to.id = s.id /\ to.remaining = s.remaining \ {q}
        /\ to.completed = s.completed \cup {q}
    BY DEF SprintSessions
  <2> QED
    BY <2>1, <2>2 DEF MovesOn
<1> QED
  BY <1>1, <1>2

\* A tab drops what it knows to be reviewed or gone, and that alone.
LEMMA ReconciledMovesOn ==
  ASSUME SprintSafe, NEW s \in SprintSessions, NEW t \in Tabs
  PROVE  Sprint!Reconciled(s, t) \in SprintSessions /\ MovesOn(s, Sprint!Reconciled(s, t))
<1> DEFINE dropped == Sprint!Dropped(s, noted[t])
           to == [s EXCEPT !.by = t, !.remaining = s.remaining \ dropped,
                           !.completed = s.completed \ dropped]
<1>1. Sprint!Reconciled(s, t) = to
  BY DEF Sprint!Reconciled
<1>2. /\ s.remaining \cap dropped \subseteq reviewed \cup gone
      /\ s.completed \cap dropped \subseteq gone
  BY DEF Sprint!Dropped, SprintSafe, SprintSessions
<1> HIDE DEF dropped
<1>3. /\ to \in SprintSessions /\ to.id = s.id /\ to.remaining = s.remaining \ dropped
      /\ to.completed = s.completed \ dropped
  BY DEF SprintSessions
<1> QED
  BY <1>1, <1>2, <1>3 DEF MovesOn

------------------------------------------------------------------------------
(* The steps of the sprint.                                                 *)

\* Nothing is stored and no write is to come.
LEMMA SprintInitSafe == Sprint!Init => SprintSafe
BY DEF Sprint!Init, SprintSafe, SprintTypes

\* What is reviewed or gone only grows, so what moves on still does.
LEMMA StillMovesOn ==
  ASSUME NEW from, NEW to, MovesOn(from, to), reviewed \subseteq reviewed', gone \subseteq gone'
  PROVE  MovesOn(from, to)'
BY DEF MovesOn

\* The start of another sprint.
LEMMA StartSafe ==
  ASSUME SprintSafe, Sprint!Start
  PROVE  SprintSafe' /\ Sprint!Advances
<1>1. /\ started' = started + 1 /\ sprint' = Sprint!Session(started + 1) /\ started \in Nat
      /\ UNCHANGED <<reviewed, gone, copy, noted, answering, writes>>
  BY DEF Sprint!Start, SprintSafe, SprintTypes
<1>2. sprint' \in SprintSessions /\ sprint'.id = started + 1
  BY <1>1 DEF Sprint!Session, SprintSessions
<1>3. SprintTypes'
  BY <1>1, <1>2 DEF SprintSafe, SprintTypes
<1>4. SprintSafe'
  BY <1>1, <1>2, <1>3, StillMovesOn DEF SprintSafe
<1>5. Sprint!Advances
  <2>1. sprint # None => sprint.id \in Nat /\ sprint.id <= started
    BY DEF SprintSafe, SprintTypes, SprintSessions
  <2> QED
    BY <1>1, <1>2, <2>1 DEF Sprint!Advances
<1> QED
  BY <1>4, <1>5

\* A page opens the stored session.
LEMMA OpenSafe ==
  ASSUME SprintSafe, NEW t \in Tabs, Sprint!Open(t)
  PROVE  SprintSafe' /\ UNCHANGED sprint
<1>1. SprintTypes'
  BY DEF Sprint!Open, SprintSafe, SprintTypes
<1> QED
  BY <1>1, StillMovesOn DEF Sprint!Open, SprintSafe, SprintTypes

\* The owner changes a question; a tab hears of it.
LEMMA ChangesSafe ==
  ASSUME SprintSafe, NEW q \in Sprint!Planned, Sprint!Changes(q)
  PROVE  SprintSafe' /\ UNCHANGED sprint
<1>1. SprintTypes'
  BY DEF Sprint!Changes, SprintSafe, SprintTypes
<1> QED
  BY <1>1, StillMovesOn DEF Sprint!Changes, SprintSafe

\* A tab hears of reviews and of questions gone.
LEMMA HearsSafe ==
  ASSUME SprintSafe, NEW t \in Tabs, Sprint!Hears(t)
  PROVE  SprintSafe' /\ UNCHANGED sprint
<1>1. SprintTypes'
  BY DEF Sprint!Hears, SprintSafe, SprintTypes
<1> QED
  BY <1>1, StillMovesOn DEF Sprint!Hears, SprintSafe, SprintTypes

\* A tab drops questions; the write is to come.
LEMMA ReconcileSafe ==
  ASSUME SprintSafe, NEW t \in Tabs, Sprint!Reconcile(t)
  PROVE  SprintSafe' /\ UNCHANGED sprint
<1> DEFINE new == Sprint!Reconciled(copy[t], t)
           w == [tab |-> t, from |-> copy[t], to |-> new]
<1>1. /\ writes' = writes \cup {w} /\ copy' = [copy EXCEPT ![t] = new]
      /\ UNCHANGED <<sprint, started, reviewed, gone, noted, answering>>
  BY DEF Sprint!Reconcile
<1>2. copy[t] \in SprintSessions
  BY DEF Sprint!Reconcile, SprintSafe, SprintTypes
<1>3. new \in SprintSessions /\ MovesOn(copy[t], new)
  BY <1>2, ReconciledMovesOn
<1> HIDE DEF new
<1>4. SprintTypes'
  BY <1>1, <1>2, <1>3 DEF SprintSafe, SprintTypes
<1>5. \A v \in writes' : MovesOn(v.from, v.to)'
  BY <1>1, <1>3, StillMovesOn DEF SprintSafe
<1> QED
  BY <1>1, <1>4, <1>5 DEF SprintSafe

\* The tab that lost shows the stored session or what it had.
LEMMA AdoptTyped ==
  ASSUME SprintTypes, NEW t \in Tabs, NEW or \in SprintSessions \cup {None}, Sprint!Adopt(t, or)
  PROVE  copy' \in [Tabs -> SprintSessions \cup {None}]
BY DEF SprintTypes, Sprint!Adopt

\* The write of the dropped questions.
LEMMA WriteReconciledSafe ==
  ASSUME SprintSafe, NEW w \in writes, Sprint!WriteReconciled(w)
  PROVE  SprintSafe' /\ Sprint!Advances
<1>1. /\ writes' = writes \ {w} /\ UNCHANGED <<started, reviewed, gone, noted, answering>>
  BY DEF Sprint!WriteReconciled
<1>2. /\ w.tab \in Tabs /\ w.from \in SprintSessions /\ w.to \in SprintSessions /\ MovesOn(w.from, w.to)
      /\ copy[w.tab] \in SprintSessions \cup {None}
  BY DEF SprintSafe, SprintTypes
<1>3. \/ sprint # None /\ sprint = w.from /\ sprint' = w.to
      \/ UNCHANGED sprint
  BY DEF Sprint!WriteReconciled, Sprint!SameRevision
<1>4. copy' \in [Tabs -> SprintSessions \cup {None}]
  BY <1>2, AdoptTyped DEF Sprint!WriteReconciled, SprintSafe, SprintTypes
<1>5. SprintTypes'
  BY <1>1, <1>2, <1>3, <1>4 DEF SprintSafe, SprintTypes
<1>6. \A v \in writes' : MovesOn(v.from, v.to)'
  BY <1>1, StillMovesOn DEF SprintSafe
<1>7. sprint' # None => sprint'.id <= started'
  BY <1>1, <1>2, <1>3 DEF SprintSafe, MovesOn
<1>8. SprintSafe'
  BY <1>1, <1>5, <1>6, <1>7 DEF SprintSafe
<1>9. Sprint!Advances
  BY <1>2, <1>3 DEF Sprint!Advances, MovesOn
<1> QED
  BY <1>8, <1>9

\* A review is recorded.
LEMMA RateSafe ==
  ASSUME Sprint!SprintAssumption, SprintSafe, NEW t \in Tabs, Sprint!Rate(t)
  PROVE  SprintSafe' /\ UNCHANGED sprint
<1> DEFINE q == Sprint!First(copy[t].remaining)
<1>1. /\ copy[t] # None /\ copy[t].remaining # {}
      /\ answering' = [answering EXCEPT ![t] = [q |-> q, from |-> copy[t]]]
      /\ reviewed' = reviewed \cup {q} /\ noted' = [noted EXCEPT ![t].reviewed = reviewed']
      /\ UNCHANGED <<sprint, started, gone, copy, writes>>
  BY DEF Sprint!Rate, Sprint!Active
<1>2. copy[t] \in SprintSessions
  BY <1>1 DEF SprintSafe, SprintTypes
<1>3. copy[t].remaining \in SUBSET Sprint!Planned
  BY <1>2 DEF SprintSessions
<1>4. q \in Sprint!Planned
  BY <1>1, <1>3, FirstIsOne
<1> HIDE DEF q
<1>5. SprintTypes'
  <2>1. reviewed' \subseteq Sprint!Planned
    BY <1>1, <1>4 DEF SprintSafe, SprintTypes
  <2>2. noted' \in [Tabs -> [reviewed : SUBSET Sprint!Planned, gone : SUBSET Sprint!Planned]]
    BY <1>1, <2>1 DEF SprintSafe, SprintTypes
  <2> QED
    BY <1>1, <1>2, <1>4, <2>1, <2>2 DEF SprintSafe, SprintTypes
<1>6. \A v \in writes' : MovesOn(v.from, v.to)'
  BY <1>1, StillMovesOn DEF SprintSafe
<1>7. \A u \in Tabs : noted'[u].reviewed \subseteq reviewed' /\ noted'[u].gone \subseteq gone'
  BY <1>1 DEF SprintSafe, SprintTypes
<1>8. \A u \in Tabs : answering'[u] # None => answering'[u].q \in reviewed'
  BY <1>1 DEF SprintSafe, SprintTypes
<1> QED
  BY <1>1, <1>5, <1>6, <1>7, <1>8 DEF SprintSafe

\* The session goes on to the next question.
LEMMA AdvanceSafe ==
  ASSUME SprintSafe, NEW t \in Tabs, Sprint!Advance(t)
  PROVE  SprintSafe' /\ Sprint!Advances
<1> DEFINE base == answering[t].from
           next == Sprint!Completed(base, answering[t].q, t)
<1>1. /\ answering[t] # None /\ answering' = [answering EXCEPT ![t] = None]
      /\ UNCHANGED <<started, reviewed, gone, noted, writes>>
      /\ \/ sprint # None /\ sprint = base /\ sprint' = next
         \/ UNCHANGED sprint
      /\ copy' = [copy EXCEPT ![t] = next] \/ Sprint!Adopt(t, next)
  BY DEF Sprint!Advance, Sprint!SameRevision
<1>2. base \in SprintSessions /\ answering[t].q \in Sprint!Planned /\ answering[t].q \in reviewed
  BY <1>1 DEF SprintSafe, SprintTypes
<1>3. next \in SprintSessions /\ MovesOn(base, next)
  BY <1>2, CompletedMovesOn
<1> HIDE DEF base, next
<1>4. copy' \in [Tabs -> SprintSessions \cup {None}]
  BY <1>1, <1>3, AdoptTyped DEF SprintSafe, SprintTypes
<1>5. SprintTypes'
  BY <1>1, <1>3, <1>4 DEF SprintSafe, SprintTypes
<1>6. \A v \in writes' : MovesOn(v.from, v.to)'
  BY <1>1, StillMovesOn DEF SprintSafe
<1>7. sprint' # None => sprint'.id <= started'
  BY <1>1, <1>3 DEF SprintSafe, MovesOn
<1>8. \A u \in Tabs : answering'[u] # None => answering'[u].q \in reviewed'
  BY <1>1 DEF SprintSafe, SprintTypes
<1>9. SprintSafe'
  BY <1>1, <1>5, <1>6, <1>7, <1>8 DEF SprintSafe
<1>10. Sprint!Advances
  BY <1>1, <1>3 DEF Sprint!Advances, MovesOn
<1> QED
  BY <1>9, <1>10

\* A page that leaves takes its rating and its writes with it.
LEMMA AwaySafe ==
  ASSUME SprintSafe, NEW t \in Tabs, Sprint!Away(t),
         UNCHANGED <<started, reviewed, gone, noted>>, sprint' = sprint \/ sprint' = None
  PROVE  SprintSafe'
<1>1. /\ copy' = [copy EXCEPT ![t] = None] /\ answering' = [answering EXCEPT ![t] = None]
      /\ writes' \subseteq writes
  BY DEF Sprint!Away
<1>2. SprintTypes'
  BY <1>1 DEF SprintSafe, SprintTypes
<1>3. \A v \in writes' : MovesOn(v.from, v.to)'
  BY <1>1, StillMovesOn DEF SprintSafe
<1>4. \A u \in Tabs : answering'[u] # None => answering'[u].q \in reviewed'
  BY <1>1 DEF SprintSafe, SprintTypes
<1> QED
  BY <1>2, <1>3, <1>4 DEF SprintSafe

\* The sprint is cancelled, or another tab has written.
LEMMA CancelSafe ==
  ASSUME SprintSafe, NEW t \in Tabs, Sprint!Cancel(t)
  PROVE  SprintSafe' /\ Sprint!Advances
<1>1. CASE Sprint!Away(t) /\ sprint' = None
  <2>1. SprintSafe'
    BY <1>1, AwaySafe DEF Sprint!Cancel
  <2> QED
    BY <1>1, <2>1 DEF Sprint!Advances
<1>2. CASE Sprint!Adopt(t, copy[t]) /\ UNCHANGED <<sprint, answering, writes>>
  <2>1. UNCHANGED <<started, reviewed, gone, noted>> /\ copy[t] \in SprintSessions \cup {None}
    BY DEF Sprint!Cancel, SprintSafe, SprintTypes
  <2>2. copy' \in [Tabs -> SprintSessions \cup {None}]
    BY <1>2, <2>1, AdoptTyped DEF SprintSafe
  <2>3. SprintSafe'
    BY <1>2, <2>1, <2>2, StillMovesOn DEF SprintSafe, SprintTypes
  <2> QED
    BY <1>2, <2>3 DEF Sprint!Advances
<1> QED
  BY <1>1, <1>2 DEF Sprint!Cancel

\* A page is left, or closed.
LEMMA LeaveSafe ==
  ASSUME SprintSafe, NEW t \in Tabs, Sprint!Leave(t)
  PROVE  SprintSafe' /\ UNCHANGED sprint
BY AwaySafe DEF Sprint!Leave

\* A step that leaves the store alone advances it.
LEMMA SameAdvances == UNCHANGED sprint => Sprint!Advances
BY DEF Sprint!Advances

\* Every step keeps the invariant, and the stored sprint advances by it.
LEMMA SprintNextSafe ==
  ASSUME Sprint!SprintAssumption, SprintSafe, Sprint!Next
  PROVE  SprintSafe' /\ Sprint!Advances
BY StartSafe, OpenSafe, ChangesSafe, HearsSafe, ReconcileSafe, WriteReconciledSafe, RateSafe,
   AdvanceSafe, CancelSafe, LeaveSafe, SameAdvances DEF Sprint!Next

------------------------------------------------------------------------------
\* Every reachable state of the sprint satisfies the inductive invariant.
THEOREM SprintIsSafe == ASSUME Sprint!SprintAssumption PROVE Sprint!Spec => []SprintSafe
<1>1. SprintSafe /\ UNCHANGED Sprint!vars => SprintSafe'
  BY DEF SprintSafe, SprintTypes, MovesOn, Sprint!vars
<1>2. SprintSafe /\ [Sprint!Next]_(Sprint!vars) => SprintSafe'
  BY <1>1, SprintNextSafe
<1> QED
  BY SprintInitSafe, <1>2, PTL DEF Sprint!Spec

\* Whatever old copy a tab writes from, the stored sprint takes no question back,
\* loses none that nobody has answered, and keeps what it completed.
THEOREM TheSprintAdvances ==
  ASSUME Sprint!SprintAssumption PROVE Sprint!Spec => SprintOnlyAdvances
<1>1. SprintSafe /\ [Sprint!Next]_(Sprint!vars) => [Sprint!Advances]_(Sprint!vars)
  BY SprintNextSafe
<1> QED
  BY SprintIsSafe, <1>1, PTL DEF Sprint!Spec, SprintOnlyAdvances, Sprint!SprintOnlyAdvances

------------------------------------------------------------------------------
(***************************************************************************)
(* Training evidence, for any number of tabs and devices: a device keeps   *)
(* what was saved on it, and the cloud keeps all the evidence it took.     *)
(*                                                                         *)
(* A sync writes what it read a while ago, twice.  The invariant says that *)
(* its document still has what the device kept (SyncHasKept), and, while the *)
(* revision it read is the cloud's, all that the cloud has (PutHasCloud):  *)
(* a put that the cloud accepts only adds.                                 *)
(***************************************************************************)

Openings == [at : Nat, unseen : BOOLEAN]
Attempts == [at : Nat, variant : {"practice", "checkpoint"},
             outcome : {"passed", "hinted", "failed"}, start : Openings]
Exposures == [at : Nat, kind : {"unseen", "spaced_retest", "repeat"}]
Statuses == {"open", "learning", "transfer_ready", "verified"}
Gaps == [at : Nat, status : Statuses, practice : Nat, verification : Nat]
Docs == [attempts : SUBSET Attempts, exposures : SUBSET Exposures, gap : Gaps \cup {None}]
Syncs == [phase : {"idle", "reads", "puts", "puts again", "saved"}, doc : Docs,
          revision : Nat, again : BOOLEAN]

TrainingTyped ==
  /\ documents \in [Devices -> Docs]
  /\ account \in [doc : Docs, revision : Nat]
  /\ saving \in [Tabs -> Syncs]
  /\ opened \in [Tabs -> Openings \cup {None}]
  /\ ticks \in Nat
  /\ kept \in [Devices -> SUBSET Attempts]

\* One document has all the evidence of another.
Within(d, e) == d.attempts \subseteq e.attempts /\ d.exposures \subseteq e.exposures

\* A sync has what the device kept.
SyncHasKept(t) == saving[t].phase # "idle" => kept[Home[t]] \subseteq saving[t].doc.attempts

\* A put whose revision is still the cloud's has all that the cloud has.
PutHasCloud(t) ==
  saving[t].phase \in {"puts", "puts again"} =>
    /\ saving[t].revision <= account.revision
    /\ saving[t].revision = account.revision => Within(account.doc, saving[t].doc)

\* What a device kept, it has stored.
AttemptsStay == \A d \in Devices : kept[d] \subseteq documents[d].attempts

TrainingSafe ==
  /\ TrainingTyped
  /\ \A t \in Tabs : SyncHasKept(t) /\ PutHasCloud(t)
  /\ AttemptsStay

\* The first document, and nobody's sync.
LEMMA TrainingInit == ASSUME Training!TrainingAssumption, Training!Init PROVE TrainingSafe
<1>1. Training!NoDoc \in Docs /\ Training!NoDoc.attempts = {}
  BY DEF Training!NoDoc, Docs
<1>2. Training!NoSync \in Syncs /\ Training!NoSync.phase = "idle"
  BY <1>1 DEF Training!NoSync, Syncs
<1>3. TrainingTyped
  BY <1>1, <1>2 DEF Training!Init, TrainingTyped
<1>4. \A t \in Tabs : SyncHasKept(t) /\ PutHasCloud(t)
  BY <1>2 DEF Training!Init, SyncHasKept, PutHasCloud
<1>5. AttemptsStay
  BY DEF Training!Init, AttemptsStay
<1>6. QED
  BY <1>3, <1>4, <1>5 DEF TrainingSafe

------------------------------------------------------------------------------

\* Two documents are merged to one that has the evidence of both.
LEMMA MergedDoc ==
  ASSUME NEW d \in Docs, NEW e \in Docs
  PROVE  /\ Training!Merge(d, e) \in Docs
         /\ Training!Merge(d, e).attempts = d.attempts \cup e.attempts
         /\ Training!Merge(d, e).exposures = d.exposures \cup e.exposures
<1> DEFINE both == [attempts |-> d.attempts \cup e.attempts, exposures |-> d.exposures
               \cup e.exposures,
                    gap |-> Training!MergedGap(d.gap, e.gap)]
<1>1. Training!MergedGap(d.gap, e.gap) \in Gaps \cup {None}
  BY DEF Training!MergedGap, Docs
<1>2. both \in Docs /\ both.attempts = d.attempts \cup e.attempts /\ both.exposures = d.exposures
          \cup e.exposures
  BY <1>1 DEF Docs
<1> HIDE DEF both
<1>3. ASSUME NEW g \in Gaps PROVE Training!ReconciledGap(both, g) \in Gaps
  <2> DEFINE practised == \E a \in both.attempts : a.at = g.practice /\ a.variant = "practice"
                 /\ a.outcome # "failed"
             confirmed == \E a \in both.attempts : a.at = g.verification /\ a.variant = "checkpoint"
                                         /\ a.outcome = "passed" /\ Training!Eligible(both, a.start)
             borne == IF g.status = "verified" /\ ~confirmed THEN "transfer_ready" ELSE g.status
  <2>1. Training!ReconciledGap(both, g) =
          [g EXCEPT !.practice = IF practised THEN @ ELSE 0,
            !.status = IF borne \in {"transfer_ready", "verified"}
                /\ ~practised THEN "learning" ELSE borne,
            !.verification = IF practised /\ confirmed THEN @ ELSE 0]
    BY DEF Training!ReconciledGap
  <2>2. borne \in Statuses
    BY DEF Gaps, Statuses
  <2> DEFINE practice == IF practised THEN g.practice ELSE 0
             status == IF borne \in {"transfer_ready", "verified"}
                 /\ ~practised THEN "learning" ELSE borne
             verification == IF practised /\ confirmed THEN g.verification ELSE 0
  <2> HIDE DEF practised, confirmed, borne
  <2>3. practice \in Nat /\ status \in Statuses /\ verification \in Nat
    BY <2>2 DEF Gaps, Statuses
  <2>4. Training!ReconciledGap(both, g) =
          [g EXCEPT !.practice = practice, !.status = status, !.verification = verification]
    BY <2>1
  <2> HIDE DEF practice, status, verification
  <2>5. QED
    BY <2>3, <2>4 DEF Gaps
<1>4. Training!Reconciled(both) \in Docs /\ Training!Reconciled(both).attempts = both.attempts
      /\ Training!Reconciled(both).exposures = both.exposures
  BY <1>2, <1>3 DEF Training!Reconciled, Docs
<1>5. Training!Merge(d, e) = Training!Reconciled(both)
  BY DEF Training!Merge, both
<1>6. QED
  BY <1>2, <1>4, <1>5

\* A sync starts with the document it is given, ends with none or the next.
LEMMA SyncStarts ==
  ASSUME TrainingTyped, NEW t \in Tabs, NEW doc \in Docs
  PROVE  /\ Training!Triggered(t, doc) \in Syncs
         /\ Training!Triggered(t, doc) = Training!Started(doc) \/
              /\ saving[t].phase # "idle" /\ Training!Triggered(t, doc).phase = saving[t].phase
              /\ Training!Triggered(t, doc).doc = saving[t].doc
              /\ Training!Triggered(t, doc).revision = saving[t].revision
         /\ Training!Ended(t, doc) \in Syncs
         /\ Training!Ended(t, doc) = Training!Started(doc) \/ Training!Ended(t, doc).phase = "idle"
         /\ Training!Started(doc) \in Syncs /\ Training!Started(doc).phase = "reads"
         /\ Training!Started(doc).doc = doc
<1>1. saving[t] \in Syncs
  BY DEF TrainingTyped
<1>2. Training!Started(doc) \in Syncs /\ Training!Started(doc).phase = "reads"
          /\ Training!Started(doc).doc = doc
  BY DEF Training!Started, Syncs
<1>3. Training!NoSync \in Syncs /\ Training!NoSync.phase = "idle"
  BY DEF Training!NoSync, Training!NoDoc, Docs, Syncs
<1>4. QED
  BY <1>1, <1>2, <1>3 DEF Training!Triggered, Training!Ended, Syncs

\* Every way a device's document is written and a sync is told of it: the
\* document keeps what was kept, and so do the syncs.
LEMMA DocWritten ==
  ASSUME Training!TrainingAssumption, TrainingSafe, NEW t \in Tabs, NEW doc \in Docs,
         documents' = [documents EXCEPT ![Home[t]] = doc], account' = account,
         kept' \in [Devices -> SUBSET Attempts],
         \A d \in Devices : d # Home[t] => kept'[d] = kept[d],
         kept'[Home[t]] \subseteq doc.attempts,
         kept'[Home[t]] = kept[Home[t]] \/ ~ Training!Syncing(Home[t]),
         saving' \in {[saving EXCEPT ![t] = next] : next \in {Training!Triggered(t, doc),
             Training!Ended(t, doc), Training!Started(doc)}},
         opened' \in [Tabs -> Openings \cup {None}], ticks' \in Nat
  PROVE  TrainingSafe'
<1>1. Home[t] \in Devices /\ \A u \in Tabs : Home[u] \in Devices
  BY DEF Training!TrainingAssumption
<1>2. /\ documents \in [Devices -> Docs] /\ saving \in [Tabs -> Syncs]
      /\ account \in [doc : Docs, revision : Nat] /\ TrainingTyped /\ AttemptsStay
      /\ \A u \in Tabs : SyncHasKept(u) /\ PutHasCloud(u)
  BY DEF TrainingSafe, TrainingTyped
<1>3. TrainingTyped'
  BY <1>1, <1>2, SyncStarts DEF TrainingTyped
<1>4. AttemptsStay'
  BY <1>1, <1>2 DEF AttemptsStay
<1>5. \A u \in Tabs : u # t => saving'[u] = saving[u]
  BY <1>2
<1>6. saving'[t] \in {Training!Triggered(t, doc), Training!Ended(t, doc), Training!Started(doc)}
  BY <1>2
<1>7. ASSUME NEW u \in Tabs PROVE SyncHasKept(u)'
  <2>1. CASE saving'[u].phase # "idle" /\ saving[u].phase # "idle" /\ saving'[u].doc = saving[u].doc
    <3>1. kept'[Home[u]] = kept[Home[u]]
      BY <1>1, <2>1 DEF Training!Syncing
    <3>2. QED
      BY <1>2, <2>1, <3>1 DEF SyncHasKept
  <2>2. CASE u = t /\ saving'[t] = Training!Started(doc)
    BY <2>2, <1>2, SyncStarts DEF SyncHasKept
  <2>3. CASE saving'[u].phase = "idle"
    BY <2>3 DEF SyncHasKept
  <2>4. QED
    BY <1>2, <1>5, <1>6, <2>1, <2>2, <2>3, SyncStarts
<1>8. ASSUME NEW u \in Tabs PROVE PutHasCloud(u)'
  <2>1. CASE saving'[u].phase = saving[u].phase /\ saving'[u].doc = saving[u].doc
                 /\ saving'[u].revision = saving[u].revision
    BY <1>2, <2>1 DEF PutHasCloud
  <2>2. CASE saving'[u].phase \in {"idle", "reads"}
    BY <2>2 DEF PutHasCloud
  <2>3. QED
    BY <1>2, <1>5, <1>6, <2>1, <2>2, SyncStarts
<1>9. QED
  BY <1>3, <1>4, <1>7, <1>8 DEF TrainingSafe

\* The three ways an attempt, an exposure or a gap is written.
LEMMA DrillWritten ==
  ASSUME NEW d \in Docs, NEW a \in Attempts, NEW now \in Nat
  PROVE  /\ Training!Completed(d, a) \in Docs /\ Training!Completed(d, a).attempts = d.attempts
              \cup {a}
         /\ Training!Exposed(d, now) \in Docs /\ Training!Exposed(d, now).attempts = d.attempts
         /\ LET weak == [d EXCEPT !.gap = [at |-> now, status |-> "open", practice |-> 0,
              verification |-> 0]]
            IN  weak \in Docs /\ weak.attempts = d.attempts
<1>1. Training!NewGap(a.at, a.variant, a.outcome) \in Gaps \cup {None}
  BY DEF Training!NewGap, Gaps, Statuses, Attempts
<1>2. ASSUME NEW g \in Gaps, NEW eligible
      PROVE  Training!GapAfter(g, Training!StatusAfter(g.status, a.variant, a.outcome, eligible),
                 a.at, a.variant) \in Gaps
  <2>1. Training!StatusAfter(g.status, a.variant, a.outcome, eligible) \in Statuses
    BY DEF Training!StatusAfter, Statuses
  <2>2. ASSUME NEW status \in Statuses PROVE Training!GapAfter(g, status, a.at, a.variant) \in Gaps
    BY DEF Training!GapAfter, Gaps, Attempts
  <2>3. QED
    BY <2>1, <2>2
<1>3. Training!Completed(d, a) \in Docs /\ Training!Completed(d, a).attempts = d.attempts \cup {a}
  BY <1>1, <1>2 DEF Training!Completed, Docs
<1>4. Training!Kind(d, now) \in {"unseen", "spaced_retest", "repeat"}
  BY DEF Training!Kind
<1>5. [at |-> now, kind |-> Training!Kind(d, now)] \in Exposures
  BY <1>4 DEF Exposures
<1>6. Training!Exposed(d, now) \in Docs /\ Training!Exposed(d, now).attempts = d.attempts
  BY <1>5 DEF Training!Exposed, Docs
<1>7. [at |-> now, status |-> "open", practice |-> 0, verification |-> 0] \in Gaps
  BY DEF Gaps, Statuses
<1>8. QED
  BY <1>3, <1>6, <1>7 DEF Docs

------------------------------------------------------------------------------

\* A page is opened, or loaded again.
LEMMA OpensKeeps ==
  ASSUME Training!TrainingAssumption, TrainingSafe, NEW t \in Tabs, Training!Opens(t)
             \/ Training!Reload(t)
  PROVE  TrainingSafe' /\ account' = account
<1> DEFINE doc == documents[Home[t]]
<1>1. TrainingTyped /\ AttemptsStay /\ Home[t] \in Devices
  BY DEF TrainingSafe, Training!TrainingAssumption
<1>2. doc \in Docs /\ kept[Home[t]] \subseteq doc.attempts
  BY <1>1 DEF TrainingTyped, AttemptsStay
<1>3. documents' = [documents EXCEPT ![Home[t]] = doc] /\ account' = account /\ kept' = kept /\ ticks' = ticks
  BY <1>1 DEF Training!Opens, Training!Reload, TrainingTyped
<1>4. saving' \in {[saving EXCEPT ![t] = next] : next \in {Training!Triggered(t, doc),
          Training!Ended(t, doc), Training!Started(doc)}}
  BY DEF Training!Opens, Training!Reload
<1>5. opened' \in [Tabs -> Openings \cup {None}]
  BY <1>1 DEF Training!Opens, Training!Reload, TrainingTyped
<1>6. kept' \in [Devices -> SUBSET Attempts] /\ ticks' \in Nat
  BY <1>1, <1>3 DEF TrainingTyped
<1> HIDE DEF doc
<1>7. QED
  BY <1>2, <1>3, <1>4, <1>5, <1>6, DocWritten

\* A sync that ends leaves a document with all it started with.
LEMMA EndsKeeps ==
  ASSUME Training!TrainingAssumption, TrainingSafe, NEW t \in Tabs, NEW doc \in Docs,
         Training!Ends(t, doc),
         kept[Home[t]] \subseteq doc.attempts, UNCHANGED <<account, opened, ticks, kept>>
  PROVE  TrainingSafe' /\ account' = account
<1>1. saving' \in {[saving EXCEPT ![t] = next] : next \in {Training!Triggered(t, doc),
          Training!Ended(t, doc), Training!Started(doc)}}
  BY DEF Training!Ends
<1>2. documents' = [documents EXCEPT ![Home[t]] = doc] /\ account' = account /\ kept' = kept
  BY DEF Training!Ends
<1>3. /\ opened' \in [Tabs -> Openings \cup {None}]
      /\ kept' \in [Devices -> SUBSET Attempts] /\ ticks' \in Nat
  BY DEF TrainingSafe, TrainingTyped
<1>4. kept'[Home[t]] \subseteq doc.attempts /\ kept'[Home[t]] = kept[Home[t]]
  BY <1>2
<1>5. QED
  BY <1>1, <1>2, <1>3, <1>4, DocWritten

\* A sync that goes on, and what it may do to the cloud.
LEMMA SyncGoesOn ==
  ASSUME Training!TrainingAssumption, TrainingSafe, NEW t \in Tabs, NEW next \in Syncs,
         saving' = [saving EXCEPT ![t] = next], UNCHANGED <<documents, opened, ticks, kept>>,
         saving[t].phase # "idle", saving[t].doc.attempts \subseteq next.doc.attempts,
         account' \in [doc : Docs, revision : Nat],
         account' = account \/ account'.revision = account.revision + 1,
         \/ next.phase = "saved"
         \/ next.revision = account.revision /\ account' = account /\ Within(account.doc, next.doc)
  PROVE  TrainingSafe'
<1>1. TrainingTyped /\ AttemptsStay /\ \A u \in Tabs : SyncHasKept(u) /\ PutHasCloud(u)
  BY DEF TrainingSafe
<1>2. saving'[t] = next /\ \A u \in Tabs : u # t => saving'[u] = saving[u]
  BY <1>1 DEF TrainingTyped
<1>3. TrainingTyped' /\ AttemptsStay'
  BY <1>1 DEF TrainingTyped, AttemptsStay
<1>4. ASSUME NEW u \in Tabs PROVE SyncHasKept(u)'
  <2>1. CASE u = t
    BY <2>1, <1>1, <1>2 DEF SyncHasKept
  <2>2. CASE u # t
    BY <2>2, <1>1, <1>2 DEF SyncHasKept
  <2>3. QED
    BY <2>1, <2>2
<1>5. ASSUME NEW u \in Tabs PROVE PutHasCloud(u)'
  <2>1. CASE u = t
    <3>1. account.revision \in Nat
      BY <1>1 DEF TrainingTyped
    <3>2. CASE next.phase = "saved"
      BY <2>1, <1>2, <3>2 DEF PutHasCloud
    <3>3. CASE next.revision = account.revision /\ account' = account /\ Within(account.doc, next.doc)
      <4>1. saving'[u].revision = account'.revision /\ account'.revision \in Nat
                /\ Within(account'.doc, saving'[u].doc)
        BY <2>1, <1>2, <3>1, <3>3
      <4>2. saving'[u].revision <= account'.revision
        BY <4>1
      <4>3. Within(account.doc, saving[u].doc)'
        BY <4>1 DEF Within
      <4>4. QED
        BY <4>2, <4>3 DEF PutHasCloud
    <3>4. QED
      BY <3>2, <3>3
  <2>2. CASE u # t /\ account' = account
    BY <2>2, <1>1, <1>2 DEF PutHasCloud
  <2>3. CASE u # t /\ account'.revision = account.revision + 1
    <3>1. account.revision \in Nat /\ saving[u].revision \in Nat
      BY <1>1 DEF TrainingTyped, Syncs
    <3>2. saving[u].phase \in {"puts", "puts again"} => saving[u].revision <= account.revision
      BY <1>1 DEF PutHasCloud
    <3>3. saving'[u] = saving[u]
      BY <2>3, <1>2
    <3>4. saving[u].revision <= account.revision =>
            saving[u].revision <= account.revision + 1 /\ saving[u].revision # account.revision + 1
      BY <3>1
    <3>5. QED
      BY <2>3, <3>2, <3>3, <3>4 DEF PutHasCloud
  <2>4. QED
    BY <2>1, <2>2, <2>3
<1>6. QED
  BY <1>3, <1>4, <1>5 DEF TrainingSafe

\* A sync reads the cloud and merges it into its document.
LEMMA ReadsKeeps ==
  ASSUME Training!TrainingAssumption, TrainingSafe, NEW t \in Tabs, Training!Reads(t)
  PROVE  TrainingSafe' /\ account' = account
<1> DEFINE merged == Training!Merge(saving[t].doc, account.doc)
           local == documents[Home[t]]
           put == [Training!Put(merged, account.revision, "puts") EXCEPT !.again = saving[t].again]
<1>1. TrainingTyped /\ AttemptsStay /\ SyncHasKept(t) /\ Home[t] \in Devices
  BY DEF TrainingSafe, Training!TrainingAssumption
<1>2. /\ saving[t] \in Syncs /\ saving[t].doc \in Docs /\ account.doc \in Docs /\ account.revision \in Nat
      /\ local \in Docs /\ kept[Home[t]] \subseteq local.attempts
      /\ account \in [doc : Docs, revision : Nat]
  BY <1>1 DEF TrainingTyped, Syncs, AttemptsStay
<1>3. /\ merged \in Docs /\ saving[t].doc.attempts \subseteq merged.attempts
      /\ Within(account.doc, merged)
  BY <1>2, MergedDoc DEF Within
<1>4. saving[t].phase = "reads" /\ kept[Home[t]] \subseteq merged.attempts
      /\ UNCHANGED <<account, opened, ticks, kept>>
  BY <1>1, <1>3 DEF Training!Reads, SyncHasKept
<1>5. \/ Training!Ends(t, merged) \/ Training!Ends(t, local)
      \/ saving' = [saving EXCEPT ![t] = put] /\ UNCHANGED documents
  BY DEF Training!Reads, Training!Persisted
<1> HIDE DEF merged, local
<1>6. put \in Syncs /\ put.doc = merged /\ put.revision = account.revision /\ put.phase = "puts"
  BY <1>2, <1>3 DEF Training!Put, Syncs
<1> HIDE DEF put
<1>7. CASE Training!Ends(t, merged)
  BY <1>3, <1>4, <1>7, EndsKeeps
<1>8. CASE Training!Ends(t, local)
  BY <1>2, <1>4, <1>8, EndsKeeps
<1>9. CASE saving' = [saving EXCEPT ![t] = put] /\ UNCHANGED documents
  <2>1. account' \in [doc : Docs, revision : Nat]
    BY <1>2, <1>4
  <2>2. /\ saving[t].phase # "idle" /\ saving[t].doc.attempts \subseteq put.doc.attempts
        /\ Within(account.doc, put.doc) /\ UNCHANGED <<documents, opened, ticks, kept>> /\ account' = account
    BY <1>3, <1>4, <1>6, <1>9
  <2>3. put.revision = account.revision /\ account' = account /\ Within(account.doc, put.doc)
    BY <1>6, <2>2
  <2>4. TrainingSafe'
    BY <1>6, <1>9, <2>1, <2>2, <2>3, SyncGoesOn
  <2>5. QED
    BY <1>4, <2>4
<1>10. QED
  BY <1>5, <1>7, <1>8, <1>9

\* A sync puts its document; the cloud takes it at the revision it read.
LEMMA SavesKeeps ==
  ASSUME Training!TrainingAssumption, TrainingSafe, NEW t \in Tabs, Training!Saves(t)
  PROVE  TrainingSafe' /\ Training!Grows
<1> DEFINE s == saving[t]
           merged == Training!Merge(s.doc, account.doc)
           ended == [s EXCEPT !.phase = "saved"]
           again == [Training!Put(merged, account.revision, "puts again") EXCEPT !.again = s.again]
           other == [s EXCEPT !.doc = merged, !.phase = "saved"]
<1>1. TrainingTyped /\ PutHasCloud(t)
  BY DEF TrainingSafe
<1>2. /\ s \in Syncs /\ s.doc \in Docs /\ account.doc \in Docs /\ account.revision \in Nat
      /\ account \in [doc : Docs, revision : Nat]
  BY <1>1 DEF TrainingTyped, Syncs
<1>3. /\ merged \in Docs /\ s.doc.attempts \subseteq merged.attempts /\ Within(account.doc, merged)
  BY <1>2, MergedDoc DEF Within
<1>4. s.phase \in {"puts", "puts again"} /\ UNCHANGED <<documents, opened, ticks, kept>>
  BY DEF Training!Saves
<1>5. CASE Training!MaySave(s.revision)
  <2>1. account' = [doc |-> s.doc, revision |-> account.revision + 1]
            /\ saving' = [saving EXCEPT ![t] = ended]
    BY <1>5 DEF Training!Saves
  <2>2. ended \in Syncs /\ ended.doc = s.doc /\ ended.phase = "saved"
    BY <1>2 DEF Syncs
  <2>3. account' \in [doc : Docs, revision : Nat] /\ account'.revision = account.revision + 1
            /\ account'.doc = s.doc
    BY <1>2, <2>1
  <2>4. Within(account.doc, s.doc)
    BY <1>1, <1>4, <1>5 DEF PutHasCloud, Training!MaySave
  <2>5. Training!Grows
    BY <2>3, <2>4 DEF Training!Grows, Within
  <2> HIDE DEF s, ended
  <2>6. saving[t].phase # "idle" /\ saving[t].doc = s.doc
    BY <1>4 DEF s
  <2>7. QED
    BY <1>4, <2>1, <2>2, <2>3, <2>5, <2>6, SyncGoesOn
<1>6. CASE ~ Training!MaySave(s.revision)
  <2>1. account' = account /\ (saving' = [saving EXCEPT ![t] = again] \/ saving' = [saving EXCEPT ![t] = other])
    BY <1>6 DEF Training!Saves, Training!Retried
  <2> HIDE DEF merged
  <2>2. /\ again \in Syncs /\ again.doc = merged /\ again.phase = "puts again"
        /\ again.revision = account.revision
        /\ other \in Syncs /\ other.doc = merged /\ other.phase = "saved"
    BY <1>2, <1>3 DEF Training!Put, Syncs
  <2>3. Training!Grows /\ account' \in [doc : Docs, revision : Nat]
    BY <1>2, <2>1 DEF Training!Grows
  <2>4. /\ saving[t].phase # "idle" /\ Within(account.doc, again.doc) /\ Within(account.doc, other.doc)
        /\ saving[t].doc.attempts \subseteq again.doc.attempts
        /\ saving[t].doc.attempts \subseteq other.doc.attempts
    BY <1>3, <1>4, <2>2
  <2> HIDE DEF again, other
  <2>5. CASE saving' = [saving EXCEPT ![t] = again]
    <3>1. again.revision = account.revision /\ account' = account /\ Within(account.doc, again.doc)
      BY <2>1, <2>2, <2>4
    <3>2. TrainingSafe'
      BY <1>4, <2>1, <2>2, <2>3, <2>4, <2>5, <3>1, SyncGoesOn
    <3>3. QED
      BY <2>3, <3>2
  <2>6. CASE saving' = [saving EXCEPT ![t] = other]
    BY <1>4, <2>1, <2>2, <2>3, <2>4, <2>6, SyncGoesOn
  <2>7. QED
    BY <2>1, <2>3, <2>5, <2>6
<1>7. QED
  BY <1>5, <1>6

\* A put is heard of, or is not.
LEMMA SavedKeeps ==
  ASSUME Training!TrainingAssumption, TrainingSafe, NEW t \in Tabs, Training!Saved(t)
             \/ Training!Lost(t)
  PROVE  TrainingSafe' /\ account' = account
<1>1. TrainingTyped /\ AttemptsStay /\ SyncHasKept(t) /\ Home[t] \in Devices
  BY DEF TrainingSafe, Training!TrainingAssumption
<1>2. /\ saving[t].doc \in Docs /\ documents[Home[t]] \in Docs
      /\ kept[Home[t]] \subseteq documents[Home[t]].attempts
  BY <1>1 DEF TrainingTyped, Syncs, AttemptsStay
<1>3. CASE Training!Saved(t)
  <2>1. Training!Ends(t, saving[t].doc) /\ kept[Home[t]] \subseteq saving[t].doc.attempts
        /\ UNCHANGED <<account, opened, ticks, kept>>
    BY <1>1, <1>3 DEF Training!Saved, Training!Persisted, SyncHasKept
  <2>2. QED
    BY <1>2, <2>1, EndsKeeps
<1>4. CASE Training!Lost(t)
  <2>1. Training!Ends(t, documents[Home[t]]) /\ UNCHANGED <<account, opened, ticks, kept>>
    BY <1>4 DEF Training!Lost
  <2>2. QED
    BY <1>2, <2>1, EndsKeeps
<1>5. QED
  BY <1>3, <1>4

------------------------------------------------------------------------------

\* A document that has the device's attempts, and more, is written.
LEMMA DeviceWriteKeeps ==
  ASSUME Training!TrainingAssumption, TrainingSafe, NEW t \in Tabs, NEW doc \in Docs,
         Training!Write(t, doc), account' = account,
         documents[Home[t]].attempts \subseteq doc.attempts,
         kept' = kept \/ \E a \in doc.attempts :
           kept' = [kept EXCEPT ![Home[t]] = IF Training!Syncing(Home[t]) THEN @ ELSE @ \cup {a}],
         opened' \in [Tabs -> Openings \cup {None}], ticks' \in Nat
  PROVE  TrainingSafe'
<1> DEFINE merged == Training!Merge(documents[Home[t]], doc)
<1>1. TrainingTyped /\ AttemptsStay /\ Home[t] \in Devices
  BY DEF TrainingSafe, Training!TrainingAssumption
<1>2. documents[Home[t]] \in Docs /\ kept[Home[t]] \subseteq documents[Home[t]].attempts
          /\ kept \in [Devices -> SUBSET Attempts]
  BY <1>1 DEF TrainingTyped, AttemptsStay
<1>3. merged \in Docs /\ doc.attempts \subseteq merged.attempts
  BY <1>2, MergedDoc
<1>4. documents' = [documents EXCEPT ![Home[t]] = merged]
          /\ saving' = [saving EXCEPT ![t] = Training!Triggered(t, merged)]
  BY DEF Training!Write
<1> HIDE DEF merged
<1>5. doc.attempts \subseteq Attempts
  BY DEF Docs
<1>6. /\ kept' \in [Devices -> SUBSET Attempts] /\ kept'[Home[t]] \subseteq merged.attempts
      /\ \A d \in Devices : d # Home[t] => kept'[d] = kept[d]
      /\ kept'[Home[t]] = kept[Home[t]] \/ ~ Training!Syncing(Home[t])
  <2>1. CASE kept' = kept
    BY <2>1, <1>2, <1>3
  <2>2. CASE kept' # kept
    <3>1. PICK a \in doc.attempts :
            kept' = [kept EXCEPT ![Home[t]] = IF Training!Syncing(Home[t]) THEN @ ELSE @ \cup {a}]
      BY <2>2
    <3>2. QED
      BY <3>1, <1>1, <1>2, <1>3, <1>5
  <2>3. QED
    BY <2>1, <2>2
<1>7. saving' \in {[saving EXCEPT ![t] = next] : next \in {Training!Triggered(t, merged),
          Training!Ended(t, merged), Training!Started(merged)}}
  BY <1>4
<1>8. QED
  BY <1>3, <1>4, <1>6, <1>7, DocWritten

\* A drill is finished.
LEMMA FinishKeeps ==
  ASSUME Training!TrainingAssumption, TrainingSafe, NEW t \in Tabs,
         NEW o \in {"passed", "hinted", "failed"},
         Training!FinishPractice(t, o) \/ Training!FinishCheckpoint(t, o)
  PROVE  TrainingSafe' /\ account' = account
<1>1. TrainingTyped /\ Home[t] \in Devices
  BY DEF TrainingSafe, Training!TrainingAssumption
<1>2. documents[Home[t]] \in Docs /\ opened \in [Tabs -> Openings \cup {None}] /\ ticks \in Nat
  BY <1>1 DEF TrainingTyped
<1>3. ticks' \in Nat /\ account' = account /\ opened' \in [Tabs -> Openings \cup {None}]
  BY <1>2 DEF Training!FinishPractice, Training!FinishCheckpoint, Training!Tick
<1>4. PICK a \in Attempts : Training!Record(t, a)
  <2>1. [at |-> 0, unseen |-> FALSE] \in Openings
    BY DEF Openings
  <2>2. CASE Training!FinishPractice(t, o)
    <3>1. Training!Attempt(ticks', "practice", o, [at |-> 0, unseen |-> FALSE]) \in Attempts
      BY <1>3, <2>1 DEF Training!Attempt, Attempts
    <3>2. QED
      BY <2>2, <3>1 DEF Training!FinishPractice
  <2>3. CASE Training!FinishCheckpoint(t, o)
    <3>1. opened[t] \in Openings
      BY <2>3, <1>2 DEF Training!FinishCheckpoint
    <3>2. Training!Attempt(ticks', "checkpoint", o, opened[t]) \in Attempts
      BY <1>3, <3>1 DEF Training!Attempt, Attempts
    <3>3. QED
      BY <2>3, <3>2 DEF Training!FinishCheckpoint
  <2>4. QED
    BY <2>2, <2>3
<1> DEFINE doc == Training!Completed(documents[Home[t]], a)
<1>5. doc \in Docs /\ doc.attempts = documents[Home[t]].attempts \cup {a}
  BY <1>2, <1>4, DrillWritten
<1>6. Training!Write(t, doc)
          /\ kept' = [kept EXCEPT ![Home[t]] = IF Training!Syncing(Home[t]) THEN @ ELSE @ \cup {a}]
  BY <1>4 DEF Training!Record
<1> HIDE DEF doc
<1>7. documents[Home[t]].attempts \subseteq doc.attempts /\ a \in doc.attempts
  BY <1>5
<1>8. QED
  BY <1>3, <1>5, <1>6, <1>7, DeviceWriteKeeps

\* A scenario is opened, or a gap of a mock.
LEMMA AttemptOpens ==
  ASSUME Training!TrainingAssumption, TrainingSafe, NEW t \in Tabs, Training!OpenScenario(t)
             \/ Training!OpenGapFromMock(t)
  PROVE  TrainingSafe' /\ account' = account
<1> DEFINE local == documents[Home[t]]
           weak == [local EXCEPT !.gap = [at |-> ticks', status |-> "open", practice |-> 0,
               verification |-> 0]]
<1>1. TrainingTyped /\ Home[t] \in Devices
  BY DEF TrainingSafe, Training!TrainingAssumption
<1>2. local \in Docs /\ opened \in [Tabs -> Openings \cup {None}] /\ ticks \in Nat
  BY <1>1 DEF TrainingTyped
<1>3. ticks' \in Nat /\ account' = account /\ kept' = kept
  BY <1>2 DEF Training!OpenScenario, Training!OpenGapFromMock, Training!Tick
<1>4. opened' \in [Tabs -> Openings \cup {None}]
  <2> DEFINE start == [at |-> ticks', unseen |-> Training!Kind(local, ticks') = "unseen"]
  <2>1. start \in Openings
    BY <1>3 DEF Openings
  <2>2. opened' = opened \/ opened' = [opened EXCEPT ![t] = start]
    BY DEF Training!OpenScenario, Training!OpenGapFromMock
  <2> HIDE DEF start
  <2>3. QED
    BY <1>2, <2>1, <2>2
<1> HIDE DEF local
<1>5. \A a \in Attempts : /\ Training!Exposed(local, ticks') \in Docs
                          /\ Training!Exposed(local, ticks').attempts = local.attempts
                          /\ weak \in Docs /\ weak.attempts = local.attempts
  BY <1>2, <1>3, DrillWritten
<1>6. Attempts # {}
  <2>1. [at |-> 0, unseen |-> FALSE] \in Openings
    BY DEF Openings
  <2>2. [at |-> 0, variant |-> "practice", outcome |-> "passed",
            start |-> [at |-> 0, unseen |-> FALSE]] \in Attempts
    BY <2>1 DEF Attempts
  <2>3. QED
    BY <2>2
<1>7. PICK doc \in {Training!Exposed(local, ticks'), weak} : Training!Write(t, doc)
  BY DEF Training!OpenScenario, Training!OpenGapFromMock, local
<1>8. doc \in Docs /\ doc.attempts = local.attempts
  BY <1>5, <1>6, <1>7
<1>9. documents[Home[t]].attempts \subseteq doc.attempts
  BY <1>8 DEF local
<1>10. QED
  BY <1>3, <1>4, <1>7, <1>8, <1>9, DeviceWriteKeeps

------------------------------------------------------------------------------

\* Every step keeps the invariant, and what the cloud has grows.
LEMMA TrainingStep ==
  ASSUME Training!TrainingAssumption, TrainingSafe, [Training!Next]_(Training!vars)
  PROVE  TrainingSafe' /\ (Training!Grows \/ UNCHANGED Training!vars)
<1>0. account' = account => Training!Grows
  BY DEF Training!Grows
<1>1. CASE UNCHANGED Training!vars
  <2>1. TrainingTyped' /\ AttemptsStay'
    BY <1>1 DEF TrainingSafe, TrainingTyped, AttemptsStay, Training!vars
  <2>2. \A t \in Tabs : SyncHasKept(t)' /\ PutHasCloud(t)'
    BY <1>1 DEF TrainingSafe, SyncHasKept, PutHasCloud, Training!vars
  <2>3. QED
    BY <1>1, <2>1, <2>2 DEF TrainingSafe
<1>2. CASE Training!Next
  <2>1. PICK t \in Tabs :
          \/ Training!Opens(t) \/ Training!Reads(t) \/ Training!Saves(t) \/ Training!Saved(t)
               \/ Training!Lost(t) \/ Training!Reload(t)
          \/ Training!OpenScenario(t) \/ Training!OpenGapFromMock(t)
          \/ \E o \in {"passed", "hinted", "failed"} : Training!FinishPractice(t, o)
               \/ Training!FinishCheckpoint(t, o)
    BY <1>2 DEF Training!Next
  <2>2. CASE Training!Opens(t) \/ Training!Reload(t)
    BY <1>0, <2>2, OpensKeeps
  <2>3. CASE Training!Reads(t)
    BY <1>0, <2>3, ReadsKeeps
  <2>4. CASE Training!Saves(t)
    BY <2>4, SavesKeeps
  <2>5. CASE Training!Saved(t) \/ Training!Lost(t)
    BY <1>0, <2>5, SavedKeeps
  <2>6. CASE Training!OpenScenario(t) \/ Training!OpenGapFromMock(t)
    BY <1>0, <2>6, AttemptOpens
  <2>7. CASE \E o \in {"passed", "hinted", "failed"} : Training!FinishPractice(t, o)
                 \/ Training!FinishCheckpoint(t, o)
    BY <1>0, <2>7, FinishKeeps
  <2>8. QED
    BY <2>1, <2>2, <2>3, <2>4, <2>5, <2>6, <2>7
<1>3. QED
  BY <1>1, <1>2

\* Every reachable state of the training evidence satisfies the inductive
\* invariant.
THEOREM TrainingIsSafe == ASSUME Training!TrainingAssumption PROVE Training!Spec => []TrainingSafe
<1>1. Training!Init => TrainingSafe
  BY TrainingInit
<1>2. TrainingSafe /\ [Training!Next]_(Training!vars) => TrainingSafe'
  BY TrainingStep
<1>3. QED
  BY <1>1, <1>2, PTL DEF Training!Spec

\* An attempt saved while no tab of its device was syncing stays there.
THEOREM DevicesKeepWhatTheySaved == ASSUME Training!TrainingAssumption PROVE Training!Spec
    => []SavedStays
<1>1. TrainingSafe => SavedStays
  BY DEF TrainingSafe, TrainingTyped, AttemptsStay, SavedStays, Training!SavedStays
<1>2. QED
  BY <1>1, TrainingIsSafe, PTL

------------------------------------------------------------------------------
(***************************************************************************)
(* The mission's plan, for any number of devices: the cloud keeps the first *)
(* one, and what a device is told was saved is that.                       *)
(***************************************************************************)

Plans == [of : Nat, by : Devices]
MissionSyncs == [phase : {"idle", "reads", "puts", "saved"}, plan : Plans \cup {None},
    again : BOOLEAN]

MissionTypes ==
  /\ plans \in [Devices -> Plans \cup {None}] /\ firstPlan \in Plans \cup {None}
  /\ page \in [Devices -> Nat \cup {None}] /\ asking \in [Devices -> MissionSyncs] /\ evidence \in Nat

\* What a device is told was saved is the plan of the cloud.
SavedIsCloud ==
  \A d \in Devices :
    /\ asking[d].phase = "puts" => asking[d].plan # None
    /\ asking[d].phase = "saved" => firstPlan # None /\ asking[d].plan = firstPlan

MissionSafe == MissionTypes /\ SavedIsCloud

\* No device has a plan.
LEMMA MissionInit == Mission!Init => MissionSafe
  BY DEF Mission!Init, Mission!NoSync, MissionSafe, MissionTypes, SavedIsCloud, MissionSyncs

\* What a sync is when it starts, is asked for again, or ends.
LEMMA NextSync ==
  ASSUME MissionTypes, NEW d \in Devices
  PROVE  /\ Mission!Started \in MissionSyncs /\ Mission!Started.phase = "reads"
         /\ Mission!NoSync \in MissionSyncs /\ Mission!NoSync.phase = "idle"
         /\ Mission!Triggered(d) \in MissionSyncs /\ Mission!Ended(d) \in MissionSyncs
         /\ Mission!Ended(d).phase \in {"idle", "reads"}
         /\ \/ Mission!Triggered(d).phase = "reads"
            \/ Mission!Triggered(d).phase = asking[d].phase
                 /\ Mission!Triggered(d).plan = asking[d].plan
  BY DEF MissionTypes, MissionSyncs, Mission!Started, Mission!NoSync, Mission!Triggered,
      Mission!Ended

\* Every step keeps the plan's invariant.
LEMMA MissionStep ==
  ASSUME MissionSafe, [Mission!Next]_(Mission!vars) PROVE MissionSafe'
<1>1. MissionTypes /\ SavedIsCloud
  BY DEF MissionSafe
<1>2. CASE Mission!Learn \/ UNCHANGED Mission!vars
  BY <1>1, <1>2 DEF Mission!Learn, Mission!vars, MissionSafe, MissionTypes, SavedIsCloud
<1>3. ASSUME NEW d \in Devices, NEW next \in MissionSyncs, asking' = [asking EXCEPT ![d] = next],
             plans' \in [Devices -> Plans \cup {None}], page' \in [Devices -> Nat \cup {None}],
             UNCHANGED <<firstPlan, evidence>>,
             \/ next.phase \in {"idle", "reads"}
             \/ next.phase = "puts" /\ next.plan # None
             \/ next.phase = asking[d].phase /\ next.plan = asking[d].plan
      PROVE  MissionSafe'
  <2>1. MissionTypes'
    BY <1>1, <1>3 DEF MissionTypes
  <2>2. SavedIsCloud'
    BY <1>1, <1>3 DEF SavedIsCloud, MissionTypes
  <2>3. QED
    BY <2>1, <2>2 DEF MissionSafe
<1>4. ASSUME NEW d \in Devices, Mission!Load(d) \/ Mission!Close(d) PROVE MissionSafe'
  <2>1. page' \in [Devices -> Nat \cup {None}] /\ plans' \in [Devices -> Plans \cup {None}]
    BY <1>1, <1>4 DEF Mission!Load, Mission!Close, MissionTypes
  <2>2. PICK next \in {Mission!Started, Mission!NoSync} : asking' = [asking EXCEPT ![d] = next]
    BY <1>4 DEF Mission!Load, Mission!Close
  <2>3. UNCHANGED <<firstPlan, evidence>>
    BY <1>4 DEF Mission!Load, Mission!Close
  <2>4. QED
    BY <1>1, <1>3, <2>1, <2>2, <2>3, NextSync
<1>5. ASSUME NEW d \in Devices, Mission!Freeze(d) PROVE MissionSafe'
  <2> DEFINE plan == [of |-> page[d], by |-> d]
  <2>1. plan \in Plans
    BY <1>1, <1>5 DEF Mission!Freeze, MissionTypes, Plans
  <2>2. /\ plans' = [plans EXCEPT ![d] = plan]
        /\ asking' = [asking EXCEPT ![d] = Mission!Triggered(d)]
        /\ UNCHANGED <<firstPlan, page, evidence>>
    BY <1>5 DEF Mission!Freeze
  <2> HIDE DEF plan
  <2>3. plans' \in [Devices -> Plans \cup {None}] /\ page' \in [Devices -> Nat \cup {None}]
    BY <1>1, <2>1, <2>2 DEF MissionTypes
  <2>4. QED
    BY <1>1, <1>3, <2>2, <2>3, NextSync
<1>6. ASSUME NEW d \in Devices, Mission!Reads(d) PROVE MissionSafe'
  <2>0. plans[d] \in Plans \cup {None} /\ asking[d] \in MissionSyncs
    BY <1>1 DEF MissionTypes
  <2> DEFINE put == [asking[d] EXCEPT !.phase = "puts", !.plan = plans[d]]
  <2>1. put \in MissionSyncs /\ put.phase = "puts" /\ put.plan = plans[d]
    BY <2>0 DEF MissionSyncs
  <2>2. /\ plans' \in [Devices -> Plans \cup {None}] /\ page' \in [Devices -> Nat \cup {None}]
        /\ UNCHANGED <<firstPlan, evidence>>
    BY <1>1, <1>6 DEF Mission!Reads, MissionTypes
  <2>3. \/ asking' = [asking EXCEPT ![d] = Mission!Ended(d)]
        \/ plans[d] # None /\ asking' = [asking EXCEPT ![d] = put]
    BY <1>6 DEF Mission!Reads
  <2> HIDE DEF put
  <2>4. QED
    BY <1>1, <1>3, <2>1, <2>2, <2>3, NextSync
<1>7. ASSUME NEW d \in Devices, Mission!Hears(d) \/ Mission!Lost(d) PROVE MissionSafe'
  <2>1. /\ plans' \in [Devices -> Plans \cup {None}] /\ page' \in [Devices -> Nat \cup {None}]
        /\ UNCHANGED <<firstPlan, evidence>> /\ asking' = [asking EXCEPT ![d] = Mission!Ended(d)]
    BY <1>1, <1>7 DEF Mission!Hears, Mission!Lost, MissionTypes, MissionSyncs
  <2>2. QED
    BY <1>1, <1>3, <2>1, NextSync
<1>8. ASSUME NEW d \in Devices, Mission!Saves(d) PROVE MissionSafe'
  <2>1. asking[d] \in MissionSyncs /\ asking[d].plan \in Plans /\ firstPlan \in Plans \cup {None}
    BY <1>1, <1>8 DEF Mission!Saves, MissionTypes, MissionSyncs, SavedIsCloud
  <2>2. firstPlan' \in Plans /\ firstPlan' # None /\ (firstPlan # None => firstPlan' = firstPlan)
    BY <1>1, <1>8, <2>1 DEF Mission!Saves, Mission!Saved, SavedIsCloud
  <2> DEFINE next == [asking[d] EXCEPT !.phase = "saved", !.plan = firstPlan']
  <2>3. next \in MissionSyncs /\ next.phase = "saved" /\ next.plan = firstPlan'
    BY <2>1, <2>2 DEF MissionSyncs
  <2>4. asking' = [asking EXCEPT ![d] = next] /\ UNCHANGED <<plans, page, evidence>>
    BY <1>1, <1>8 DEF Mission!Saves, MissionTypes
  <2> HIDE DEF next
  <2>5. MissionTypes'
    BY <1>1, <2>2, <2>3, <2>4 DEF MissionTypes
  <2>6. SavedIsCloud'
    BY <1>1, <2>2, <2>3, <2>4 DEF SavedIsCloud, MissionTypes
  <2>7. QED
    BY <2>5, <2>6 DEF MissionSafe
<1>9. QED
  BY <1>2, <1>4, <1>5, <1>6, <1>7, <1>8 DEF Mission!Next

\* Every reachable state of the mission's plan satisfies the inductive invariant.
THEOREM MissionIsSafe == Mission!Spec => []MissionSafe
  BY MissionInit, MissionStep, PTL DEF Mission!Spec

\* The first plan that the cloud took is never replaced.
THEOREM TheFirstPlanStays == Mission!Spec => [][Mission!PlanStays]_(Mission!vars)
<1>1. [Mission!Next]_(Mission!vars) => [Mission!PlanStays]_(Mission!vars)
  BY DEF Mission!Next, Mission!Learn, Mission!Load, Mission!Close, Mission!Freeze, Mission!Reads,
      Mission!Saves, Mission!Saved, Mission!Hears, Mission!Lost, Mission!PlanStays, Mission!vars
<1>2. QED
  BY <1>1, PTL DEF Mission!Spec

\* The cloud never loses an attempt or an exposure that it took, nor the first
\* plan, whatever two devices write over them.
THEOREM CloudKeepsWhatItTook ==
  ASSUME Training!TrainingAssumption
  PROVE  Training!Spec /\ Mission!Spec => CloudKeeps
<1>1. TrainingSafe /\ [Training!Next]_(Training!vars) => [Training!Grows]_(Training!vars)
  BY TrainingStep
<1>2. [Training!Grows]_(Training!vars) => Training!Grows
  BY DEF Training!Grows, Training!vars
<1>3. [Mission!PlanStays]_(Mission!vars) => Mission!PlanStays
  BY DEF Mission!PlanStays, Mission!vars
<1>4. QED
  BY <1>1, <1>2, <1>3, TrainingIsSafe, TheFirstPlanStays, PTL DEF Training!Spec, CloudKeeps

------------------------------------------------------------------------------
(***************************************************************************)
(* The coach's panel, for any number of questions, drafts, requests and    *)
(* sessions: its words are shown beside the draft they are about.          *)
(*                                                                         *)
(* Answers come in any order, so the invariant is about the requests in    *)
(* flight: one that would still be taken is about what its card shows      *)
(* (RequestMatches).  Whatever changes a draft takes the token of its      *)
(* evaluation away, and begins another session of chats and deep dives.    *)
(***************************************************************************)

Rescues == {"none", "retrying", "rescue", "passed", "needs_repair"}
PanelCards ==
  [draft : Drafts, feedback : Drafts \cup {None}, rescue : Rescues, reveal : BOOLEAN,
   chat : SUBSET (Drafts \cup {None}), deep : Drafts \cup {None}]
PanelRequests ==
  [kind : {"coach", "chat", "deep"}, q : Questions, id : Nat \ {0}, gen : Nat,
   about : Drafts \cup {None}, rescue : Rescues]

PanelTypes ==
  /\ card \in [Questions -> PanelCards] /\ saved \in [Questions -> PanelCards]
  /\ current \in Questions /\ token \in [Questions -> Nat] /\ gen \in Nat
  /\ loading \in Questions \cup {None} /\ sent \subseteq PanelRequests /\ count \in Nat
  /\ rating \in [q : Questions, gen : Nat] \cup {None}

\* A card whose words are about its draft.
Matches(c) ==
  /\ c.feedback # None => c.feedback = c.draft
  /\ \A m \in c.chat \cup {c.deep} : m # None => m = c.feedback

CardsMatch == \A q \in Questions : Matches(card[q]) /\ Matches(saved[q])

\* An answer that would still be taken is about what the card shows.
RequestMatches(r) ==
  /\ r.id <= count /\ r.gen <= gen
  /\ r.kind = "coach" /\ token[r.q] = r.id => r.about = card[r.q].draft
  /\ r.kind # "coach" /\ r.gen = gen => r.about # None /\ r.about = card[r.q].feedback

\* Of a card, and of the evaluation it waits for, nothing is lost or replaced.
Stays(q) ==
  /\ card'[q].draft = card[q].draft /\ card'[q].feedback = card[q].feedback
  /\ card'[q].chat = card[q].chat /\ card'[q].deep = card[q].deep
  /\ token'[q] \in {token[q], 0}

\* A session later, a card has no words of the coach and waits for none.
StartsOver(q) ==
  /\ card'[q].feedback = None /\ card'[q].chat = {} /\ card'[q].deep = None
  /\ token'[q] = 0 /\ gen' = gen + 1

PanelSafe == PanelTypes /\ CardsMatch /\ \A r \in sent : RequestMatches(r)

\* No card is open and nothing was sent.
LEMMA PanelInit == ASSUME Panel!PanelAssumption, Panel!Init PROVE PanelSafe
<1>1. Panel!Fresh \in PanelCards /\ Matches(Panel!Fresh)
  BY DEF Panel!PanelAssumption, Panel!Fresh, PanelCards, Rescues, Matches
<1>2. PanelTypes /\ CardsMatch /\ sent = {}
  BY <1>1 DEF Panel!Init, PanelTypes, CardsMatch
<1>3. QED
  BY <1>2 DEF PanelSafe

\* Cards stay as they are or are emptied.
LEMMA CardsStayOrStart ==
  ASSUME PanelSafe, PanelTypes', sent' \subseteq sent, count' = count, saved' \in {saved, card},
         gen' \in {gen, gen + 1},
         \A q \in Questions : Stays(q) \/ StartsOver(q)
  PROVE  PanelSafe'
<1>1. PanelTypes /\ CardsMatch /\ gen \in Nat /\ \A r \in sent : RequestMatches(r)
          /\ r \in PanelRequests
  BY DEF PanelSafe, PanelTypes
<1>2. ASSUME NEW q \in Questions PROVE Matches(card[q])' /\ Matches(saved[q])'
  <2>1. Matches(card[q])'
    BY <1>1 DEF CardsMatch, Matches, Stays, StartsOver
  <2>2. Matches(saved[q])'
    BY <1>1 DEF CardsMatch, Matches
  <2>3. QED
    BY <2>1, <2>2
<1>3. ASSUME NEW r \in sent' PROVE RequestMatches(r)'
  <2>1. r.q \in Questions /\ r.id \in Nat \ {0} /\ r.gen \in Nat /\ RequestMatches(r)
    BY <1>1 DEF PanelRequests
  <2>2. CASE Stays(r.q) /\ gen' = gen
    BY <2>1, <2>2 DEF RequestMatches, Stays
  <2>3. CASE gen' = gen + 1
    <3>1. r.gen <= gen' /\ r.gen # gen'
      BY <1>1, <2>1, <2>3 DEF RequestMatches
    <3>2. QED
      BY <2>1, <3>1 DEF RequestMatches, Stays, StartsOver
  <2>4. CASE StartsOver(r.q)
    BY <2>3, <2>4 DEF StartsOver
  <2>5. QED
    BY <2>1, <2>2, <2>3, <2>4
<1>4. QED
  BY <1>2, <1>3 DEF PanelSafe, CardsMatch

------------------------------------------------------------------------------

\* The answer is edited, or tried again.
LEMMA EditKeeps ==
  ASSUME Panel!PanelAssumption, PanelSafe, (\E d \in Drafts : Panel!Edit(d)) \/ Panel!Retry
  PROVE  PanelSafe'
<1>1. PanelTypes /\ card[current] \in PanelCards /\ current \in Questions /\ gen \in Nat
  BY DEF PanelSafe, PanelTypes
<1>0. ASSUME NEW c \in PanelCards
      PROVE  /\ Panel!Unevaluated(c) \in PanelCards /\ Panel!Unevaluated(c).feedback = None
             /\ Panel!Unevaluated(c).chat = {} /\ Panel!Unevaluated(c).deep = None
  BY DEF Panel!Unevaluated, PanelCards
<1>2. PICK next \in PanelCards :
        /\ card' = [card EXCEPT ![current] = next]
        /\ next.feedback = None /\ next.chat = {} /\ next.deep = None
  <2>1. CASE \E d \in Drafts : Panel!Edit(d)
    <3>1. PICK d \in Drafts : Panel!Edit(d)
      BY <2>1
    <3> DEFINE edited == [card[current] EXCEPT !.draft = d,
                   !.rescue = Panel!Begin(card[current].rescue)]
    <3>2. card' = [card EXCEPT ![current] = Panel!Unevaluated(edited)]
      BY <3>1 DEF Panel!Edit
    <3>3. edited \in PanelCards
      BY <1>1 DEF PanelCards, Rescues, Panel!Begin
    <3> HIDE DEF edited
    <3>4. QED
      BY <1>0, <3>2, <3>3
  <2>2. CASE Panel!Retry
    <3> DEFINE edited == [card[current] EXCEPT !.draft = Blank, !.rescue = "retrying"]
    <3>1. card' = [card EXCEPT ![current] = Panel!Unevaluated(edited)]
      BY <2>2 DEF Panel!Retry
    <3>2. edited \in PanelCards
      BY <1>1 DEF Panel!PanelAssumption, PanelCards, Rescues
    <3> HIDE DEF edited
    <3>3. QED
      BY <1>0, <3>1, <3>2
  <2>3. QED
    BY <2>1, <2>2
<1>3. /\ gen' = gen + 1 /\ token' = [token EXCEPT ![current] = 0] /\ loading' \in {None, loading}
      /\ UNCHANGED <<saved, current, sent, count, rating>>
  BY DEF Panel!Edit, Panel!Retry, Panel!Without
<1>4. PanelTypes'
  BY <1>1, <1>2, <1>3 DEF PanelTypes
<1>5. \A q \in Questions : Stays(q) \/ StartsOver(q)
  BY <1>1, <1>2, <1>3 DEF PanelTypes, Stays, StartsOver
<1>6. QED
  BY <1>3, <1>4, <1>5, CardsStayOrStart

\* What clears a session leaves no card with words of the coach.
LEMMA ClearedCards ==
  ASSUME Panel!PanelAssumption, PanelTypes
  PROVE  /\ Panel!Cleared \in [Questions -> PanelCards]
         /\ \A q \in Questions :
              Panel!Cleared[q].feedback = None /\ Panel!Cleared[q].chat = {}
                  /\ Panel!Cleared[q].deep = None
<1>1. Panel!Fresh \in PanelCards /\ Panel!Fresh.feedback = None /\ Panel!Fresh.chat = {}
          /\ Panel!Fresh.deep = None
  BY DEF Panel!PanelAssumption, Panel!Fresh, PanelCards, Rescues
<1>2. \A q \in Questions : card[q].reveal \in BOOLEAN
  BY DEF PanelTypes, PanelCards
<1>3. QED
  BY <1>1, <1>2 DEF Panel!Cleared, PanelCards

\* The card is left, or rated: what it shows goes.
LEMMA ClearsKeeps ==
  ASSUME Panel!PanelAssumption, PanelSafe, Panel!Leave \/ Panel!Rated
  PROVE  PanelSafe'
<1>1. PanelTypes /\ gen \in Nat
  BY DEF PanelSafe, PanelTypes
<1>2. CASE \E cleared \in [Questions -> PanelCards] :
             /\ \A q \in Questions : cleared[q].feedback = None /\ cleared[q].chat = {}
                  /\ cleared[q].deep = None
             /\ Panel!Clears(cleared)
  <2>1. gen' = gen + 1 /\ loading' = None /\ token' = [q \in Questions |-> 0]
    BY <1>2 DEF Panel!Clears
  <2>2. rating' \in {rating, None} /\ current' \in Questions /\ UNCHANGED <<saved, sent, count>>
    BY DEF Panel!Leave, Panel!Rated
  <2>3. PanelTypes'
    BY <1>1, <1>2, <2>1, <2>2 DEF PanelTypes, Panel!Clears
  <2>4. \A q \in Questions : StartsOver(q)
    BY <1>2, <2>1 DEF Panel!Clears, StartsOver
  <2>5. QED
    BY <2>1, <2>2, <2>3, <2>4, CardsStayOrStart
<1>3. CASE Panel!Leave
  BY <1>1, <1>2, <1>3, ClearedCards DEF Panel!Leave
<1>4. CASE Panel!Rated /\ UNCHANGED <<card, token, gen, loading>>
  <2>1. PanelTypes' /\ UNCHANGED <<saved, sent, count>>
    BY <1>1, <1>4 DEF Panel!Rated, PanelTypes
  <2>2. \A q \in Questions : Stays(q)
    BY <1>4 DEF Stays
  <2>3. QED
    BY <1>4, <2>1, <2>2, CardsStayOrStart
<1>5. CASE Panel!Rated /\ ~ UNCHANGED <<card, token, gen, loading>>
  <2> DEFINE cleared == [Panel!Cleared EXCEPT ![rating.q].reveal = FALSE]
  <2>1. Panel!Clears(cleared)
    BY <1>5 DEF Panel!Rated
  <2>2. /\ cleared \in [Questions -> PanelCards]
        /\ \A q \in Questions : cleared[q].feedback = None /\ cleared[q].chat = {}
             /\ cleared[q].deep = None
    <3> DEFINE hidden == [Panel!Cleared[rating.q] EXCEPT !.reveal = FALSE]
    <3>1. cleared = [Panel!Cleared EXCEPT ![rating.q] = hidden]
      OBVIOUS
    <3>2. rating.q \in Questions => /\ hidden \in PanelCards /\ hidden.feedback = None
                                   /\ hidden.chat = {} /\ hidden.deep = None
      BY <1>1, ClearedCards DEF PanelCards
    <3> HIDE DEF cleared, hidden
    <3>3. QED
      BY <1>1, <3>1, <3>2, ClearedCards
  <2> HIDE DEF cleared
  <2>3. QED
    BY <1>2, <2>1, <2>2
<1>6. QED
  BY <1>3, <1>4, <1>5

\* The answer is revealed, the queue shows another question, a rating waits, cards are saved.
LEMMA RevealKeeps ==
  ASSUME PanelSafe, Panel!Reveal \/ Panel!Drift \/ Panel!Rate \/ Panel!Save
  PROVE  PanelSafe'
<1>1. PanelTypes
  BY DEF PanelSafe
<1>2. /\ card' \in [Questions -> PanelCards]
      /\ \A q \in Questions :
           /\ card'[q].draft = card[q].draft /\ card'[q].feedback = card[q].feedback
           /\ card'[q].chat = card[q].chat /\ card'[q].deep = card[q].deep
  <2> DEFINE revealed == [card[current] EXCEPT !.reveal = TRUE]
  <2>1. card' = card \/ card' = [card EXCEPT ![current] = revealed]
    BY DEF Panel!Reveal, Panel!Drift, Panel!Rate, Panel!Save
  <2>2. card[current] \in PanelCards /\ current \in Questions /\ card \in [Questions -> PanelCards]
    BY <1>1 DEF PanelTypes
  <2>3. /\ revealed \in PanelCards /\ revealed.draft = card[current].draft
        /\ revealed.feedback = card[current].feedback
        /\ revealed.chat = card[current].chat /\ revealed.deep = card[current].deep
    BY <2>2 DEF PanelCards
  <2> HIDE DEF revealed
  <2>4. QED
    BY <2>1, <2>2, <2>3
<1>3. /\ saved' \in {saved, card} /\ current' \in Questions
      /\ rating' \in {rating, [q |-> current, gen |-> gen]} /\ UNCHANGED <<token, gen, loading,
           sent, count>>
  BY <1>1 DEF PanelTypes, Panel!Reveal, Panel!Drift, Panel!Rate, Panel!Save
<1>4. PanelTypes'
  BY <1>1, <1>2, <1>3 DEF PanelTypes
<1>5. \A q \in Questions : Stays(q)
  BY <1>2, <1>3 DEF Stays
<1>6. QED
  BY <1>3, <1>4, <1>5, CardsStayOrStart

\* The page is loaded again.
LEMMA ReloadKeeps == ASSUME PanelSafe, Panel!Reload PROVE PanelSafe'
<1>1. PanelTypes /\ CardsMatch
  BY DEF PanelSafe
<1>2. ASSUME NEW c \in PanelCards, Matches(c) PROVE Panel!Restored(c) \in PanelCards
                 /\ Matches(Panel!Restored(c))
  <2> DEFINE rescue == IF c.rescue = "none" THEN IF c.feedback = Blank THEN "rescue" ELSE "none"
                       ELSE IF c.feedback = None THEN "retrying" ELSE c.rescue
  <2>1. rescue \in Rescues /\ Panel!Restored(c) = [c EXCEPT !.rescue = rescue]
    BY DEF PanelCards, Rescues, Panel!Restored
  <2> HIDE DEF rescue
  <2>2. QED
    BY <1>2, <2>1 DEF PanelCards, Matches
<1>3. \A q \in Questions : saved[q] \in PanelCards /\ Matches(saved[q])
  BY <1>1 DEF PanelTypes, CardsMatch
<1>4. /\ card' = [q \in Questions |-> Panel!Restored(saved[q])] /\ token' = [q \in Questions |-> 0]
      /\ gen' = gen + 1 /\ loading' = None /\ sent' = {} /\ rating' = None /\ current' \in Questions
      /\ UNCHANGED <<saved, count>>
  BY DEF Panel!Reload
<1>5. PanelTypes'
  BY <1>1, <1>2, <1>3, <1>4 DEF PanelTypes
<1>6. CardsMatch'
  <2>1. \A q \in Questions : card'[q] = Panel!Restored(saved[q]) /\ saved'[q] = saved[q]
    BY <1>4
  <2>2. \A q \in Questions : Matches(card'[q]) /\ Matches(saved'[q])
    BY <1>2, <1>3, <2>1
  <2>3. QED
    BY <2>2 DEF CardsMatch, Matches
<1>7. QED
  BY <1>4, <1>5, <1>6 DEF PanelSafe

------------------------------------------------------------------------------

\* A request is about what its card shows when it is sent.
LEMMA PanelAsks ==
  ASSUME PanelSafe, Panel!AskCoach \/ Panel!AskFollowUp \/ Panel!AskDeepDive
  PROVE  PanelSafe'
<1>1. /\ PanelTypes /\ CardsMatch /\ count \in Nat /\ gen \in Nat /\ current \in Questions
      /\ card[current] \in PanelCards /\ \A r \in sent : RequestMatches(r) /\ r \in PanelRequests
  BY DEF PanelSafe, PanelTypes
<1>2. PICK kind \in {"coach", "chat", "deep"} :
        /\ Panel!Send(kind)
        /\ \/ kind = "coach" /\ token' = [token EXCEPT ![current] = count + 1]
           \/ kind # "coach" /\ token' = token /\ card[current].feedback # None
        /\ loading' \in {loading, current}
  <2>1. CASE Panel!AskCoach
    BY <2>1 DEF Panel!AskCoach
  <2>2. CASE Panel!AskFollowUp
    BY <2>2 DEF Panel!AskFollowUp
  <2>3. CASE Panel!AskDeepDive
    BY <2>3 DEF Panel!AskDeepDive
  <2>4. QED
    BY <2>1, <2>2, <2>3
<1>3. PICK new \in PanelRequests :
        /\ sent' = sent \cup {new}
        /\ new.id = count + 1 /\ new.gen = gen /\ new.kind = kind /\ new.q = current
        /\ kind = "coach" => new.about = card[current].draft
        /\ kind # "coach" => new.about = card[current].feedback
  <2> DEFINE asked == Panel!Request(kind)
  <2>1. /\ asked \in PanelRequests /\ asked.id = count + 1 /\ asked.gen = gen /\ asked.kind = kind
        /\ asked.q = current
    BY <1>1, <1>2 DEF Panel!Request, PanelRequests, PanelCards
  <2>2. kind # "coach" => asked.about = card[current].feedback
    BY DEF Panel!Request
  <2>3. kind = "coach" => asked.about = card[current].draft
    BY DEF Panel!Request
  <2>4. sent' = sent \cup {asked}
    BY <1>2 DEF Panel!Send
  <2> HIDE DEF asked
  <2>5. QED
    BY <2>1, <2>2, <2>3, <2>4
<1>4. count' = count + 1 /\ UNCHANGED <<card, saved, current, gen, rating>>
  BY <1>2 DEF Panel!Send
<1>5. PanelTypes'
  BY <1>1, <1>2, <1>3, <1>4 DEF PanelTypes
<1>6. RequestMatches(new)'
  <2>1. new.id <= count' /\ new.gen <= gen'
    BY <1>1, <1>3, <1>4
  <2>2. kind # "coach" => new.about # None
    BY <1>2, <1>3
  <2>3. new.kind = "coach" => new.about = card'[new.q].draft
    BY <1>3, <1>4
  <2>4. new.kind # "coach" => new.about # None /\ new.about = card'[new.q].feedback
    BY <1>3, <1>4, <2>2
  <2>5. QED
    BY <2>1, <2>3, <2>4 DEF RequestMatches
<1>7. ASSUME NEW r \in sent PROVE RequestMatches(r)'
  <2>1. r.id \in Nat /\ r.id <= count /\ r.q \in Questions /\ token[r.q] \in Nat
    BY <1>1 DEF PanelRequests, RequestMatches, PanelTypes
  <2>2. token'[r.q] = r.id => token[r.q] = r.id
    BY <1>1, <1>2, <2>1 DEF PanelTypes
  <2>3. r.id <= count'
    BY <1>1, <1>4, <2>1
  <2>4. QED
    BY <1>1, <1>4, <2>2, <2>3 DEF RequestMatches
<1>8. CardsMatch'
  BY <1>1, <1>4 DEF CardsMatch, Matches
<1>9. QED
  <2>1. \A r \in sent' : RequestMatches(r)'
    BY <1>3, <1>6, <1>7
  <2>2. QED
    BY <1>5, <1>8, <2>1 DEF PanelSafe

\* An answer that is taken replaces no words about the draft by others.
LEMMA ReceiveKeeps ==
  ASSUME PanelSafe, NEW r \in sent, Panel!Receive(r)
  PROVE  PanelSafe'
<1>1. /\ PanelTypes /\ CardsMatch /\ r \in PanelRequests /\ r.q \in Questions
      /\ card[r.q] \in PanelCards
      /\ \A u \in sent : RequestMatches(u) /\ u \in PanelRequests
  BY DEF PanelSafe, PanelTypes, PanelRequests
<1>2. /\ sent' \subseteq sent /\ token' \in {token, [token EXCEPT ![r.q] = 0]}
      /\ loading' \in {None, loading}
      /\ UNCHANGED <<saved, current, gen, count, rating>>
  BY DEF Panel!Receive, Panel!Without
<1>3. CASE card' = card
  <2>1. PanelTypes'
    BY <1>1, <1>2, <1>3 DEF PanelTypes
  <2>2. \A q \in Questions : Stays(q)
    BY <1>1, <1>2, <1>3 DEF PanelTypes, Stays
  <2>3. QED
    BY <1>2, <2>1, <2>2, CardsStayOrStart
<1>4. CASE Panel!Current(r) /\ \E passes \in BOOLEAN : card' = Panel!Shown(r, passes)
  <2>1. PICK passes \in BOOLEAN : card' = Panel!Shown(r, passes)
    BY <1>4
  <2>2. r.kind = "coach" => r.about = card[r.q].draft
    BY <1>1, <1>4 DEF Panel!Current, RequestMatches
  <2>3. r.kind # "coach" => r.about # None /\ r.about = card[r.q].feedback
    BY <1>1, <1>4 DEF Panel!Current, RequestMatches
  <2>4. PICK next \in PanelCards :
          /\ card' = [card EXCEPT ![r.q] = next] /\ Matches(next) /\ next.draft = card[r.q].draft
          /\ next.feedback = card[r.q].feedback \/ next.feedback = card[r.q].draft
    <3>1. CASE r.kind = "coach"
      <4> DEFINE rescue == Panel!AfterCoach(r.rescue, r.about, passes)
                 next == [card[r.q] EXCEPT !.feedback = r.about, !.rescue = rescue, !.chat = {},
                     !.deep = None]
      <4>1. rescue \in Rescues
        BY DEF Panel!AfterCoach, Rescues
      <4>2. card' = [card EXCEPT ![r.q] = next]
        BY <1>1, <2>1, <3>1 DEF Panel!Shown, PanelTypes, PanelCards
      <4> HIDE DEF rescue
      <4>3. /\ next \in PanelCards /\ next.draft = card[r.q].draft
            /\ next.feedback = card[r.q].draft
            /\ next.chat = {} /\ next.deep = None
        BY <1>1, <2>2, <3>1, <4>1 DEF PanelCards
      <4> HIDE DEF next
      <4>4. Matches(next)
        BY <4>3 DEF Matches
      <4>5. QED
        BY <4>2, <4>3, <4>4
    <3>2. CASE r.kind = "chat"
      <4> DEFINE next == [card[r.q] EXCEPT !.chat = card[r.q].chat \cup {r.about}]
      <4>1. card' = [card EXCEPT ![r.q] = next]
        BY <1>1, <2>1, <3>2 DEF Panel!Shown, PanelTypes, PanelCards
      <4>2. /\ next \in PanelCards /\ next.draft = card[r.q].draft
            /\ next.feedback = card[r.q].feedback
            /\ next.chat = card[r.q].chat \cup {r.about} /\ next.deep = card[r.q].deep
        BY <1>1 DEF PanelCards, PanelRequests
      <4> HIDE DEF next
      <4>3. Matches(next)
        BY <1>1, <2>3, <3>2, <4>2 DEF CardsMatch, Matches
      <4>4. QED
        BY <4>1, <4>2, <4>3
    <3>3. CASE r.kind = "deep"
      <4> DEFINE next == [card[r.q] EXCEPT !.deep = r.about]
      <4>1. card' = [card EXCEPT ![r.q] = next]
        BY <1>1, <2>1, <3>3 DEF Panel!Shown, PanelTypes, PanelCards
      <4>2. /\ next \in PanelCards /\ next.draft = card[r.q].draft
            /\ next.feedback = card[r.q].feedback
            /\ next.chat = card[r.q].chat /\ next.deep = r.about
        BY <1>1 DEF PanelCards, PanelRequests
      <4> HIDE DEF next
      <4>3. Matches(next)
        BY <1>1, <2>3, <3>3, <4>2 DEF CardsMatch, Matches
      <4>4. QED
        BY <4>1, <4>2, <4>3
    <3>4. QED
      BY <1>1, <3>1, <3>2, <3>3 DEF PanelRequests
  <2>5. /\ card'[r.q] = next /\ card' \in [Questions -> PanelCards]
        /\ \A q \in Questions : q # r.q => card'[q] = card[q]
    BY <1>1, <2>4 DEF PanelTypes
  <2>6. PanelTypes'
    BY <1>1, <1>2, <2>5 DEF PanelTypes
  <2>7. CardsMatch'
    <3>1. \A q \in Questions : Matches(card'[q]) /\ Matches(saved'[q])
      BY <1>1, <1>2, <2>4, <2>5 DEF CardsMatch
    <3>2. QED
      BY <3>1 DEF CardsMatch, Matches
  <2>8. ASSUME NEW u \in sent' PROVE RequestMatches(u)'
    <3>1. RequestMatches(u) /\ u.q \in Questions /\ u.id \in Nat \ {0}
      BY <1>1, <1>2 DEF PanelRequests
    <3>2. card'[u.q].draft = card[u.q].draft
      BY <2>4, <2>5, <3>1
    <3>3. u.about # None /\ u.about = card[u.q].feedback => u.about = card'[u.q].feedback
      BY <1>1, <2>4, <2>5, <3>1 DEF CardsMatch, Matches
    <3>4. token'[u.q] = u.id => token[u.q] = u.id
      BY <1>1, <1>2, <3>1 DEF PanelTypes
    <3>5. QED
      BY <1>2, <3>1, <3>2, <3>3, <3>4 DEF RequestMatches
  <2>9. QED
    BY <2>6, <2>7, <2>8 DEF PanelSafe
<1>5. QED
  BY <1>3, <1>4 DEF Panel!Receive

------------------------------------------------------------------------------

\* Every reachable state of the panel satisfies the inductive invariant.
THEOREM PanelIsSafe == ASSUME Panel!PanelAssumption PROVE Panel!Spec => []PanelSafe
<1>1. Panel!Init => PanelSafe
  BY PanelInit
<1>2. PanelSafe /\ [Panel!Next]_(Panel!vars) => PanelSafe'
  <2> SUFFICES ASSUME PanelSafe, [Panel!Next]_(Panel!vars) PROVE PanelSafe'
    OBVIOUS
  <2>1. CASE Panel!Next
    BY <2>1, EditKeeps, ClearsKeeps, RevealKeeps, ReloadKeeps, PanelAsks, ReceiveKeeps
        DEF Panel!Next
  <2>2. CASE UNCHANGED Panel!vars
    BY <2>2 DEF Panel!vars, PanelSafe, PanelTypes, CardsMatch, Matches, RequestMatches
  <2>3. QED
    BY <2>1, <2>2
<1>3. QED
  BY <1>1, <1>2, PTL DEF Panel!Spec

\* What the coach said is shown beside the draft it is about, in whichever order
\* its answers come.
THEOREM WordsAreOfTheirDraft == ASSUME Panel!PanelAssumption PROVE Panel!Spec
    => []ShownIsOfDraft
<1>1. PanelSafe => ShownIsOfDraft
  BY DEF PanelSafe, PanelTypes, CardsMatch, Matches, ShownIsOfDraft, Panel!ShownIsOfDraft
<1>2. QED
  BY <1>1, PanelIsSafe, PTL
==============================================================================
