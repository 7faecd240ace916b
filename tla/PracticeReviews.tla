--------------------------- MODULE PracticeReviews ---------------------------
(***************************************************************************)
(* The daily reviews of one question of one account: the database rows and *)
(* the schedule they drive, the browser copies in local storage, and the   *)
(* synchronisation between them (record_practice_review,                   *)
(* manage_question_schedule, POST /api/progress/sync, practice-app.tsx and *)
(* lib/practice).  A tab keeps what its page knew of the cloud when it was *)
(* loaded, and what it learnt when it last synchronised; tabs of one       *)
(* device share one store.                                                 *)
(*                                                                         *)
(* A history generation is a number, 0 for a question that has none; the   *)
(* FSRS interval of a review is left out.                                  *)
(***************************************************************************)
EXTENDS Naturals, FiniteSets

CONSTANTS
  Tabs, Devices,
  Home,        \* the placements of tabs on devices to start from
  Calls,       \* requests under way at a time
  None,        \* no coach attempt on a review, no tab waiting for a request
  Answers,     \* tab -> ratings the learner may give in it
  MaxChanges,  \* bound: days that pass, edits of the question and generations
  MaxSent      \* bound: pages loaded and requests sent

ASSUME PracticeAssumption == Home \subseteq [Tabs -> Devices]

VARIABLES
  rows,      \* practice_reviews of the question
  state,     \* its user_question_states row
  version,   \* version of the question in the content manifest
  today,
  home,      \* tab -> device
  store,     \* device -> reviews in its local storage
  page,      \* tab -> what the open page remembers
  call,      \* requests to POST /api/progress/sync
  sent,      \* how many there were, and pages loaded
  answers    \* ghost: the answers learners gave, by device

vars == <<rows, state, version, today, home, store, page, call, sent, answers>>
server == <<rows, state, version, today, home>>
browsers == <<home, store, page, call, sent, answers>>

------------------------------------------------------------------------------
(* Sets of reviews, at most one a day.  A review that carries its coach     *)
(* attempt names the tab that made it.                                     *)

DaysOf(S) == {r.day : r \in S}

\* mergeProgress: the second set wins a day that both have.
MergeProgress(S, T) == T \cup {r \in S : r.day \notin DaysOf(T)}

\* The reviews of the generation that the known state names.
OfHistory(S, known) == {r \in S : known.exists => r.gen = known.gen}

Row(r) == [r EXCEPT !.attempt = None]
SameIdentity(r, s) == r.day = s.day /\ r.ver = s.ver /\ r.gen = s.gen

NoState == [exists |-> FALSE, gen |-> 0, last |-> 0, rating |-> "none"]
Nothing == [rows |-> {}, known |-> NoState]
Closed == [open |-> FALSE, ver |-> 1, first |-> Nothing, cloud |-> Nothing]
Quiet == [phase |-> "none", tab |-> None, todo |-> {}, marked |-> {}, resolved |-> {},
          discarded |-> {}, payload |-> Nothing]

Init ==
  /\ rows = {} /\ state = NoState /\ version = 1 /\ today = 1
  /\ home \in Home
  /\ store = [d \in Devices |-> {}]
  /\ page = [t \in Tabs |-> Closed]
  /\ call = [c \in Calls |-> Quiet] /\ sent = 0
  /\ answers = {}

------------------------------------------------------------------------------
(* The RPCs.                                                               *)

\* Mutant: reviews of an older generation are accepted.
OutcomeAnyGeneration(r) ==
  IF \E x \in rows : SameIdentity(x, r) /\ x.rating # r.rating THEN "rated_otherwise"
  ELSE IF state.last # 0 /\ r.day < state.last THEN "history_recorded"
  ELSE "recorded"

\* Mutant: whatever arrives last sets the schedule.
OutcomeAnyDay(r) ==
  IF state.gen # r.gen THEN "reset_discarded"
  ELSE IF \E x \in rows : SameIdentity(x, r) /\ x.rating # r.rating THEN "rated_otherwise"
  ELSE "recorded"

\* Mutant: a second rating of the day replaces the first.
OutcomeRatedAgain(r) ==
  IF state.gen # r.gen THEN "reset_discarded"
  ELSE IF state.last # 0 /\ r.day < state.last THEN "history_recorded"
  ELSE "recorded"

\* What record_practice_review answers.
Outcome(r) ==
  IF state.gen # r.gen THEN "reset_discarded"
  ELSE IF \E x \in rows : SameIdentity(x, r) /\ x.rating # r.rating THEN "rated_otherwise"
  ELSE IF state.last # 0 /\ r.day < state.last THEN "history_recorded"
  ELSE IF \E x \in rows : SameIdentity(x, r) THEN "already_recorded"
  ELSE "recorded"

\* Its effect on the rows and on the schedule.
RecordPracticeReview(r) ==
  /\ rows' = IF Outcome(r) \in {"reset_discarded", "rated_otherwise"}
             THEN rows ELSE MergeProgress(rows, {Row(r)})
  /\ state' = IF Outcome(r) \in {"recorded", "already_recorded"}
              THEN [exists |-> TRUE, gen |-> r.gen, last |-> r.day,
                    rating |-> r.rating]
              ELSE state

MayChange == today + version + state.gen < MaxChanges + 2

\* manage_question_schedule: a reset deletes the history and opens the next
\* generation.
Reset ==
  /\ MayChange
  /\ rows' = {}
  /\ state' = [NoState EXCEPT !.exists = TRUE, !.gen = state.gen + 1]
  /\ UNCHANGED <<version, today, browsers>>

\* Any other action on a question without a state first creates one, with a
\* generation of its own.
ManageFirst ==
  /\ ~ state.exists /\ MayChange
  /\ state' = [NoState EXCEPT !.exists = TRUE, !.gen = state.gen + 1]
  /\ UNCHANGED <<rows, version, today, browsers>>

Edit ==
  /\ MayChange /\ version' = version + 1
  /\ UNCHANGED <<rows, state, today, browsers>>

NextDay ==
  /\ MayChange /\ today' = today + 1
  /\ UNCHANGED <<rows, state, version, browsers>>

------------------------------------------------------------------------------
(* The sync handler: records, captures, then reads.                         *)

Set(c, r) == call' = [call EXCEPT ![c] = r]

\* Reviews of another version of the question refuse the whole request.
Admit(c) ==
  /\ call[c].phase = "sent"
  /\ Set(c, IF \A r \in call[c].todo : r.ver = version
            THEN [call[c] EXCEPT !.phase = "working"] ELSE Quiet)
  /\ UNCHANGED <<server, store, page, sent, answers>>

\* The reviews are recorded in the order of their days.
Record(c) ==
  \E r \in call[c].todo :
    /\ call[c].phase = "working"
    /\ \A s \in call[c].todo : r.day <= s.day
    /\ RecordPracticeReview(r)
    /\ LET authoritative == Outcome(r) \in {"recorded", "already_recorded"}
       IN Set(c, [call[c] EXCEPT
            !.todo = @ \ {r},
            !.discarded = IF Outcome(r) = "reset_discarded" THEN @ \cup {r} ELSE @,
            !.marked = IF r.attempt # None /\ authoritative THEN @ \cup {r} ELSE @,
            !.resolved = IF r.attempt # None /\ ~ authoritative THEN @ \cup {r} ELSE @])
    /\ UNCHANGED <<version, today, home, store, page, sent, answers>>

CaptureMistake(c) ==
  \E r \in call[c].marked :
    /\ call[c].phase = "working" /\ call[c].todo = {}
    /\ Set(c, [call[c] EXCEPT !.marked = @ \ {r}, !.resolved = @ \cup {r}])
    /\ UNCHANGED <<server, store, page, sent, answers>>

\* The rows are read before the state that names their generation.
ReadRows(c) ==
  /\ call[c].phase = "working" /\ call[c].todo = {} /\ call[c].marked = {}
  /\ Set(c, IF call[c].tab # None
            THEN [call[c] EXCEPT !.phase = "reading", !.payload.rows = rows] ELSE Quiet)
  /\ UNCHANGED <<server, store, page, sent, answers>>

ReadState(c) ==
  /\ call[c].phase = "reading"
  /\ Set(c, [call[c] EXCEPT
       !.phase = "answered", !.payload = [rows |-> OfHistory(@.rows, state), known |-> state]])
  /\ UNCHANGED <<server, store, page, sent, answers>>

\* The handler dies, an RPC fails or the answer is lost: the page leaves its
\* store alone.
Fail(c) ==
  /\ call[c].phase # "none"
  /\ Set(c, Quiet)
  /\ UNCHANGED <<server, store, page, sent, answers>>

------------------------------------------------------------------------------
(* The tabs.                                                               *)

\* A page comes with the cloud's rows and state.
Open(t) ==
  /\ ~ page[t].open /\ sent < MaxSent /\ sent' = sent + 1
  /\ LET payload == [rows |-> OfHistory(rows, state), known |-> state]
     IN page' = [page EXCEPT ![t] = [open |-> TRUE, ver |-> version,
                                     first |-> payload, cloud |-> payload]]
  /\ UNCHANGED <<server, store, call, answers>>

\* Requests under way go on without their tab.
Close(t) ==
  /\ page[t].open
  /\ page' = [page EXCEPT ![t] = Closed]
  /\ call' = [c \in Calls |->
       CASE call[c].tab # t -> call[c]
         [] call[c].tab = t /\ call[c].phase \in {"sent", "working"}
              -> [call[c] EXCEPT !.tab = None]
         [] OTHER -> Quiet]
  /\ UNCHANGED <<server, store, sent, answers>>

\* The reviews of the page's version are sent, the others discarded with the
\* answer.
Request(c, t, reviews) ==
  /\ sent < MaxSent /\ sent' = sent + 1
  /\ call[c] = Quiet
  /\ LET accepted == {r \in reviews : r.ver = page[t].ver}
     IN Set(c, [Quiet EXCEPT
          !.phase = "sent", !.tab = t, !.todo = accepted,
          !.discarded = reviews \ accepted,
          !.resolved = {r \in reviews \ accepted : r.attempt # None}])

\* The effect after loading, its retries, and its runs whenever the browser is
\* online again, after a sync or beside some under way: each starts from what
\* the page was loaded with, however old that is by now.
InitialSync(t, c) ==
  LET d == home[t]
      first == page[t].first
      merged == MergeProgress(first.rows, OfHistory(store[d], first.known))
  IN /\ page[t].open
     /\ store' = [store EXCEPT ![d] = merged]
     /\ Request(c, t, {r \in OfHistory(merged, first.known) :
                         r.attempt # None \/ r.day \notin DaysOf(first.rows)})
     /\ UNCHANGED <<server, page, answers>>

\* rateCurrent: the first answer of the day to this version stays; any other
\* review of the day gives way.  Then the store and the answer are sent, if
\* the network is there.
Rate(t, rating) ==
  LET d == home[t]
      cloud == page[t].cloud
      prepared == OfHistory(MergeProgress(cloud.rows, store[d]), cloud.known)
      existing == {r \in prepared : r.day = today /\ r.ver = page[t].ver}
      new == [day |-> today, rating |-> rating, gen |-> cloud.known.gen, ver |-> page[t].ver,
              attempt |-> IF rating = "again" THEN t ELSE None]
      kept == IF existing # {} THEN prepared ELSE MergeProgress(prepared, {new})
  IN /\ page[t].open
     /\ store' = [store EXCEPT ![d] = kept]
     /\ answers' = IF existing # {} THEN answers
                   ELSE {a \in answers : a.device # d \/ a.review.day # today}
                          \cup {[device |-> d, review |-> Row(new)]}
     /\ \/ \E c \in Calls : Request(c, t, kept)
        \/ UNCHANGED <<call, sent>>
     /\ UNCHANGED <<server, page>>

\* Mutant: the cloud replaces the store.
AfterSyncCloudOnly(local, c) ==
  MergeProgress(c.payload.rows, {r \in local \ c.resolved : r.attempt # None})

\* mergeProgressAfterCloudSync: discarded reviews go, resolved markers are
\* cleared, the cloud wins except over a review whose marker is pending.
AfterSync(local, c) ==
  LET kept == {IF r \in c.resolved THEN Row(r) ELSE r :
                 r \in OfHistory(local, c.payload.known) \ c.discarded}
  IN MergeProgress(MergeProgress(kept, c.payload.rows \ c.discarded),
                   {r \in kept : r.attempt # None})

Synced(c) ==
  LET t == call[c].tab
  IN /\ call[c].phase = "answered"
     /\ store' = [store EXCEPT ![home[t]] = AfterSync(@, call[c])]
     /\ page' = [page EXCEPT ![t].cloud = call[c].payload]
     /\ Set(c, Quiet)
     /\ UNCHANGED <<server, sent, answers>>

Handler(c) == Admit(c) \/ Record(c) \/ CaptureMistake(c) \/ ReadRows(c) \/ ReadState(c)

Next ==
  \/ Reset \/ ManageFirst \/ Edit \/ NextDay
  \/ \E c \in Calls : Handler(c) \/ Fail(c) \/ Synced(c)
  \/ \E t \in Tabs :
       \/ Open(t) \/ Close(t)
       \/ \E c \in Calls : InitialSync(t, c)
       \/ \E rating \in Answers[t] : Rate(t, rating)

Spec == Init /\ [][Next]_vars

------------------------------------------------------------------------------
(* Properties.                                                             *)

\* A reset is not undone: whatever a device kept from before it, every row
\* belongs to the generation of the schedule.
RowsOfOneGeneration == \A r \in rows : r.gen = state.gen

\* The schedule is that of the latest review kept, in whatever order the
\* devices deliver theirs.
ScheduleFollowsLatest ==
  state.last # 0 =>
    /\ \E r \in rows : r.day = state.last /\ r.rating = state.rating
    /\ \A r \in rows : r.day <= state.last

\* The first answer of a day to a version of the question is final.
DailyAnswerIsFinal ==
  [][\A r \in rows, s \in rows' : SameIdentity(r, s) => s.rating = r.rating]_vars

\* While the question is neither edited nor its history reset, an answer is on
\* the server, or in the storage of the device it was given on, unless the
\* server has another answer of that day.
NoAnswerLost ==
  state.gen = 0 /\ version = 1 =>
    \A a \in answers :
      \/ \E r \in rows : SameIdentity(r, a.review)
      \/ \E r \in store[a.device] : SameIdentity(r, a.review)

\* "An older concurrent sync response cannot clear that marker"
\* (web/supabase/README.md): an answer takes a coach attempt off a review of the
\* current history only if the request asked about that review.
OlderSyncKeepsMarker ==
  [][\A c \in Calls : Synced(c) =>
       \A r \in store[home[call[c].tab]] :
         r.attempt # None /\ r.gen = state.gen
           => r \in store'[home[call[c].tab]] \cup call[c].resolved \cup call[c].discarded]_vars
==============================================================================
