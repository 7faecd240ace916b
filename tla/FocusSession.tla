----------------------------- MODULE FocusSession -----------------------------
(***************************************************************************)
(* A focused sprint (lib/practice/focus-session.ts, its start in           *)
(* focus-sprint.ts and its use in practice-app.tsx): one session of a plan *)
(* in local storage.  Tabs continue it, each from a copy of its own; all   *)
(* writes but the start compare the whole stored session with the copy     *)
(* they were made from.  A session is done when no question remains.  Its  *)
(* two queues name a question once and keep the order of the plan (the     *)
(* schema refuses any other), so their sets tell them.                     *)
(***************************************************************************)
EXTENDS Naturals, Sequences, FiniteSets

CONSTANTS
  Tabs,
  Plan,       \* the questions of a sprint, in order
  None,
  MaxStarts,  \* bound: sprints started
  MaxGone,    \* bound: questions edited, suspended or reviewed elsewhere
  MaxWrites   \* bound: writes of dropped questions under way

VARIABLES
  stored,   \* the session in local storage
  started,  \* sprints so far
  reviewed, \* questions reviewed today
  gone,     \* questions edited or suspended
  copy,     \* tab -> the session it shows
  known,    \* tab -> the questions it knows to be reviewed and to be gone
  rating,   \* tab -> the question whose review it has recorded, with the copy of then
  writes    \* of dropped questions, to come

vars == <<stored, started, reviewed, gone, copy, known, rating, writes>>

Planned == {Plan[i] : i \in DOMAIN Plan}
SprintAssumption == Plan \in Seq(Planned)

\* The first of these questions in the order of the plan.
First(some) == Plan[CHOOSE i \in DOMAIN Plan :
                      Plan[i] \in some /\ \A j \in DOMAIN Plan : Plan[j] \in some => i <= j]

\* by, the tab of the last write, stands for updatedAt.
Session(id) == [id |-> id, by |-> None, remaining |-> Planned, completed |-> {}]
Active(s) == s # None /\ s.remaining # {}

Init ==
  /\ stored = None /\ started = 0 /\ reviewed = {} /\ gone = {} /\ writes = {}
  /\ copy = [t \in Tabs |-> None] /\ known = [t \in Tabs |-> [reviewed |-> {}, gone |-> {}]]
  /\ rating = [t \in Tabs |-> None]

------------------------------------------------------------------------------
\* completeFocusSessionQuestion: the first question, or nothing.
Completed(s, q, t) ==
  IF ~ Active(s) \/ First(s.remaining) # q THEN s
  ELSE [s EXCEPT !.by = t, !.remaining = @ \ {q}, !.completed = @ \cup {q}]

\* focusEligibleQuestionIdentities, the questions it leaves out.
Dropped(s, k) == (s.remaining \cap (k.reviewed \cup k.gone)) \cup (s.completed \cap k.gone)

\* reconcileFocusSession.
Reconciled(s, t) ==
  LET dropped == Dropped(s, known[t])
  IN [s EXCEPT !.by = t, !.remaining = @ \ dropped, !.completed = @ \ dropped]

\* Mutant: it is enough that the session is the same.
SameSession(left, right) == left # None /\ left.id = right.id

\* sameFocusSessionRevision.
SameRevision(left, right) == left # None /\ left = right

\* The tab that lost shows the stored session, when that is the one it opened.
Adopt(t, or) ==
  copy' = [copy EXCEPT ![t] = IF stored # None /\ copy[t] # None /\ stored.id = copy[t].id
                              THEN stored ELSE or]

------------------------------------------------------------------------------
\* prepareFocusSprint: it takes no lock and compares nothing.
Start ==
  /\ started < MaxStarts /\ started' = started + 1 /\ stored' = Session(started + 1)
  /\ UNCHANGED <<reviewed, gone, copy, known, rating, writes>>

\* Opening the page of the stored session, and the hydration of its copy.
Open(t) ==
  /\ copy[t] = None /\ stored # None
  /\ copy' = [copy EXCEPT ![t] = stored]
  /\ known' = [known EXCEPT ![t] = [reviewed |-> reviewed, gone |-> gone]]
  /\ UNCHANGED <<stored, started, reviewed, gone, rating, writes>>

\* The owner edits or suspends a question, or reviews it on another device; a
\* tab hears of it.
Changes(q) ==
  /\ Cardinality(gone) < MaxGone /\ q \notin gone /\ gone' = gone \cup {q}
  /\ UNCHANGED <<stored, started, reviewed, copy, known, rating, writes>>
Hears(t) ==
  /\ copy[t] # None /\ known' = [known EXCEPT ![t] = [reviewed |-> reviewed, gone |-> gone]]
  /\ UNCHANGED <<stored, started, reviewed, gone, copy, rating, writes>>

\* The hydration and the effect that reconcile: the copy changes at once, the
\* store with a write.
Reconcile(t) ==
  /\ copy[t] # None /\ Dropped(copy[t], known[t]) # {} /\ Cardinality(writes) < MaxWrites
  /\ writes' = writes \cup {[tab |-> t, from |-> copy[t], to |-> Reconciled(copy[t], t)]}
  /\ copy' = [copy EXCEPT ![t] = Reconciled(@, t)]
  /\ UNCHANGED <<stored, started, reviewed, gone, known, rating>>

WriteReconciled(w) ==
  /\ writes' = writes \ {w}
  /\ \/ SameRevision(stored, w.from) /\ stored' = w.to /\ UNCHANGED copy
     \/ ~ SameRevision(stored, w.from) /\ Adopt(w.tab, copy[w.tab]) /\ UNCHANGED stored
     \/ UNCHANGED <<stored, copy>>  \* storage fails
  /\ UNCHANGED <<started, reviewed, gone, known, rating>>

\* rateCurrent: the review is recorded, which this tab hears of at once, ...
Rate(t) ==
  /\ Active(copy[t]) /\ rating[t] = None
  /\ LET q == First(copy[t].remaining)
     IN /\ rating' = [rating EXCEPT ![t] = [q |-> q, from |-> copy[t]]]
        /\ reviewed' = reviewed \cup {q}
        /\ known' = [known EXCEPT ![t].reviewed = reviewed']
  /\ UNCHANGED <<stored, started, gone, copy, writes>>

\* ... then persistFocusSessionIfCurrent.
Advance(t) ==
  /\ rating[t] # None /\ rating' = [rating EXCEPT ![t] = None]
  /\ LET base == rating[t].from
         next == Completed(base, rating[t].q, t)
         shows == copy' = [copy EXCEPT ![t] = next]
     IN \/ SameRevision(stored, base) /\ stored' = next /\ shows
        \/ ~ SameRevision(stored, base) /\ Adopt(t, next) /\ UNCHANGED stored
        \/ shows /\ UNCHANGED stored  \* storage fails
  /\ UNCHANGED <<started, reviewed, gone, known, writes>>

Away(t) == /\ copy' = [copy EXCEPT ![t] = None] /\ rating' = [rating EXCEPT ![t] = None]
           /\ writes' = {w \in writes : w.tab # t}

\* cancelFocusSprint; the page leaves when it succeeds.
Cancel(t) ==
  /\ copy[t] # None
  /\ \/ SameRevision(stored, copy[t]) /\ stored' = None /\ Away(t)
     \/ ~ SameRevision(stored, copy[t]) /\ Adopt(t, copy[t]) /\ UNCHANGED <<stored, rating, writes>>
  /\ UNCHANGED <<started, reviewed, gone, known>>

\* pauseFocusSprint, or the page is closed.
Leave(t) ==
  /\ copy[t] # None /\ Away(t)
  /\ UNCHANGED <<stored, started, reviewed, gone, known>>

Next ==
  \/ Start
  \/ \E q \in Planned : Changes(q)
  \/ \E t \in Tabs :
       \/ Open(t) \/ Hears(t) \/ Reconcile(t) \/ Rate(t) \/ Advance(t)
       \/ Cancel(t) \/ Leave(t)
  \/ \E w \in writes : WriteReconciled(w)

Spec == Init /\ [][Next]_vars

------------------------------------------------------------------------------
(* Properties.                                                             *)

\* Whatever old copy a tab writes from, the stored sprint takes no question
\* back, loses none that nobody has answered, and keeps what it completed.
Advances ==
  stored # None /\ stored' # None /\ stored'.id = stored.id =>
    /\ stored'.remaining \subseteq stored.remaining
    /\ stored.remaining \ stored'.remaining \subseteq reviewed \cup gone
    /\ stored.completed \ gone \subseteq stored'.completed
SprintOnlyAdvances == [][Advances]_vars
==============================================================================
