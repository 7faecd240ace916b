----------------------------- MODULE MockSession -----------------------------
(***************************************************************************)
(* A mock interview in the browser: one session in local storage, shared   *)
(* by the tabs of an account (lib/mock-interview/session-v4.ts and         *)
(* mock-interview-app.tsx), graded by the handlers of MockReport.  A tab   *)
(* acts on the session it last rendered, which may lag behind the storage. *)
(*                                                                         *)
(* One question, a code question, stands for all; what its answer says is  *)
(* a work.  The countdown submits as the learner does.                     *)
(***************************************************************************)
EXTENDS MockReport

CONSTANTS
  Tabs,
  Works,   \* the answers a learner may write, "blank" to begin with
  MaxRevs, \* bound: the learner changes no session from this revision on
  MaxRuns  \* bound: runs of the sample tests under way

VARIABLES
  store,  \* the session in local storage
  seen,   \* tab -> the session it last rendered
  busy,   \* tabs with evaluationInFlight
  asker,  \* handler -> tabs that await its answer, at most one
  runs,   \* requests to the sample runner
  minted, \* sessions started and report keys made
  typed   \* ghost: what was last written, and in which session

browserVars == <<store, seen, busy, asker, runs, minted, typed>>
vars == <<serverVars, browserVars>>

NoSession == [id |-> 0, rev |-> 0, status |-> "none", work |-> "blank", frozen |-> NoSubmission,
              key |-> 0, pending |-> "none", sample |-> "none", report |-> NoReport]

Init ==
  /\ ServerInit
  /\ store = NoSession /\ seen = [t \in Tabs |-> NoSession]
  /\ busy = {} /\ asker = [c \in Slots |-> {}] /\ runs = {}
  /\ minted = 0 /\ typed = [session |-> 0, work |-> "blank"]

------------------------------------------------------------------------------
(* The session store, under its lock.                                      *)

\* Mutant: the lock is taken, the revision not compared.
SameSession(s, r) == s.id = r.id

SameRevision(s, r) == s.id = r.id /\ s.rev = r.rev

\* compareAndSetMockInterviewSessionSnapshotLocked.
CompareAndSet(expected, next) ==
  /\ SameRevision(store, expected)
  /\ store' = [next EXCEPT !.rev = expected.rev + 1]

\* mutateMockInterviewSessionSnapshotLocked: a change of the same active
\* session is rebased.
Mutate(expected, next) ==
  /\ store.id = expected.id /\ store.status = expected.status /\ store.rev >= expected.rev
  /\ store' = [next EXCEPT !.rev = store.rev + 1]

Active(t) == seen[t].status = "in_progress"
MayRevise == store.rev < MaxRevs

------------------------------------------------------------------------------
(* The learner.                                                            *)

Refresh(t) ==
  /\ seen[t] # store
  /\ seen' = [seen EXCEPT ![t] = store]
  /\ UNCHANGED <<serverVars, store, busy, asker, runs, minted, typed>>

Reload(t) ==
  /\ t \in busy \/ \E r \in runs : r.tab = t
  /\ seen' = [seen EXCEPT ![t] = store]
  /\ busy' = busy \ {t}
  /\ asker' = [c \in Slots |-> asker[c] \ {t}]
  /\ runs' = {r \in runs : r.tab # t}
  /\ UNCHANGED <<serverVars, store, minted, typed>>

StartInterview(t) ==
  /\ seen[t] = NoSession /\ store = NoSession /\ minted < MaxKeys
  /\ minted' = minted + 1
  /\ store' = [NoSession EXCEPT !.id = minted + 1, !.rev = 1, !.status = "in_progress"]
  /\ busy' = busy \ {t}
  /\ typed' = [session |-> minted + 1, work |-> "blank"]
  /\ UNCHANGED <<serverVars, seen, asker, runs>>

\* updateAnswer.  An explanation leaves the code as it is.
UpdateAnswer(t, w) ==
  /\ Active(t) /\ MayRevise
  /\ Mutate(seen[t], IF store.work = w THEN store
                     ELSE [store EXCEPT !.work = w, !.key = 0, !.pending = "none",
                                        !.sample = "none"])
  /\ typed' = [session |-> store.id, work |-> w]
  /\ UNCHANGED <<serverVars, seen, busy, asker, runs, minted>>

MoveToQuestion(t) ==
  /\ Active(t) /\ MayRevise
  /\ CompareAndSet(seen[t], seen[t])
  /\ UNCHANGED <<serverVars, seen, busy, asker, runs, minted, typed>>

\* runCurrentCode.  The pending key is named by the code it was made for.
RunCurrentCode(t) ==
  /\ Active(t) /\ MayRevise /\ Cardinality(runs) < MaxRuns
  /\ \A r \in runs : r.tab # t
  /\ CompareAndSet(seen[t], [seen[t] EXCEPT
       !.pending = IF seen[t].pending = "none" THEN seen[t].work ELSE @])
  /\ runs' = runs \cup {[tab |-> t, session |-> seen[t].id, source |-> seen[t].work]}
  /\ UNCHANGED <<serverVars, seen, busy, asker, minted, typed>>

\* Its result counts for the code it ran; a refusal clears the pending key,
\* unless it may still be wanted.
RunAnswered(r) ==
  /\ runs' = runs \ {r}
  /\ \/ /\ store.id = r.session /\ store.work = r.source
        /\ CompareAndSet(store, [store EXCEPT !.sample = r.source, !.pending = "none"])
     \/ store.id = r.session /\ CompareAndSet(store, [store EXCEPT !.pending = "none"])
     \/ UNCHANGED store
  /\ UNCHANGED <<serverVars, seen, busy, asker, minted, typed>>

\* finishInterview: the submission is frozen with its key before it is sent; a
\* frozen one is sent again as it was.
FinishInterview(t, c) ==
  LET s == seen[t]
      retrying == s.status = "evaluating"
      sub == IF retrying THEN s.frozen
             ELSE [session |-> s.id, key |-> minted + 1, work |-> s.work]
  IN /\ Active(t) \/ retrying
     /\ t \notin busy /\ request[c] = Idle /\ MayRevise
     /\ retrying \/ minted < MaxKeys
     /\ minted' = IF retrying THEN minted ELSE minted + 1
     /\ CompareAndSet(s, [s EXCEPT !.status = "evaluating", !.key = sub.key, !.frozen = sub])
     /\ busy' = busy \cup {t}
     /\ request' = [request EXCEPT ![c] = [Idle EXCEPT !.phase = "sent", !.sub = sub]]
     /\ asker' = [asker EXCEPT ![c] = {t}]
     /\ UNCHANGED <<rows, batch, payments, seen, runs, typed>>

\* Mutant: the answer is taken for whatever the session has become.
AwaitedAnyKey(c) == store.id = request[c].sub.session

\* The session and key that the answer is about.
Awaited(c) == store.id = request[c].sub.session /\ store.key = request[c].sub.key

\* What the session becomes; the schema refuses to take a completed one back.
AfterFailure(c) ==
  CASE store.status = "completed" -> store
    [] store.status # "completed" /\ request[c].reply = "retry"
         -> [store EXCEPT !.status = "in_progress", !.key = 0, !.frozen = NoSubmission]
    [] OTHER -> [store EXCEPT !.status = "evaluating", !.frozen = request[c].sub]

ReportAnswered(c) ==
  /\ request[c].phase = "answered"
  /\ request' = [request EXCEPT ![c] = Idle]
  /\ busy' = busy \ asker[c] /\ asker' = [asker EXCEPT ![c] = {}]
  /\ \/ /\ asker[c] # {} /\ Awaited(c)
        /\ IF request[c].reply = "report"
           THEN CompareAndSet(store, [store EXCEPT
                  !.status = "completed", !.frozen = NoSubmission, !.report = request[c].report])
           ELSE IF AfterFailure(c) = store THEN UNCHANGED store
           ELSE CompareAndSet(store, AfterFailure(c))
     \/ UNCHANGED store
  /\ UNCHANGED <<rows, batch, payments, seen, runs, minted, typed>>

ResetInterview(t) ==
  /\ seen[t] # NoSession /\ SameRevision(store, seen[t])
  /\ store' = NoSession
  /\ busy' = busy \ {t}
  /\ UNCHANGED <<serverVars, seen, asker, runs, minted, typed>>

Learner(t) ==
  \/ Refresh(t) \/ Reload(t) \/ StartInterview(t) \/ MoveToQuestion(t) \/ RunCurrentCode(t)
  \/ ResetInterview(t)
  \/ \E w \in Works : UpdateAnswer(t, w)
  \/ \E c \in Slots : FinishInterview(t, c)

Server ==
  /\ Expire \/ OwnerDeletes \/ \E c \in Slots : Report(c)
  /\ UNCHANGED browserVars

Next ==
  \/ Server
  \/ \E t \in Tabs : Learner(t)
  \/ \E r \in runs : RunAnswered(r)
  \/ \E c \in Slots : ReportAnswered(c)

Spec == Init /\ [][Next]_vars

------------------------------------------------------------------------------
(* Properties.                                                             *)

\* A session is paid for once, whatever its tabs retry and however its leases
\* and keys change hands, unless its owner deletes the report.
OnePaidReport ==
  \A p, q \in payments : p.sub.session = q.sub.session /\ ~ p.deleted /\ ~ q.deleted => p = q

\* The report of a session grades the answers that the session shows.
ShownIsGraded == store.status = "completed" => store.report.work = store.work

\* No tab puts back what was written before.
NoAnswerReverted == store.id = typed.session => store.work = typed.work

\* "A frozen submission and idempotency key can recover a cached completed
\* report after a lost response" (web/supabase/README.md).
CompletedIsRecoverable ==
  \A r \in rows :
    r.status = "completed" /\ r.sub.session = store.id /\ store.status # "completed"
      => store.key = r.sub.key
==============================================================================
