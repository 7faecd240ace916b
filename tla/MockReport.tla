------------------------------ MODULE MockReport ------------------------------
(***************************************************************************)
(* Graded mock interviews of one account: the mock_interview_attempts rows *)
(* (20260730100000 as hardened by 20260730170000), their client            *)
(* history.server.ts, and POST /api/mock-interview/report, which reserves  *)
(* an attempt, runs the hidden tests, pays a provider once and records the *)
(* report.  A lease expires at any moment: there is no clock.              *)
(*                                                                         *)
(* A submission is a session, its idempotency key and the frozen answers.  *)
(* What a provider call goes through is BudgetedCall.                      *)
(***************************************************************************)
EXTENDS Naturals, FiniteSets

CONSTANTS
  Slots,   \* requests under way at a time
  MaxKeys  \* bound: sessions started and keys minted

ASSUME ReportAssumption == MaxKeys \in Nat

VARIABLES
  rows,     \* mock_interview_attempts
  batch,    \* key -> state of its hidden execution reservation
  request,  \* the handlers
  payments  \* ghost: the submissions paid for, a sequence number each

serverVars == <<rows, batch, request, payments>>

NoReport == [work |-> "none", nr |-> 0]
NoSubmission == [session |-> 0, key |-> 0, work |-> "none"]
Idle == [phase |-> "idle", sub |-> NoSubmission, report |-> NoReport, reply |-> "none"]

ServerInit ==
  /\ rows = {}
  /\ batch = [k \in 1..MaxKeys |-> "none"]
  /\ request = [c \in Slots |-> Idle]
  /\ payments = {}

------------------------------------------------------------------------------
(* The rows: one of a key, one of a session.                               *)

Expired(r) == r.status = "reserved" /\ ~ r.live
Ended(r, status, report) ==
  [r EXCEPT !.status = status, !.holder = {}, !.live = FALSE, !.report = report]

\* Mutant: they all vanish.
SweptAll(S) == rows \ S

\* Expired leases end as failures once dispatched and vanish before.
Swept(S) ==
  (rows \ S) \cup {Ended(r, "failed", NoReport) : r \in {s \in S : s.dispatched}}

\* The row of the attempt this handler reserved.
Mine(c) == {r \in rows : r.sub = request[c].sub /\ r.holder = {c}}
Held(c) == {r \in Mine(c) : r.live}
Become(c, r) == rows' = (rows \ Mine(c)) \cup {r}

------------------------------------------------------------------------------
(* The handler.  An RPC may commit and not be heard of.                    *)

At(c, phase) == request[c].phase = phase
Go(c, phase) == request' = [request EXCEPT ![c].phase = phase]
Then(c, phase, reply) == request' = [request EXCEPT ![c].phase = phase, ![c].reply = reply]
Answer(c, reply) == Then(c, "answered", reply)

\* reserve_mock_interview_attempt.
Reserve(c) ==
  LET sub == request[c].sub
      expired == {r \in rows : Expired(r)}
      own == {r \in expired : r.sub.key = sub.key}
  IN /\ At(c, "sent")
     /\ \E old \in SUBSET (expired \ own) : \* those of more than seven days
          LET kept == Swept(old \cup own)
              sameKey == {r \in kept : r.sub.key = sub.key}
              sameSession == {r \in kept : r.sub.session = sub.session}
              lease == [sub |-> sub, status |-> "reserved", holder |-> {c},
                        dispatched |-> FALSE, live |-> TRUE, report |-> NoReport]
          IN \/ /\ sameKey \cup sameSession = {}
                /\ rows' = kept \cup {lease}
                /\ Go(c, "testing") \/ Answer(c, "error")
             \/ /\ sameKey \cup sameSession # {}
                /\ rows' = kept
                /\ \/ \E r \in sameKey :
                        /\ r.sub = sub /\ r.status = "completed"
                        /\ request' = [request EXCEPT ![c].phase = "answered",
                             ![c].reply = "report", ![c].report = r.report]
                   \/ Answer(c, "error")
     /\ UNCHANGED <<batch, payments>>

ReserveRefused(c) ==
  At(c, "sent") /\ Answer(c, "error") /\ UNCHANGED <<rows, batch, payments>>

\* runHiddenExecutionBatch up to the runs themselves.  An exhausted quota or a
\* busy runner keeps the key, any other failure asks for a fresh one.
HiddenTests(c) ==
  LET k == request[c].sub.key
  IN /\ At(c, "testing")
     /\ \/ /\ batch[k] = "none" /\ batch' = [batch EXCEPT ![k] = "running"]
           /\ Go(c, "executing") \/ Then(c, "aborting", "retry")
        \/ batch[k] = "completed" /\ Go(c, "starting") /\ UNCHANGED batch
        \/ Then(c, "releasing", "error") /\ UNCHANGED batch
        \/ Then(c, "aborting", "retry") /\ UNCHANGED batch
     /\ UNCHANGED <<rows, payments>>

\* Finishing a batch that is no longer running, or unheard, leaves its outcome
\* open unless the reservation says completed.
Executed(c) ==
  LET k == request[c].sub.key
      finish(s) == batch' = IF batch[k] = "running" THEN [batch EXCEPT ![k] = s] ELSE batch
  IN /\ At(c, "executing")
     /\ \/ /\ finish("failed") \/ UNCHANGED batch
           /\ Then(c, "aborting", "retry")
        \/ finish("completed") /\ batch'[k] = "completed" /\ Go(c, "starting")
        \/ /\ finish("completed") \/ UNCHANGED batch
           /\ Then(c, "releasing", "error")
     /\ UNCHANGED <<rows, payments>>

\* withAiBudget and markReportProviderDispatched: nothing is asked of the
\* provider unless the mark is confirmed.
Start(c) ==
  /\ At(c, "starting")
  /\ \/ \E r \in Held(c) :
          /\ Become(c, [r EXCEPT !.dispatched = TRUE])
          /\ (Go(c, "asking") \/ Then(c, "releasing", "error"))
     \/ Then(c, "releasing", "error") /\ UNCHANGED rows
  /\ UNCHANGED <<batch, payments>>

Pay(c) ==
  payments' = payments \cup
    {[sub |-> request[c].sub, nr |-> Cardinality(payments) + 1, deleted |-> FALSE]}

\* The provider answers, leaves it open whether it did, or refuses, in which
\* case the other one may be asked.
Ask(c) ==
  /\ At(c, "asking")
  /\ \/ /\ Pay(c)
        /\ request' = [request EXCEPT ![c].phase = "completing",
             ![c].report = [work |-> request[c].sub.work, nr |-> Cardinality(payments) + 1]]
     \/ Pay(c) /\ Then(c, "failing", "error")
     \/ UNCHANGED payments /\ (Go(c, "starting") \/ Then(c, "releasing", "error"))
  /\ UNCHANGED <<rows, batch>>

\* A report that does not parse fails the attempt.  Else complete is tried, twice;
\* if neither try is known to have stored this very report, the row is read and,
\* if still reserved, failed, and the report shown all the same.
Complete(c) ==
  /\ At(c, "completing")
  /\ \/ Then(c, "failing", "error") /\ UNCHANGED rows
     \/ /\ \/ \E r \in Held(c) : Become(c, Ended(r, "completed", request[c].report))
           \/ UNCHANGED rows
        /\ IF rows' # rows THEN Answer(c, "report") \/ Then(c, "failing", "report")
           ELSE Then(c, "failing", "report")
  /\ UNCHANGED <<batch, payments>>

\* fail_mock_interview_attempt.
Terminate(c) ==
  /\ At(c, "failing")
  /\ \/ \E r \in Held(c) : Become(c, Ended(r, "failed", NoReport))
     \/ UNCHANGED rows
  /\ Go(c, "answered")
  /\ UNCHANGED <<batch, payments>>

\* release_mock_interview_attempt deletes the lease whatever it went through,
\* abort_mock_interview_attempt only an undispatched one, expired or not.
GiveBack(c) ==
  \/ /\ At(c, "releasing")
     /\ rows' \in {rows, rows \ Mine(c)} /\ Go(c, "answered")
     /\ UNCHANGED <<batch, payments>>
  \/ /\ At(c, "aborting")
     /\ \/ /\ Mine(c) # {} /\ \A r \in Mine(c) : ~ r.dispatched
           /\ rows' = rows \ Mine(c) /\ (Go(c, "answered") \/ Answer(c, "error"))
        \/ Answer(c, "error") /\ UNCHANGED rows
     /\ UNCHANGED <<batch, payments>>

\* The handler dies or its answer is lost: the browser sees an error.
Die(c) ==
  /\ ~ At(c, "idle") /\ ~ (At(c, "answered") /\ request[c].reply = "error")
  /\ Answer(c, "error")
  /\ UNCHANGED <<rows, batch, payments>>

Report(c) ==
  \/ Reserve(c) \/ ReserveRefused(c) \/ HiddenTests(c) \/ Executed(c) \/ Start(c) \/ Ask(c)
  \/ Complete(c) \/ Terminate(c) \/ GiveBack(c) \/ Die(c)

------------------------------------------------------------------------------
(* What else happens to the rows.                                          *)

Expire ==
  /\ \/ \E r \in {s \in rows : s.live} : rows' = (rows \ {r}) \cup {[r EXCEPT !.live = FALSE]}
        /\ UNCHANGED batch
     \/ \E k \in {i \in DOMAIN batch : batch[i] = "running"} : batch' = [batch EXCEPT ![k] = "failed"]
        /\ UNCHANGED rows
  /\ UNCHANGED <<request, payments>>

\* delete_mock_interview_attempt.
OwnerDeletes ==
  /\ \E r \in rows :
       /\ r.status = "completed" \/ (Expired(r) /\ ~ r.dispatched)
       /\ rows' = rows \ {r}
       /\ payments' = {IF p.sub.session = r.sub.session THEN [p EXCEPT !.deleted = TRUE] ELSE p :
                         p \in payments}
  /\ UNCHANGED <<batch, request>>

------------------------------------------------------------------------------
(* What the attempts promise is PaidOnce, the payments being its payers: a  *)
(* session is sealed by its mark, and forgotten with its row.              *)

Stands(r) ==
  CASE r.status = "completed" -> "stored"
    [] r.status = "failed" -> "unknown"
    [] r.status = "reserved" -> IF r.dispatched THEN "sealed" ELSE "open"

Verdict(S, session) ==
  IF \E r \in S : r.sub.session = session
  THEN Stands(CHOOSE r \in S : r.sub.session = session) ELSE "open"

Buyers(session) == {p.nr : p \in {q \in payments : q.sub.session = session /\ ~ q.deleted}}

Promise == INSTANCE PaidOnce WITH
  Evaluations <- 0..MaxKeys,
  Payers <- Nat,
  verdict <- [session \in 0..MaxKeys |-> Verdict(rows, session)],
  bought <- [session \in 0..MaxKeys |-> Buyers(session)]
==============================================================================
