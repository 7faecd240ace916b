--------------------------- MODULE CoachEvaluation ---------------------------
(***************************************************************************)
(* One account's paid answer evaluations: the reservation RPCs of          *)
(* 20260730130000_create_coach_evaluation_reservations.sql as replaced by  *)
(* 20260828110000_localize_coach_evaluation_fingerprints.sql, and the      *)
(* admin path of POST /api/coach/evaluate that drives them.                *)
(*                                                                         *)
(* A handler is one HTTP request.  It reserves a lease on its request's    *)
(* fingerprint, marks it dispatched, calls OpenAI (inside withAiBudget) or *)
(* the Gemini fallback, and stores or terminalizes the evaluation.  Every  *)
(* RPC takes the account's advisory lock, so a transaction is one step,    *)
(* but its now() is the instant it began; the RPC's request or answer may  *)
(* be lost, and the request may commit long after its handler went on.     *)
(***************************************************************************)
EXTENDS Integers, FiniteSets

CONSTANTS
  Handlers,     \* HTTP requests; each creates at most one lease token, itself
  Keys,         \* idempotency keys
  Fingerprints, \* request fingerprints
  Identity,     \* [Fingerprints -> what is evaluated: question, source, answer, locale]
  Legacy,       \* fingerprints in the form used before the locale was hashed in
  LegacyPair,   \* legacyCoachEvaluationCompatibility: what a rejected request resends
  Requests,     \* [key, fp] pairs browsers send
  OldAttempts,  \* [slot, id, valid] attempts saved without a reservation
  Unkeyed,      \* slot of an attempt saved without an idempotency key
  Nobody,       \* no handler
  Lease,        \* COACH_EVALUATION_LEASE_SECONDS, 600
  LockWait,     \* how old now() may be once the lock is held
  MaxTime,      \* bound of the clock
  LastServe,    \* bound: no request is served after this instant
  Rollout,      \* the run starts before migration 20260828110000
  Deletions     \* the user may delete attempts

Slots == Keys \cup {Unkeyed}
Authors == Handlers \cup {Nobody}
Identities == {Identity[f] : f \in Fingerprints}
Request == [key : Keys, fp : Fingerprints]

ASSUME CoachAssumption ==
  /\ Identity \in [Fingerprints -> Identities]
  /\ Legacy \subseteq Fingerprints
  /\ \A f, g \in Fingerprints \ Legacy : Identity[f] = Identity[g] => f = g
  /\ Requests \subseteq Request /\ Requests # {}
  /\ LegacyPair \in [Requests -> Request]
  /\ OldAttempts \subseteq [slot : Slots, id : Identities, valid : BOOLEAN]
  /\ Unkeyed \notin Keys /\ Nobody \notin Handlers
  /\ Lease \in Nat /\ LockWait \in Nat /\ MaxTime \in Nat /\ LastServe \in Nat
  /\ Rollout \in BOOLEAN /\ Deletions \in BOOLEAN

VARIABLES
  rows,     \* coach_evaluation_reservations, by idempotency key
  attempts, \* coach_attempts, by idempotency key
  clock,
  migrated, \* 20260828110000 has been applied
  req,      \* the key and fingerprint the handler's RPCs carry
  pc,       \* where the handler stands; the RPC it awaits
  stage,    \* the provider it has turned to
  try,      \* which sending of that RPC it awaits
  wire,     \* requests sent and neither served nor lost
  reply,    \* committed answer on its way back
  provider, \* what the handler's last provider call came to
  response, \* what the browser is told, or will be once the release is over
  shown,    \* author of the evaluation shown
  forgiven  \* ghost: handlers whose lease went with a deleted attempt

dbVars == <<rows, attempts, clock, migrated>>
handlerVars == <<req, pc, stage, try, wire, reply, provider, response, shown>>
vars == <<dbVars, handlerVars, forgiven>>

-----------------------------------------------------------------------------
(* Tables.                                                                 *)

NoAttempt == [id |-> Nobody, valid |-> FALSE, author |-> Nobody, at |-> 0]
NoFp == CHOOSE f \in Fingerprints : TRUE
NoRow == [status |-> "none", fp |-> NoFp, token |-> Nobody, expires |-> 0,
          dispatched |-> FALSE, attempt |-> Unkeyed, author |-> Nobody]

Leased(h, f, now) ==
  [NoRow EXCEPT !.status = "running", !.fp = f, !.token = h, !.expires = now + Lease]

Ended(row, status, slot, author) ==
  [row EXCEPT !.status = status, !.token = Nobody, !.expires = 0,
              !.dispatched = TRUE, !.attempt = slot, !.author = author]

Completed(row, slot, author) == Ended(row, "completed", slot, author)
Unknown(row) == Ended(row, "outcome_unknown", Unkeyed, Nobody)

Present(k) == rows[k].status # "none"
Saved(s)   == attempts[s] # NoAttempt
Starts     == {t \in 0..clock : clock - LockWait <= t}

\* The row of this key, else of this fingerprint, else of the fingerprint's
\* legacy form.
RowOf(k, f) ==
  LET exact  == {j \in Keys : Present(j) /\ rows[j].fp = f}
      legacy == {j \in Keys : Present(j) /\ rows[j].fp \in Legacy
                                /\ Identity[rows[j].fp] = Identity[f]}
  IN  IF Present(k) THEN {k} ELSE IF exact # {} THEN exact ELSE legacy

\* The attempt of this key, else the latest one of the same identity.
AttemptOf(k, id) ==
  LET same == {s \in Slots : Saved(s) /\ attempts[s].id = id}
  IN  IF Saved(k) THEN {k}
      ELSE {s \in same : \A t \in same : attempts[t].at <= attempts[s].at}

-----------------------------------------------------------------------------
(* Messages.                                                               *)

Reply(status, author) == [status |-> status, author |-> author]
NoReply == Reply("none", Nobody)

Awaited(m) == m.from # Nobody /\ pc[m.from] = m.op /\ try[m.from] = m.n
              /\ req[m.from] = [key |-> m.key, fp |-> m.fp]

\* The transaction of m commits with this answer, which the handler gets only
\* if it still waits for it and the answer is not lost (RpcFails).
Answers(m, status, author) ==
  /\ wire' = wire \ {m}
  /\ reply' = IF Awaited(m) THEN [reply EXCEPT ![m.from] = Reply(status, author)] ELSE reply
  /\ UNCHANGED <<clock, migrated, req, pc, stage, try, provider, response, shown, forgiven>>

Only(m, status, author) == Answers(m, status, author) /\ UNCHANGED <<rows, attempts>>

\* What a terminal row answers to every RPC.
AnswersTerminal(m, row) ==
  row.status \in {"completed", "outcome_unknown"} /\ Only(m, row.status, row.author)

-----------------------------------------------------------------------------
(* reserve_coach_evaluation, one operator per way out, in the code's order. *)

KeyTaken(m)  == Present(m.key) /\ rows[m.key].fp # m.fp
Found(m)     == RowOf(m.key, m.fp)
Open(m)      == ~KeyTaken(m) /\ \A j \in Found(m) : rows[j].status = "running"
Candidate(m) == AttemptOf(m.key, Identity[m.fp])
SlotTaken(m) == Saved(m.key) /\ attempts[m.key].id # Identity[m.fp]
NoCache(m)   == Candidate(m) = {} \/ \E s \in Candidate(m) : ~attempts[s].valid

\* coach_evaluation_reservation_attempt_idx: one reservation per attempt.
Linkable(s, k) == \A j \in Keys \ {k} : rows[j].status = "completed" => rows[j].attempt # s

\* The function before the migration knows no locale and raises.
ReserveMismatch(m) ==
  ~migrated /\ m.fp \notin Legacy /\ Only(m, "mismatch", Nobody)

ReserveConflict(m) ==
  \/ KeyTaken(m) /\ Only(m, "conflict", Nobody)
  \/ Open(m) /\ SlotTaken(m) /\ Only(m, "conflict", Nobody)

ReserveCached(m) ==
  ~KeyTaken(m) /\ \E j \in Found(m) : AnswersTerminal(m, rows[j])

\* A valid attempt becomes the answer, whoever holds the lease.  A row still
\* filed under the legacy fingerprint is not updated and the reselect misses it.
ReservePromotes(m) ==
  /\ Open(m) /\ ~SlotTaken(m)
  /\ \E s \in Candidate(m) :
       /\ attempts[s].valid
       /\ \/ /\ \E j \in Found(m) : rows[j].fp # m.fp
             /\ Only(m, "conflict", Nobody)
          \/ \E k \in IF Found(m) = {} THEN {m.key} ELSE Found(m) :
               /\ Present(k) => rows[k].fp = m.fp
               /\ Linkable(s, k)
               /\ rows' = [rows EXCEPT ![k] =
                     Completed([@ EXCEPT !.fp = m.fp], s, attempts[s].author)]
               /\ UNCHANGED attempts
               /\ Answers(m, "completed", attempts[s].author)

Uncached(m) == Open(m) /\ ~SlotTaken(m) /\ NoCache(m)

ReserveBusy(m, now) ==
  /\ Uncached(m)
  /\ \E j \in Found(m) : rows[j].expires > now
  /\ Only(m, "busy", Nobody)

\* Mutant: only a lease that was never dispatched is ended.
ReserveTerminalizesUndispatched(m, now) ==
  /\ Uncached(m)
  /\ \E j \in Found(m) :
       /\ rows[j].expires <= now /\ ~rows[j].dispatched
       /\ rows' = [rows EXCEPT ![j] = Unknown(@)]
  /\ UNCHANGED attempts
  /\ Answers(m, "outcome_unknown", Nobody)

\* An expired lease whose provider call may have begun.
ReserveTerminalizes(m, now) ==
  /\ Uncached(m)
  /\ \E j \in Found(m) :
       /\ rows[j].expires <= now /\ rows[j].dispatched
       /\ rows' = [rows EXCEPT ![j] = Unknown(@)]
  /\ UNCHANGED attempts
  /\ Answers(m, "outcome_unknown", Nobody)

\* Mutant: the row of another key is not looked up by fingerprint.
ReserveLeasesByKey(m, now) ==
  /\ Uncached(m)
  /\ Present(m.key) => rows[m.key].expires <= now /\ ~rows[m.key].dispatched
  /\ rows' = [rows EXCEPT ![m.key] = Leased(m.from, m.fp, now)]
  /\ UNCHANGED attempts
  /\ Answers(m, "running", Nobody)

\* A new lease, in place of an expired one that was never dispatched.
ReserveLeases(m, now) ==
  /\ Uncached(m)
  /\ \A j \in Found(m) : rows[j].expires <= now /\ ~rows[j].dispatched
  /\ rows' = [j \in Keys |-> IF j = m.key THEN Leased(m.from, m.fp, now)
                             ELSE IF j \in Found(m) THEN NoRow ELSE rows[j]]
  /\ UNCHANGED attempts
  /\ Answers(m, "running", Nobody)

Reserve(m, now) ==
  \/ ReserveMismatch(m)
  \/ /\ migrated \/ m.fp \in Legacy
     /\ \/ ReserveConflict(m) \/ ReserveCached(m) \/ ReservePromotes(m)
        \/ ReserveBusy(m, now) \/ ReserveTerminalizes(m, now) \/ ReserveLeases(m, now)

-----------------------------------------------------------------------------
(* The RPCs of a lease holder.                                             *)

Running(m) == rows[m.key].status = "running"
Holds(m)   == Running(m) /\ rows[m.key].token = m.from

\* mark_coach_evaluation_dispatched
MarkDispatched(m, now) ==
  \/ ~Present(m.key) /\ Only(m, "error", Nobody)
  \/ AnswersTerminal(m, rows[m.key])
  \/ /\ Running(m) /\ (~Holds(m) \/ rows[m.key].expires <= now)
     /\ Only(m, "error", Nobody)
  \/ /\ Holds(m) /\ rows[m.key].expires > now
     /\ rows' = [rows EXCEPT ![m.key] = [@ EXCEPT !.dispatched = TRUE]]
     /\ UNCHANGED attempts
     /\ Answers(m, "dispatched", Nobody)

\* complete_coach_evaluation
Complete(m, now) ==
  \/ ~Present(m.key) /\ Only(m, "error", Nobody)
  \/ KeyTaken(m) /\ Only(m, "error", Nobody)
  \/ ~KeyTaken(m) /\ AnswersTerminal(m, rows[m.key])
  \/ /\ Running(m) /\ ~KeyTaken(m)
     /\ \/ ~rows[m.key].dispatched \/ ~Holds(m) \/ rows[m.key].expires <= now
        \/ SlotTaken(m)
     /\ Only(m, "error", Nobody)
  \/ /\ Holds(m) /\ ~KeyTaken(m) /\ rows[m.key].dispatched /\ rows[m.key].expires > now
     /\ ~SlotTaken(m) /\ Linkable(m.key, m.key)
     /\ attempts' = [attempts EXCEPT ![m.key] =
           [id |-> Identity[m.fp], valid |-> TRUE, author |-> m.from, at |-> now]]
     /\ rows' = [rows EXCEPT ![m.key] = Completed(@, m.key, m.from)]
     /\ Answers(m, "completed", m.from)

\* mark_coach_evaluation_outcome_unknown: an expired lease may still be ended.
MarkUnknown(m) ==
  \/ ~Present(m.key) /\ Only(m, "error", Nobody)
  \/ AnswersTerminal(m, rows[m.key])
  \/ Running(m) /\ (~rows[m.key].dispatched \/ ~Holds(m)) /\ Only(m, "error", Nobody)
  \/ /\ Holds(m) /\ rows[m.key].dispatched
     /\ rows' = [rows EXCEPT ![m.key] = Unknown(@)]
     /\ UNCHANGED attempts
     /\ Answers(m, "outcome_unknown", Nobody)

\* Mutant: the lease token is not compared.
ReleaseAnyToken(m) ==
  \/ ~Present(m.key) /\ Only(m, "not_found", Nobody)
  \/ AnswersTerminal(m, rows[m.key])
  \/ /\ Running(m)
     /\ rows' = [rows EXCEPT ![m.key] = NoRow]
     /\ UNCHANGED attempts
     /\ Answers(m, "released", Nobody)

\* release_coach_evaluation: neither the expiry nor the marker is looked at.
Release(m) ==
  \/ ~Present(m.key) /\ Only(m, "not_found", Nobody)
  \/ AnswersTerminal(m, rows[m.key])
  \/ Running(m) /\ ~Holds(m) /\ Only(m, "error", Nobody)
  \/ /\ Holds(m)
     /\ rows' = [rows EXCEPT ![m.key] = NoRow]
     /\ UNCHANGED attempts
     /\ Answers(m, "released", Nobody)

Serve(m, now) ==
  /\ clock <= LastServe
  /\ \/ m.op = "reserve" /\ Reserve(m, now)
     \/ m.op = "dispatch" /\ MarkDispatched(m, now)
     \/ m.op = "complete" /\ Complete(m, now)
     \/ m.op = "unknown" /\ MarkUnknown(m)
     \/ m.op = "release" /\ Release(m)

\* Lost before it commits, or its transaction raises.
Lose(m) ==
  wire' = wire \ {m} /\ UNCHANGED <<dbVars, req, pc, stage, try, reply, provider,
                                    response, shown, forgiven>>

-----------------------------------------------------------------------------
(* The handler.  Its steps leave the tables alone.                         *)

Locally == UNCHANGED <<dbVars, forgiven>>

Send(h, op, n, r) ==
  /\ pc' = [pc EXCEPT ![h] = op]
  /\ try' = [try EXCEPT ![h] = n]
  /\ req' = [req EXCEPT ![h] = r]
  /\ reply' = [reply EXCEPT ![h] = NoReply]
  /\ wire' = wire \cup {[from |-> h, op |-> op, n |-> n, key |-> r.key, fp |-> r.fp]}

Goto(h, label) ==
  /\ pc' = [pc EXCEPT ![h] = label]
  /\ reply' = [reply EXCEPT ![h] = NoReply]
  /\ UNCHANGED <<try, req, wire>>

Respond(h, what, author) ==
  /\ Goto(h, "done")
  /\ response' = [response EXCEPT ![h] = what]
  /\ shown' = [shown EXCEPT ![h] = author]

Quietly == UNCHANGED <<response, shown>>

\* The catch block: give the lease back, then report the error.
ReleaseAndFail(h) ==
  /\ Send(h, "release", 1, req[h])
  /\ response' = [response EXCEPT ![h] = "failed"]
  /\ UNCHANGED shown

\* runGeminiBudgetFallback, when it is enabled.
TurnToGemini(h) ==
  /\ stage[h] = "openai"
  /\ stage' = [stage EXCEPT ![h] = "gemini"]
  /\ Send(h, "dispatch", 2, req[h])
  /\ Quietly

Arrive(h) ==
  /\ pc[h] = "idle"
  /\ \E r \in Requests : Send(h, "reserve", 1, r)
  /\ Quietly /\ Locally /\ UNCHANGED <<stage, provider>>

Answered(h, op, statuses) == pc[h] = op /\ reply[h].status \in statuses

\* What the reservation decided.  A lease that looks expired to the server's
\* own clock is a configuration error and is left to expire.  The legacy pair
\* is what the function before the migration accepts, so it is sent once.
HearReserve(h) ==
  /\ \/ Answered(h, "reserve", {"running"}) /\ Goto(h, "budget") /\ Quietly
     \/ Answered(h, "reserve", {"running"}) /\ Respond(h, "failed", Nobody)
     \/ Answered(h, "reserve", {"completed"}) /\ Respond(h, "result", reply[h].author)
     \/ Answered(h, "reserve", {"outcome_unknown"}) /\ Respond(h, "unknown", Nobody)
     \/ /\ Answered(h, "reserve", {"busy", "conflict"})
        /\ Respond(h, reply[h].status, Nobody)
     \/ /\ Answered(h, "reserve", {"mismatch"})
        /\ Send(h, "reserve", 2, LegacyPair[req[h]])
        /\ Quietly
  /\ Locally /\ UNCHANGED <<stage, provider>>

\* withAiBudget up to its hook: admitted, over budget, or not available.
Budget(h) ==
  /\ pc[h] = "budget"
  /\ \/ Send(h, "dispatch", 1, req[h]) /\ Quietly /\ UNCHANGED stage
     \/ TurnToGemini(h)
     \/ ReleaseAndFail(h) /\ UNCHANGED stage
  /\ Locally /\ UNCHANGED provider

\* markEvaluationProviderDispatched: only a confirmed marker goes on.
HearDispatch(h) ==
  /\ \/ Answered(h, "dispatch", {"dispatched"}) /\ Goto(h, "invoke") /\ Quietly
     \/ /\ Answered(h, "dispatch", {"error", "completed", "outcome_unknown"})
        /\ ReleaseAndFail(h)
  /\ Locally /\ UNCHANGED <<stage, provider>>

Invoke(h) ==
  /\ pc[h] = "invoke"
  /\ Goto(h, "calling")
  /\ provider' = [provider EXCEPT ![h] = "called"]
  /\ Quietly /\ Locally /\ UNCHANGED stage

\* The ledger's marker failed or the provider is not configured.
NotStarted(h) ==
  /\ pc[h] = "invoke"
  /\ ReleaseAndFail(h)
  /\ Locally /\ UNCHANGED <<stage, provider>>

Evaluated(h) ==
  /\ pc[h] = "calling" /\ provider[h] = "billed"
  /\ Send(h, "complete", 1, req[h])
  /\ Quietly /\ Locally /\ UNCHANGED <<stage, provider>>

\* A definite refusal; OpenAI's insufficient_quota may turn to Gemini.
Refused(h) ==
  /\ pc[h] = "calling" /\ provider[h] = "refused"
  /\ \/ TurnToGemini(h)
     \/ ReleaseAndFail(h) /\ UNCHANGED stage
  /\ Locally /\ UNCHANGED provider

\* Mutant: an ambiguous provider error is reported as a failure.
UnclearReleases(h) ==
  /\ pc[h] = "calling"
  /\ ReleaseAndFail(h)
  /\ Locally /\ UNCHANGED <<stage, provider>>

\* AiOperationOutcomeUnknownError, whatever the provider did.
Unclear(h) ==
  /\ pc[h] = "calling"
  /\ Send(h, "unknown", 1, req[h])
  /\ Quietly /\ Locally /\ UNCHANGED <<stage, provider>>

CompleteAgain(h) ==
  IF try[h] = 1 THEN Send(h, "complete", 2, req[h]) ELSE Send(h, "unknown", 1, req[h])

\* Mutant: the paid evaluation is shown although the row stores another one.
HearCompleteShowsOwn(h) ==
  /\ \/ Answered(h, "complete", {"completed"}) /\ Respond(h, "result", h)
     \/ /\ Answered(h, "complete", {"error", "outcome_unknown"})
        /\ CompleteAgain(h) /\ Quietly
  /\ Locally /\ UNCHANGED <<stage, provider>>

HearComplete(h) ==
  /\ \/ Answered(h, "complete", {"completed"}) /\ Respond(h, "result", reply[h].author)
     \/ /\ Answered(h, "complete", {"error", "outcome_unknown"})
        /\ CompleteAgain(h) /\ Quietly
  /\ Locally /\ UNCHANGED <<stage, provider>>

HearUnknown(h) ==
  /\ \/ Answered(h, "unknown", {"completed"}) /\ Respond(h, "result", reply[h].author)
     \/ Answered(h, "unknown", {"outcome_unknown"}) /\ Respond(h, "unknown", Nobody)
     \/ Answered(h, "unknown", {"error"}) /\ Respond(h, "locked", Nobody)
  /\ Locally /\ UNCHANGED <<stage, provider>>

HearRelease(h) ==
  /\ pc[h] = "release" /\ reply[h] # NoReply
  /\ Goto(h, "done")
  /\ Quietly /\ Locally /\ UNCHANGED <<stage, provider>>

\* A request or an answer is lost, or the database raises.
RpcFails(h) ==
  /\ \/ pc[h] = "reserve" /\ Respond(h, "failed", Nobody)
     \/ pc[h] = "dispatch" /\ ReleaseAndFail(h)
     \/ pc[h] = "complete" /\ CompleteAgain(h) /\ Quietly
     \/ pc[h] = "unknown" /\ Respond(h, "locked", Nobody)
     \/ pc[h] = "release" /\ Goto(h, "done") /\ Quietly
  /\ Locally /\ UNCHANGED <<stage, provider>>

Crash(h) ==
  /\ pc[h] \notin {"idle", "done", "dead"}
  /\ Goto(h, "dead")
  /\ Quietly /\ Locally /\ UNCHANGED <<stage, provider>>

Handler(h) ==
  \/ Arrive(h) \/ HearReserve(h) \/ Budget(h) \/ HearDispatch(h) \/ Invoke(h)
  \/ NotStarted(h) \/ Evaluated(h) \/ Refused(h) \/ Unclear(h)
  \/ HearComplete(h) \/ HearUnknown(h) \/ HearRelease(h) \/ RpcFails(h)

-----------------------------------------------------------------------------
(* The environment.                                                        *)

Decides(h) ==
  /\ provider[h] = "called"
  /\ \E what \in {"billed", "refused"} : provider' = [provider EXCEPT ![h] = what]
  /\ UNCHANGED <<dbVars, req, pc, stage, try, wire, reply, response, shown, forgiven>>

Tick ==
  /\ clock < MaxTime
  /\ clock' = clock + 1
  /\ UNCHANGED <<rows, attempts, migrated, handlerVars, forgiven>>

Migrate ==
  /\ ~migrated
  /\ migrated' = TRUE
  /\ UNCHANGED <<rows, attempts, clock, handlerVars, forgiven>>

\* Another instance of the application, or one from before the reservations,
\* saves an attempt for the same account.
OtherInstanceSaves ==
  /\ \E o \in OldAttempts :
       /\ ~Saved(o.slot)
       /\ attempts' = [attempts EXCEPT ![o.slot] =
             [id |-> o.id, valid |-> o.valid, author |-> Nobody, at |-> clock]]
  /\ UNCHANGED <<rows, clock, migrated, handlerVars, forgiven>>

\* Deleting an attempt deletes the completed reservation that refers to it and
\* asks for a new evaluation; what was bought before is bought and gone.
DeleteAttempt ==
  /\ Deletions
  /\ \E s \in Slots :
       LET gone == {k \in Keys : rows[k].status = "completed" /\ rows[k].attempt = s}
       IN  /\ Saved(s)
           /\ attempts' = [attempts EXCEPT ![s] = NoAttempt]
           /\ rows' = [k \in Keys |-> IF k \in gone THEN NoRow ELSE rows[k]]
           /\ forgiven' = forgiven \cup
                 {h \in Handlers :
                    /\ pc[h] \notin {"idle", "reserve"} \/ reply[h] # NoReply
                    /\ \E k \in gone : Identity[req[h].fp] = Identity[rows[k].fp]}
  /\ UNCHANGED <<clock, migrated, handlerVars>>

\* The browser asks again under the row's own key: what that reserve does
\* short of taking a lease, which only a handler of this model does.
AskAgain(now) ==
  /\ migrated
  /\ \E k \in Keys :
       LET m == [from |-> Nobody, op |-> "reserve", n |-> 1, key |-> k, fp |-> rows[k].fp]
       IN  Present(k) /\ (ReservePromotes(m) \/ ReserveTerminalizes(m, now))

-----------------------------------------------------------------------------
\* A deployment may find one handler of the previous application in the
\* middle of its provider call, under the legacy identity.
InFlight(h, r) ==
  /\ rows = [k \in Keys |-> IF k = r.key
                THEN [Leased(h, r.fp, 0) EXCEPT !.dispatched = TRUE] ELSE NoRow]
  /\ req = [i \in Handlers |-> r]
  /\ pc = [i \in Handlers |-> IF i = h THEN "calling" ELSE "idle"]
  /\ provider = [i \in Handlers |-> IF i = h THEN "called" ELSE "idle"]

Fresh ==
  /\ rows = [k \in Keys |-> NoRow]
  /\ req = [h \in Handlers |-> CHOOSE r \in Requests : TRUE]
  /\ pc = [h \in Handlers |-> "idle"]
  /\ provider = [h \in Handlers |-> "idle"]

Init ==
  /\ \/ Fresh
     \/ ~Rollout /\ \E h \in Handlers, q \in Requests :
          LegacyPair[q].fp \in Legacy /\ InFlight(h, LegacyPair[q])
  /\ migrated = ~Rollout
  /\ attempts = [s \in Slots |-> NoAttempt]
  /\ clock = 0
  /\ stage = [h \in Handlers |-> "openai"]
  /\ try = [h \in Handlers |-> 1]
  /\ wire = {}
  /\ reply = [h \in Handlers |-> NoReply]
  /\ response = [h \in Handlers |-> "none"]
  /\ shown = [h \in Handlers |-> Nobody]
  /\ forgiven = {}

Next ==
  \/ \E h \in Handlers : Handler(h) \/ Crash(h) \/ Decides(h)
  \/ \E m \in wire : Lose(m)
  \/ \E now \in Starts : AskAgain(now) \/ \E m \in wire : Serve(m, now)
  \/ Tick \/ Migrate \/ OtherInstanceSaves \/ DeleteAttempt

Spec == Init /\ [][Next]_vars

\* The clock runs, the migration is applied, and the browser asks again.
Returns == WF_vars(Tick) /\ WF_vars(Migrate) /\ WF_vars(AskAgain(clock))

FairSpec == Spec /\ Returns

-----------------------------------------------------------------------------
IdOf(h) == Identity[req[h].fp]

\* The handlers that may have been charged for an evaluation still wanted.
Buyers(id) == {h \in Handlers \ forgiven :
                 provider[h] \in {"called", "billed"} /\ IdOf(h) = id}

\* However handlers, retries, tabs and expiries interleave, one evaluation is
\* paid for at most once until its stored attempt is deleted.
OnePaidEvaluation == \A id \in Identities : Cardinality(Buyers(id)) <= 1

KeepsLiveLease ==
  \A k \in Keys :
    rows[k].status = "running" /\ rows[k].expires > clock /\ rows'[k] # rows[k] =>
      \/ rows'[k].status = "completed"
      \/ \E m \in wire \ wire' : m.from = rows[k].token

\* While a lease is live only its holder's own requests change it, however
\* late another holder's requests arrive; a cached attempt may complete it.
LiveLeaseIsKept == [][KeepsLiveLease]_vars

\* What a response says stays true: an evaluation shown is the one the history
\* keeps, also when the completion was retried or another instance stored one
\* first; and an answer that lets the browser try again was not paid for.
KeepsWhatItSaid ==
  /\ \A h \in Handlers \ forgiven : response[h] = "result" =>
       \E k \in Keys : /\ rows[k].status = "completed" /\ rows[k].author = shown[h]
                       /\ Identity[rows[k].fp] = IdOf(h)
  /\ \A h \in Handlers : response[h] \in {"failed", "busy", "conflict"} =>
       provider[h] \in {"idle", "refused"}

\* A paid evaluation ends in a terminal row, also when its handler died or
\* could not store or terminalize it.
Billed(h)  == provider[h] = "billed"
Settled(h) == h \in forgiven \/ rows[req[h].key].status \in {"completed", "outcome_unknown"}
PaidIsSettled == \A h \in Handlers : Billed(h) ~> Settled(h)

-----------------------------------------------------------------------------
\* The refinement: a row's status and marker are the verdict, and what its
\* handlers may have been charged is what was bought.
RowsOf(id) == {k \in Keys : Present(k) /\ Identity[rows[k].fp] = id}
Verdict(id) ==
  LET some(status) == \E k \in RowsOf(id) : rows[k].status = status
  IN  IF some("completed") THEN "stored"
      ELSE IF some("outcome_unknown") THEN "unknown"
      ELSE IF \E k \in RowsOf(id) : rows[k].status = "running" /\ rows[k].dispatched THEN "sealed"
      ELSE "open"

Promise == INSTANCE PaidOnce WITH
  Evaluations <- Identities,
  Payers <- Handlers,
  verdict <- [id \in Identities |-> Verdict(id)],
  bought <- [id \in Identities |-> Buyers(id)]

\* The reservations and their handlers implement PaidOnce: Promise!Spec, said of
\* the steps that change what the refinement reads.
KeepsPromise ==
  /\ Promise!Init
  /\ [][\/ UNCHANGED <<rows, req, provider, forgiven>>
        \/ UNCHANGED Promise!paidVars \/ Promise!Next]_vars
=============================================================================
