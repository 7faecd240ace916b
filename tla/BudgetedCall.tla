---------------------------- MODULE BudgetedCall ----------------------------
(***************************************************************************)
(* withAiBudget of web/src/lib/ai/budget.ts: one server process per call   *)
(* drives its reservation through the ledger and invokes the provider      *)
(* between the ledger's marker and its finalization.                       *)
(*                                                                         *)
(* Every ledger RPC is an HTTP request that may be lost before or after it *)
(* commits and may commit after its caller gave up (wire); it is tried     *)
(* twice under the same reservation id.  The process may die at any        *)
(* instant; the provider works on, and bills, without it.                  *)
(***************************************************************************)
EXTENDS AiBudgetLedger

CONSTANTS Calls,     \* the calls followed here; their ids are fresh UUIDs
          Ask,       \* [Calls -> Amounts], reservedUsdMicros of each call
          Attempts,  \* BUDGET_RPC_ATTEMPTS, 2 in the code
          LastStart, \* bound: no call begins after this instant
          LastServe  \* bound: no request is served after this instant

ASSUME CallAssumption ==
  /\ Calls \subseteq Ids
  /\ Ask \in [Calls -> Amounts]
  /\ Attempts \in Nat \ {0}
  /\ LastStart \in Nat /\ LastServe \in Nat

Ops == {"reserve", "dispatch", "finalize", "charge", "release"}

VARIABLES answer,   \* committed answer on its way back, NoRow when there is none
          pc,       \* where the process of the call stands; an op while it awaits that RPC
          try,      \* attempt of the RPC it awaits
          wire,     \* ledger requests sent and neither served nor lost
          marked,   \* the application's own dispatch marker is durable
          provider, \* what the provider knows of the call
          usage,    \* the cost to charge: what was reserved until usage is reported
          outcome   \* what withAiBudget returned or threw, or will throw

callVars == <<pc, try, wire, answer, marked, provider, usage, outcome>>
vars == <<ledgerVars, callVars>>

Request(c, op, n) == [call |-> c, op |-> op, try |-> n]

\* client.rpc, first attempt: the process now awaits op.
Send(c, op) ==
  /\ pc' = [pc EXCEPT ![c] = op]
  /\ try' = [try EXCEPT ![c] = 1]
  /\ wire' = wire \cup {Request(c, op, 1)}

Finish(c, what) ==
  /\ pc' = [pc EXCEPT ![c] = "done"]
  /\ outcome' = [outcome EXCEPT ![c] = what]
  /\ UNCHANGED <<try, wire>>

\* releaseAiBudget and then the error: best effort, so the error is decided.
ReleaseAndThrow(c, what) ==
  /\ Send(c, "release")
  /\ outcome' = [outcome EXCEPT ![c] = what]

-----------------------------------------------------------------------------
(* The steps of the process between RPCs.                                  *)

Begin(c) ==
  /\ pc[c] = "idle" /\ clock <= LastStart
  /\ Send(c, "reserve")
  /\ UNCHANGED <<ledgerVars, answer, marked, provider, usage, outcome>>

\* beforeProviderDispatch: the application's marker commits, or the hook
\* throws with the marker set (its answer was lost) or not.
MarkApplication(c) ==
  /\ pc[c] = "hook"
  /\ \/ /\ marked' = [marked EXCEPT ![c] = TRUE]
        /\ Send(c, "dispatch")
        /\ UNCHANGED outcome
     \/ /\ marked' \in {marked, [marked EXCEPT ![c] = TRUE]}
        /\ ReleaseAndThrow(c, "failed")
  /\ UNCHANGED <<ledgerVars, answer, provider, usage>>

Invoke(c) ==
  /\ pc[c] = "invoke"
  /\ pc' = [pc EXCEPT ![c] = "calling"]
  /\ provider' = [provider EXCEPT ![c] = "called"]
  /\ UNCHANGED <<ledgerVars, answer, try, wire, marked, usage, outcome>>

\* invokeProvider throws AiOperationNotStartedError.
NotStarted(c) ==
  /\ pc[c] = "invoke"
  /\ ReleaseAndThrow(c, "retryable")
  /\ UNCHANGED <<ledgerVars, answer, marked, provider, usage>>

ProviderSucceeds(c) ==
  /\ pc[c] = "calling" /\ provider[c] = "billed"
  /\ \E cost \in Charges : usage' = [usage EXCEPT ![c] = cost]
  /\ Send(c, "finalize")
  /\ UNCHANGED <<ledgerVars, answer, marked, provider, outcome>>

\* isAiOperationSafeToRetry: a 4xx other than 408 is a definite refusal.
ProviderRefused(c) ==
  /\ pc[c] = "calling" /\ provider[c] = "refused"
  /\ ReleaseAndThrow(c, "retryable")
  /\ UNCHANGED <<ledgerVars, answer, marked, provider, usage>>

\* Mutant: every provider error is taken for a refusal.
ProviderUnclearReleases(c) ==
  /\ pc[c] = "calling"
  /\ ReleaseAndThrow(c, "retryable")
  /\ UNCHANGED <<ledgerVars, answer, marked, provider, usage>>

\* A timeout, a 408, a 5xx or a dropped connection, whatever the provider did.
ProviderUnclear(c) ==
  /\ pc[c] = "calling"
  /\ Send(c, "charge")
  /\ outcome' = [outcome EXCEPT ![c] = "unknown"]
  /\ UNCHANGED <<ledgerVars, answer, marked, provider, usage>>

\* The function instance is killed.
Crash(c) ==
  /\ pc[c] \notin {"idle", "done", "dead"}
  /\ pc' = [pc EXCEPT ![c] = "dead"]
  /\ answer' = [answer EXCEPT ![c] = NoRow]
  /\ UNCHANGED <<ledgerVars, try, wire, marked, provider, usage, outcome>>

-----------------------------------------------------------------------------
(* RPCs.                                                                   *)

\* Mutant: an unconfirmed dispatch marker is taken for a confirmed one.
GivesUpAndInvokes(c) ==
  \/ pc[c] = "reserve" /\ ReleaseAndThrow(c, "failed")
  \/ /\ pc[c] = "dispatch"
     /\ pc' = [pc EXCEPT ![c] = "invoke"]
     /\ UNCHANGED <<try, wire, outcome>>
  \/ pc[c] = "finalize" /\ Finish(c, "result")
  \/ pc[c] \in {"charge", "release"} /\ Finish(c, outcome[c])

\* Both attempts failed.  An unconfirmed reserve or marker releases this id;
\* an unconfirmed finalize still returns the paid result, and the retained
\* row is closed by a later sweep.
GivesUp(c) ==
  \/ pc[c] \in {"reserve", "dispatch"} /\ ReleaseAndThrow(c, "failed")
  \/ pc[c] = "finalize" /\ Finish(c, "result")
  \/ pc[c] \in {"charge", "release"} /\ Finish(c, outcome[c])

\* callBudgetRpc: an attempt ends without an answer, with a raised exception
\* or with an answer lost on the way.
AttemptFails(c) ==
  /\ pc[c] \in Ops
  /\ answer' = [answer EXCEPT ![c] = NoRow]
  /\ IF try[c] < Attempts
       THEN /\ try' = [try EXCEPT ![c] = @ + 1]
            /\ wire' = wire \cup {Request(c, pc[c], try[c] + 1)}
            /\ UNCHANGED <<pc, outcome>>
       ELSE GivesUp(c)
  /\ UNCHANGED <<ledgerVars, marked, provider, usage>>

\* The answer arrives.  "none" in an answered reserve is daily_exceeded; a
\* terminal row in it, or anything but a running dispatched row after the
\* marker, is an AiBudgetConfigurationError.
Receive(c) ==
  /\ pc[c] \in Ops /\ answer[c] # NoRow
  /\ answer' = [answer EXCEPT ![c] = NoRow]
  /\ LET row == answer[c]
     IN  \/ /\ pc[c] = "reserve" /\ row.status = "running"
            /\ pc' = [pc EXCEPT ![c] = "hook"]
            /\ UNCHANGED <<try, wire, outcome>>
         \/ pc[c] = "reserve" /\ row.status = "exceeded" /\ Finish(c, "exceeded")
         \/ pc[c] = "reserve" /\ row.status \in {"finalized", "released"} /\ Finish(c, "failed")
         \/ /\ pc[c] = "dispatch" /\ row.status = "running" /\ row.dispatched
            /\ pc' = [pc EXCEPT ![c] = "invoke"]
            /\ UNCHANGED <<try, wire, outcome>>
         \/ pc[c] = "dispatch" /\ row.status # "running" /\ ReleaseAndThrow(c, "failed")
         \/ pc[c] = "finalize" /\ Finish(c, "result")
         \/ pc[c] \in {"charge", "release"} /\ Finish(c, outcome[c])
  /\ UNCHANGED <<ledgerVars, marked, provider, usage>>

\* What a request does in the database when its transaction commits.
Commits(r, now) ==
  \/ r.op = "reserve" /\ Reserve(r.call, Ask[r.call], now)
  \/ r.op = "dispatch" /\ MarkDispatched(r.call, now)
  \/ r.op = "finalize" /\ Finalize(r.call, usage[r.call], now)
  \/ r.op = "charge" /\ Finalize(r.call, Ask[r.call], now)
  \/ r.op = "release" /\ Release(r.call, now)

Awaited(r) == pc[r.call] = r.op /\ try[r.call] = r.try

\* A request commits at any later instant, also long after its caller has
\* gone on; only the attempt still awaited can be answered.
Serve(r, now) ==
  /\ r \in wire /\ clock <= LastServe
  /\ Commits(r, now)
  /\ wire' = wire \ {r}
  /\ answer' = IF Awaited(r)
                 THEN [answer EXCEPT ![r.call] =
                         IF rows'[r.call].status = "none"
                           THEN [NoRow EXCEPT !.status = "exceeded"]
                           ELSE rows'[r.call]]
                 ELSE answer
  /\ UNCHANGED <<clock, pc, try, marked, provider, usage, outcome>>

\* The request never commits: lost on the way, or its transaction raised.
Lose(r) ==
  /\ r \in wire
  /\ wire' = wire \ {r}
  /\ UNCHANGED <<ledgerVars, pc, try, answer, marked, provider, usage, outcome>>

-----------------------------------------------------------------------------
(* The environment.                                                        *)

\* The provider decides on a request it has received, process or no process.
ProviderBills(c) ==
  /\ provider[c] = "called"
  /\ provider' = [provider EXCEPT ![c] = "billed"]
  /\ UNCHANGED <<ledgerVars, pc, try, wire, answer, marked, usage, outcome>>

ProviderRefuses(c) ==
  /\ provider[c] = "called"
  /\ provider' = [provider EXCEPT ![c] = "refused"]
  /\ UNCHANGED <<ledgerVars, pc, try, wire, answer, marked, usage, outcome>>

\* Any other RPC of the account: what it does to these rows is its sweep.
Visit(now) == OnlySweep(now) /\ UNCHANGED <<clock, callVars>>

Time == Tick /\ UNCHANGED callVars

Init ==
  /\ LedgerInit
  /\ pc = [c \in Calls |-> "idle"]
  /\ try = [c \in Calls |-> 0]
  /\ wire = {}
  /\ answer = [c \in Calls |-> NoRow]
  /\ marked = [c \in Calls |-> FALSE]
  /\ provider = [c \in Calls |-> "idle"]
  /\ usage = Ask
  /\ outcome = [c \in Calls |-> "none"]

Process(c) ==
  \/ Begin(c) \/ MarkApplication(c) \/ Invoke(c) \/ NotStarted(c)
  \/ ProviderSucceeds(c) \/ ProviderRefused(c) \/ ProviderUnclear(c)
  \/ AttemptFails(c) \/ Receive(c)

Next ==
  \/ \E c \in Calls : Process(c) \/ Crash(c) \/ ProviderBills(c) \/ ProviderRefuses(c)
  \/ \E r \in wire : Lose(r)
  \/ \E now \in Starts : Visit(now) \/ \E r \in wire : Serve(r, now)
  \/ Time

Spec == Init /\ [][Next]_vars

\* The clock runs and the account comes back: nothing else closes a row whose
\* process died, because the sweep runs inside the account's own RPCs.
Returns == WF_vars(Time) /\ WF_vars(Visit(clock))

FairSpec == Spec /\ Returns

-----------------------------------------------------------------------------
CallTypeOK ==
  /\ LedgerTypeOK
  /\ pc \in [Calls -> Ops \cup {"idle", "hook", "invoke", "calling", "done", "dead"}]
  /\ try \in [Calls -> 0..Attempts]
  /\ wire \subseteq [call : Calls, op : Ops, try : 1..Attempts]
  /\ marked \in [Calls -> BOOLEAN]
  /\ provider \in [Calls -> {"idle", "called", "billed", "refused"}]
  /\ usage \in [Calls -> Charges \cup Amounts]
  /\ outcome \in [Calls -> {"none", "result", "retryable", "failed", "exceeded", "unknown"}]

\* The provider never sees a call before both durable markers are set, so a
\* crash cannot leave a paid call behind a reclaimable reservation.
ProviderNeedsBothMarkers ==
  \A c \in Calls : provider[c] # "idle" => rows[c].dispatched /\ marked[c]

\* A call the provider may have billed never has its reservation released, by
\* whichever delayed, repeated or other request of whatever process.
MaybePaidIsNeverReleased ==
  \A c \in Calls : provider[c] \in {"called", "billed"}
                     => rows[c].status \in {"running", "finalized"}

\* An error other than AiOperationOutcomeUnknownError tells the caller that
\* buying again is safe; it is: the provider did not take this call.
RetryableMeansUnpaid ==
  \A c \in Calls :
    pc[c] = "done" /\ outcome[c] \in {"retryable", "failed", "exceeded"}
      => provider[c] \in {"idle", "refused"}

\* What the provider may have been paid for the calls of a day stays within that
\* day's limit, at the reported cost where one came back, as far as it was
\* reserved for, and at the full reservation where none did, through crashes,
\* lost finalizations and late admissions.
SpendBound == [c \in Calls |-> Least(usage[c], Ask[c])]
PaidOn(d) == {c \in Calls : provider[c] \in {"called", "billed"} /\ rows[c].day = d}
ProviderSpendsWithinLimit ==
  \A d \in Days : Total(PaidOn(d), SpendBound, AmountCap) <= DailyLimit

\* Every call the provider may have billed is charged in the end, also when
\* its process died or its finalization was lost.
MaybePaidIsCharged ==
  \A c \in Calls : provider[c] = "billed" ~> rows[c].status = "finalized"

\* No reservation holds budget for ever.
HoldsEnd == \A c \in Calls : rows[c].status = "running" ~> rows[c].status # "running"
=============================================================================
