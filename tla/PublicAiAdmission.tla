-------------------------- MODULE PublicAiAdmission --------------------------
(***************************************************************************)
(* One AI turn of a guest or an ordinary account: the quota of turns per   *)
(* hashed identity (20260805100000, reserve as of 20260831171239), the     *)
(* site-wide budget (20260805110000) and the public path of                *)
(* POST /api/coach/evaluate with withPublicAiSiteBudget, which drives both. *)
(*                                                                         *)
(* Quota RPCs hold the advisory locks of the identities or the row, budget *)
(* RPCs the site's lock, the dispatch marker both rows: a transaction is   *)
(* one step, but its now() is the instant it began.  A call is sent once;  *)
(* it may be lost before or after it commits and may commit after its      *)
(* handler went on.                                                        *)
(***************************************************************************)
EXTENDS Integers, FiniteSets, Totals

CONSTANTS
  Turns,         \* HTTP requests; each creates at most one quota row, its own
  Subjects,      \* hashed ips, devices and accounts
  Requests,      \* [principal, subjects, key, fp] browsers may send
  Limit,         \* turns per subject and window, 3 in the code
  Window,        \* 24 hours
  Lease,         \* of a quota row, 600 seconds
  HoldLease,     \* of an undispatched budget row, 10 minutes
  DispatchLease, \* of a dispatched one, 2 hours
  Price,         \* reservedUsdMicros
  Costs,         \* what a paid answer may cost by its reported usage
  CostCap,       \* bound of Price and Costs
  Buckets,       \* the days and months of the site's counters
  BucketsOf,     \* [Times -> SUBSET Buckets]
  LimitOf,       \* [Buckets -> daily or monthly limit]
  LockWait,      \* how old now() may be once the locks are held
  MaxTime,       \* bound of the clock
  LastServe      \* bound: no request is served after this instant

Times == 0..MaxTime

ASSUME AdmissionAssumption ==
  /\ IsFiniteSet(Turns)
  /\ \A r \in Requests : r.principal \in r.subjects /\ r.subjects \subseteq Subjects
  /\ {Limit, Window, Lease, HoldLease, DispatchLease, CostCap, LockWait,
      MaxTime, LastServe} \subseteq Nat
  /\ Window # 0
  /\ Price \in 1..CostCap /\ Costs \subseteq 0..CostCap
  /\ BucketsOf \in [Times -> SUBSET Buckets]
  /\ LimitOf \in [Buckets -> Nat]

VARIABLES
  quota,    \* public_ai_quota_reservations, by the turn that created the row
  windows,  \* window_started_at by subject, NoWindow before the first
  site,     \* public_ai_site_budget_reservations, by the same id
  counters, \* public_ai_site_budget_daily and _monthly, by bucket
  clock,
  ask,      \* the request of the turn
  pc,       \* where its handler stands; the RPC it awaits
  wire,     \* [turn, op] sent and neither served nor lost
  reply,    \* committed answer on its way back
  provider, \* what the provider made of the turn
  cost,     \* cost of the usage it reported
  retryable, \* turns that ended in an error that is safe to retry
  late      \* ghost: turns whose marker committed when their lease was over

dbVars == <<quota, windows, site, counters, clock, late>>
turnVars == <<ask, pc, wire, reply, provider, cost, retryable>>
vars == <<dbVars, turnVars>>

NoWindow == -1
NoTurn == [status |-> "none", expires |-> 0, created |-> 0]
NoHold == [status |-> "none", dispatched |-> FALSE, expires |-> 0, actual |-> 0, at |-> 0]
NoCount == [reserved |-> 0, actual |-> 0, count |-> 0]

Starts == {t \in Times : clock - LockWait <= t /\ t <= clock}

Consumed == {"dispatched", "completed", "outcome_unknown"}

-----------------------------------------------------------------------------
(* Answers and sending.                                                    *)

Awaited(m) == pc[m.turn] = m.op

Answers(m, status) ==
  /\ wire' = wire \ {m}
  /\ reply' = IF Awaited(m) THEN [reply EXCEPT ![m.turn] = status] ELSE reply
  /\ UNCHANGED <<clock, ask, pc, provider, cost, retryable>>

OnlyQuota == UNCHANGED <<site, counters, late>>
OnlySite  == UNCHANGED <<quota, windows, late>>

-----------------------------------------------------------------------------
(* reserve_public_ai_quota.                                                *)

\* The principal's expired leases are released first, whatever follows.
Reclaimed(t, now) ==
  [u \in Turns |->
     IF quota[u].status = "reserved" /\ quota[u].expires <= now
          /\ ask[u].principal = ask[t].principal
       THEN [quota[u] EXCEPT !.status = "released"] ELSE quota[u]]

\* The principal's live rows; at most one keeps a key, at most one a fingerprint.
Mine(Q, t)    == {u \in Turns : /\ Q[u].status \notin {"none", "released"}
                                /\ ask[u].principal = ask[t].principal}
SameKey(Q, t) == {u \in Mine(Q, t) : ask[u].key = ask[t].key}
SameFp(Q, t)  == {u \in Mine(Q, t) : ask[u].fp = ask[t].fp}

\* A subject's window is opened by its first turn and replaced when it ended.
Opened(t, now) ==
  [s \in Subjects |->
     IF s \in ask[t].subjects /\ (windows[s] = NoWindow \/ windows[s] + Window <= now)
       THEN now ELSE windows[s]]

InWindow(Q, s, start) ==
  {u \in Turns : /\ Q[u].status # "none" /\ s \in ask[u].subjects
                 /\ Q[u].created \in start..(start + Window - 1)}

\* Mutant: turns that are only reserved are not counted.
UsedByDispatched(Q, s, start, now) ==
  {u \in InWindow(Q, s, start) : Q[u].status \in Consumed}

Used(Q, s, start, now) ==
  {u \in InWindow(Q, s, start) :
     \/ Q[u].status \in Consumed
     \/ Q[u].status = "reserved" /\ Q[u].expires > now}

Exhausted(Q, t, W, now) ==
  \E s \in ask[t].subjects : Cardinality(Used(Q, s, W[s], now)) >= Limit

\* Mutant: only the key is looked up.
AdmitByKey(m, now) ==
  LET t == m.turn
      Q == Reclaimed(t, now)
      W == Opened(t, now)
  IN  /\ \/ /\ SameKey(Q, t) # {}
            /\ quota' = Q /\ UNCHANGED windows /\ Answers(m, "taken")
         \/ /\ SameKey(Q, t) = {}
            /\ windows' = W
            /\ IF Exhausted(Q, t, W, now)
                 THEN quota' = Q /\ Answers(m, "exceeded")
                 ELSE /\ quota' = [Q EXCEPT ![t] = [status |-> "reserved",
                                     expires |-> now + Lease, created |-> now]]
                      /\ Answers(m, "reserved")
      /\ OnlyQuota

\* A known key or fingerprint answers its row, or a conflict; none of these
\* answers starts a provider call.
Admit(m, now) ==
  LET t == m.turn
      Q == Reclaimed(t, now)
      W == Opened(t, now)
  IN  /\ \/ /\ SameKey(Q, t) \cup SameFp(Q, t) # {}
            /\ quota' = Q /\ UNCHANGED windows /\ Answers(m, "taken")
         \/ /\ SameKey(Q, t) \cup SameFp(Q, t) = {}
            /\ windows' = W
            /\ IF Exhausted(Q, t, W, now)
                 THEN quota' = Q /\ Answers(m, "exceeded")
                 ELSE /\ quota' = [Q EXCEPT ![t] = [status |-> "reserved",
                                     expires |-> now + Lease, created |-> now]]
                      /\ Answers(m, "reserved")
      /\ OnlyQuota

\* A quota row moves on under its own lock.
Moves(m, from, to, otherwise) ==
  /\ IF quota[m.turn].status = from
       THEN /\ quota' = [quota EXCEPT ![m.turn].status = to]
            /\ Answers(m, to)
       ELSE /\ Answers(m, otherwise)
            /\ UNCHANGED quota
  /\ UNCHANGED windows /\ OnlyQuota

\* complete_public_ai_quota and mark_public_ai_quota_outcome_unknown: a
\* terminal row answers itself, any other row refuses.
Complete(m) == Moves(m, "dispatched", "completed", quota[m.turn].status)
Unknown(m)  == Moves(m, "dispatched", "outcome_unknown", quota[m.turn].status)

\* release_public_ai_quota: the token names the lease; its expiry is not read.
GiveBack(m) == Moves(m, "reserved", "released", quota[m.turn].status)

-----------------------------------------------------------------------------
(* The site's budget.                                                      *)

Held(S, b)    == {u \in Turns : S[u].status = "reserved" /\ b \in BucketsOf[S[u].at]}
Charged(S, b) == {u \in Turns : S[u].status = "finalized" /\ b \in BucketsOf[S[u].at]}
Actual(S)     == [u \in Turns |-> S[u].actual]

\* Mutant: the counters of today, not of the admission, are settled.
SettleToday(C, before, after) ==
  [b \in Buckets |->
     LET gone == {u \in Turns : /\ before[u].status = "reserved"
                                /\ after[u].status # "reserved"
                                /\ b \in BucketsOf[clock]}
         paid == {u \in gone : after[u].status = "finalized"}
     IN  [reserved |-> Greatest(0, C[b].reserved - Price * Cardinality(gone)),
          actual   |-> C[b].actual + Total(paid, Actual(after), CostCap),
          count    |-> C[b].count + Cardinality(paid)]]

\* What rows that leave "reserved" do to the counters of their admission.
Settle(C, before, after) ==
  [b \in Buckets |->
     LET gone == Held(before, b) \ Held(after, b)
         paid == {u \in gone : after[u].status = "finalized"}
     IN  [reserved |-> Greatest(0, C[b].reserved - Price * Cardinality(gone)),
          actual   |-> C[b].actual + Total(paid, Actual(after), CostCap),
          count    |-> C[b].count + Cardinality(paid)]]

Finalized(row, charge) == [row EXCEPT !.status = "finalized", !.actual = charge]
Released(row)          == [row EXCEPT !.status = "released"]

\* Mutant: an expired row is always released.
SweptAlwaysReleased(now) ==
  [u \in Turns |-> IF site[u].status = "reserved" /\ site[u].expires <= now
                     THEN Released(site[u]) ELSE site[u]]

\* expire_public_ai_site_budget_reservations, at the head of every budget RPC
\* and of the marker.
Swept(now) ==
  [u \in Turns |->
     IF site[u].status = "reserved" /\ site[u].expires <= now
       THEN IF site[u].dispatched THEN Finalized(site[u], Price) ELSE Released(site[u])
       ELSE site[u]]
SweptCounters(now) == Settle(counters, site, Swept(now))

OnlySweep(now) == site' = Swept(now) /\ counters' = SweptCounters(now)

SweepAndClose(now, after) ==
  /\ site' = after
  /\ counters' = Settle(SweptCounters(now), Swept(now), after)

Fits(C, now) ==
  \A b \in BucketsOf[now] : C[b].actual + C[b].reserved + Price <= LimitOf[b]

\* reserve_public_ai_site_budget; it raises (is lost) when its quota row is no
\* longer reserved, but does not look at that row's expiry.
Hold(m, now) ==
  LET t == m.turn
      C == SweptCounters(now)
  IN  /\ Swept(now)[t].status = "none"
      /\ quota[t].status = "reserved"
      /\ IF Fits(C, now)
           THEN /\ site' = [Swept(now) EXCEPT ![t] =
                      [NoHold EXCEPT !.status = "reserved", !.at = now,
                                     !.expires = now + HoldLease]]
                /\ counters' = [b \in Buckets |->
                      IF b \in BucketsOf[now]
                        THEN [C[b] EXCEPT !.reserved = @ + Price] ELSE C[b]]
                /\ Answers(m, "held")
           ELSE OnlySweep(now) /\ Answers(m, "exceeded")
      /\ OnlySite

\* mark_public_ai_admission_dispatched: both rows or neither.
Mark(m, now) ==
  LET t == m.turn
      S == Swept(now)
  IN  \/ /\ quota[t].status = "reserved" /\ quota[t].expires > now
         /\ S[t].status = "reserved"
         /\ quota' = [quota EXCEPT ![t].status = "dispatched"]
         /\ site' = [S EXCEPT ![t].dispatched = TRUE,
                              ![t].expires = Greatest(@, now + DispatchLease)]
         /\ counters' = SweptCounters(now)
         /\ late' = IF quota[t].expires <= clock THEN late \cup {t} ELSE late
         /\ Answers(m, "dispatched")
         /\ UNCHANGED windows
      \/ /\ \/ quota[t].status # "reserved" \/ quota[t].expires <= now
            \/ S[t].status # "reserved"
         /\ OnlySweep(now) /\ Answers(m, "refused") /\ OnlySite

\* finalize_public_ai_site_budget
Finalize(m, charge, now) ==
  LET t == m.turn
  IN  /\ \/ /\ Swept(now)[t].status = "reserved" /\ Swept(now)[t].dispatched
            /\ SweepAndClose(now, [Swept(now) EXCEPT ![t] = Finalized(@, charge)])
         \/ Swept(now)[t].status \in {"finalized", "released"} /\ OnlySweep(now)
      /\ Answers(m, "finalized") /\ OnlySite

\* release_public_ai_site_budget: a dispatched row is not released.
Unhold(m, now) ==
  LET t == m.turn
  IN  /\ IF Swept(now)[t].status = "reserved" /\ ~Swept(now)[t].dispatched
           THEN SweepAndClose(now, [Swept(now) EXCEPT ![t] = Released(@)])
           ELSE OnlySweep(now)
      /\ Answers(m, "answered") /\ OnlySite

Serve(m, now) ==
  /\ m \in wire /\ clock <= LastServe
  /\ \/ m.op = "admit" /\ Admit(m, now)
     \/ m.op = "hold" /\ Hold(m, now)
     \/ m.op = "mark" /\ Mark(m, now)
     \/ m.op = "finalize" /\ Finalize(m, cost[m.turn], now)
     \/ m.op = "charge" /\ Finalize(m, Price, now)
     \/ m.op = "unhold" /\ Unhold(m, now)
     \/ m.op = "complete" /\ Complete(m)
     \/ m.op = "unknown" /\ Unknown(m)
     \/ m.op = "giveback" /\ GiveBack(m)

-----------------------------------------------------------------------------
(* The handler; its steps leave the tables alone.  Nothing obliges it to    *)
(* take one, so it may die anywhere; an answer it does not wait for is lost. *)

Locally == UNCHANGED dbVars

Goto(t, label) ==
  /\ pc' = [pc EXCEPT ![t] = label]
  /\ reply' = [reply EXCEPT ![t] = "none"]

Send(t, op) == Goto(t, op) /\ wire' = wire \cup {[turn |-> t, op |-> op]}
Stay(t, label) == Goto(t, label) /\ UNCHANGED wire

Arrive(t) ==
  /\ pc[t] = "idle"
  /\ \E r \in Requests : ask' = [ask EXCEPT ![t] = r]
  /\ Send(t, "admit")
  /\ Locally /\ UNCHANGED <<provider, cost, retryable>>

\* An answer read, or an RPC that failed: a refusal, an exception, a request or
\* an answer lost.
Accepting == {"reserved", "held", "dispatched"}
Hears(t, op, status) == pc[t] = op /\ reply[t] = status
Fails(t, op)         == pc[t] = op /\ reply[t] \notin Accepting

\* reservePublicAiAdmission: only a new reservation goes on.
HearAdmit(t) ==
  /\ \/ Hears(t, "admit", "reserved") /\ Send(t, "hold")
     \/ Fails(t, "admit") /\ Stay(t, "done")
  /\ Locally /\ UNCHANGED <<ask, provider, cost, retryable>>

\* A hold that is refused or not confirmed gives the turn back, not the hold.
HearHold(t) ==
  /\ \/ Hears(t, "hold", "held") /\ Send(t, "mark")
     \/ Fails(t, "hold") /\ Send(t, "giveback")
  /\ Locally /\ UNCHANGED <<ask, provider, cost, retryable>>

\* beforeProviderDispatch and then invokeProvider: only a confirmed marker
\* goes on.
Invoke(t) ==
  /\ Hears(t, "mark", "dispatched")
  /\ Stay(t, "calling")
  /\ provider' = [provider EXCEPT ![t] = "called"]
  /\ Locally /\ UNCHANGED <<ask, cost, retryable>>

MarkFails(t) ==
  /\ Fails(t, "mark")
  /\ Send(t, "unhold")
  /\ Locally /\ UNCHANGED <<ask, provider, cost, retryable>>

\* AiOperationNotStartedError, or a definite refusal: safe to retry.
SafeToRetry(t) ==
  /\ \/ Hears(t, "mark", "dispatched")
     \/ pc[t] = "calling" /\ provider[t] = "refused"
  /\ Send(t, "unhold")
  /\ retryable' = retryable \cup {t}
  /\ Locally /\ UNCHANGED <<ask, provider, cost>>

Evaluated(t) ==
  /\ pc[t] = "calling" /\ provider[t] = "billed"
  /\ \E c \in Costs : cost' = [cost EXCEPT ![t] = c]
  /\ Send(t, "finalize")
  /\ Locally /\ UNCHANGED <<ask, provider, retryable>>

\* A timeout or an ambiguous error, whatever the provider did.
Unclear(t) ==
  /\ pc[t] = "calling"
  /\ Send(t, "charge")
  /\ Locally /\ UNCHANGED <<ask, provider, cost, retryable>>

\* The rest is best effort: whatever comes back, the next RPC is sent.
GoesOn(t) ==
  /\ \/ pc[t] = "finalize" /\ Send(t, "complete")
     \/ Hears(t, "complete", "completed") /\ Stay(t, "done")
     \/ pc[t] = "complete" /\ reply[t] # "completed" /\ Send(t, "unknown")
     \/ pc[t] = "charge" /\ Send(t, "unknown")
     \/ pc[t] = "unhold" /\ Send(t, "giveback")
     \/ pc[t] \in {"unknown", "giveback"} /\ Stay(t, "done")
  /\ Locally /\ UNCHANGED <<ask, provider, cost, retryable>>

Handler(t) ==
  \/ Arrive(t) \/ HearAdmit(t) \/ HearHold(t) \/ Invoke(t) \/ MarkFails(t)
  \/ SafeToRetry(t) \/ Evaluated(t) \/ Unclear(t) \/ GoesOn(t)

-----------------------------------------------------------------------------
(* The environment.                                                        *)

\* The provider decides on a request it has received, handler or no handler.
Decides(t) ==
  /\ provider[t] = "called"
  /\ \E what \in {"billed", "refused"} : provider' = [provider EXCEPT ![t] = what]
  /\ UNCHANGED <<dbVars, ask, pc, wire, reply, cost, retryable>>

\* Any other visitor's budget RPC: what it does to these rows is its sweep.
Visit(now) == OnlySweep(now) /\ OnlySite /\ UNCHANGED <<clock, turnVars>>

Tick ==
  /\ clock < MaxTime
  /\ clock' = clock + 1
  /\ UNCHANGED <<quota, windows, site, counters, late, turnVars>>

Init ==
  /\ quota = [t \in Turns |-> NoTurn]
  /\ windows = [s \in Subjects |-> NoWindow]
  /\ site = [t \in Turns |-> NoHold]
  /\ counters = [b \in Buckets |-> NoCount]
  /\ clock = 0
  /\ ask = [t \in Turns |-> CHOOSE r \in Requests : TRUE]
  /\ pc = [t \in Turns |-> "idle"]
  /\ wire = {}
  /\ reply = [t \in Turns |-> "none"]
  /\ provider = [t \in Turns |-> "idle"]
  /\ cost = [t \in Turns |-> 0]
  /\ retryable = {}
  /\ late = {}

Next ==
  \/ \E t \in Turns : Handler(t) \/ Decides(t)
  \/ \E now \in Starts : Visit(now) \/ \E m \in wire : Serve(m, now)
  \/ Tick

Spec == Init /\ [][Next]_vars

-----------------------------------------------------------------------------
Paid(t) == provider[t] \in {"called", "billed"}

\* A turn the provider may have billed is consumed and its budget is held or
\* charged: no lost answer, delayed release or expiry refunds either half.
PaidIsConsumed ==
  \A t \in Turns : Paid(t) =>
    /\ quota[t].status \in Consumed
    /\ site[t].dispatched /\ site[t].status \in {"reserved", "finalized"}

\* The site's counters are the sums of its rows, on the day and in the month
\* that admitted them, through sweeps, repeats, and closes after midnight.
SiteCountersMatchRows ==
  \A b \in Buckets :
    counters[b] = [reserved |-> Price * Cardinality(Held(site, b)),
                   actual   |-> Total(Charged(site, b), Actual(site), CostCap),
                   count    |-> Cardinality(Charged(site, b))]

\* No ip, device or account dispatches more turns in its window than the
\* limit, whoever shares it; excepted are turns whose marker, started before
\* the lease ended, got the site's lock after it.
WindowWithinLimit ==
  \A s \in Subjects :
    windows[s] # NoWindow =>
      Cardinality({t \in InWindow(quota, s, windows[s]) \ late :
                     quota[t].status \in Consumed}) <= Limit

\* What a day or a month has committed for its visitors; an answer dearer than
\* its reservation can carry it beyond the limit.
Covered == [t \in Turns |-> Least(site[t].actual, Price)]
SiteWithinLimit ==
  \A b \in Buckets :
    Price * Cardinality(Held(site, b)) + Total(Charged(site, b), Covered, CostCap)
      <= LimitOf[b]

\* The visitors' windows and the site's budget hold together, through expiries,
\* stale now() and repeats of the calls that book both.
LimitsHold == WindowWithinLimit /\ SiteWithinLimit

\* A principal pays one provider call for one request, whichever keys its
\* tabs use and however many windows go by.
OneTurnPerRequest ==
  \A t, u \in Turns :
    /\ t # u /\ Paid(t) /\ Paid(u)
    /\ ask[t].principal = ask[u].principal
    => ask[t].fp # ask[u].fp

\* "Provider errors known not to have started are safe to retry with the same
\* immutable request and idempotency key" (general-report/route.ts, which drives
\* the same calls): once the handler of such a turn is through and nothing of it
\* is under way, its row blocks no retry for good.
RefusedTurnCanBeRetried ==
  \A t \in Turns :
    /\ pc[t] = "done" /\ t \in retryable
    /\ \A m \in wire : m.turn # t
    => quota[t].status \notin Consumed
=============================================================================
