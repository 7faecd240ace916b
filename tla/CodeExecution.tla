---------------------------- MODULE CodeExecution ----------------------------
(***************************************************************************)
(* Sample runs of one account's code (POST of api/mock-interview/run,      *)
(* admission.server.ts and the two RPCs of                                  *)
(* 20260729100000_create_code_execution_admission): a row per idempotency  *)
(* key admits a run for a lease, and keeps its result.  The RPCs of the    *)
(* account run one after another, but each with the now() of its own start. *)
(* A code is the fingerprint of a request; a result names the run that made *)
(* it.  Time counts parts of a lease, Day of them to a day.                *)
(***************************************************************************)
EXTENDS Naturals, FiniteSets

CONSTANTS
  Handlers, Keys, Codes, None,
  Lease,      \* of a row; longer than
  Duration,   \* the longest life of a handler
  Day, Limit, \* runs of a day
  MaxTime     \* bound

VARIABLES
  row,     \* key -> status, code, date, expires and result
  handler, \* handler -> pc, key, code, arrived, alive
  shown,   \* handler -> the result in its response
  clock

vars == <<row, handler, shown, clock>>

\* A handler does not outlive the lease it arrived with.
RunAssumption ==
  /\ None \notin Handlers /\ Day \in Nat \ {0} /\ Lease \in Nat /\ Duration \in Nat
  /\ Duration < Lease

NoRow == [status |-> "none", code |-> None, date |-> 0, expires |-> 0, result |-> None]
Idle == [pc |-> "idle", key |-> None, code |-> None, arrived |-> 0, alive |-> FALSE]

Init ==
  /\ row = [k \in Keys |-> NoRow] /\ handler = [h \in Handlers |-> Idle]
  /\ shown = [h \in Handlers |-> None] /\ clock = 0

------------------------------------------------------------------------------
(* The RPCs.                                                               *)

\* Mutant: the sweep fails whatever runs.
SweptAll(r, now) == [k \in Keys |-> IF r[k].status # "running" THEN r[k]
  ELSE [r[k] EXCEPT !.status = "failed", !.result = None]]

\* What has expired fails, before anything else.
Swept(r, now) ==
  [k \in Keys |-> IF r[k].status # "running" \/ r[k].expires > now THEN r[k]
                  ELSE [r[k] EXCEPT !.status = "failed", !.result = None]]

Used(r, date) == Cardinality({k \in Keys : r[k].status # "none" /\ r[k].date = date})

Answer(a, next) == [is |-> a, row |-> next]
Admit(r, key, code, now) ==
  LET date == now \div Day
  IN IF \E k \in Keys : r[k].status = "running" THEN Answer("busy", r)
     ELSE IF Used(r, date) + 1 > Limit THEN Answer("quota", r)
     ELSE Answer("new", [r EXCEPT ![key] = [status |-> "running", code |-> code, date |-> date,
                                             expires |-> now + Lease, result |-> None]])

\* Mutant: the fingerprint is not compared.
ReserveByKey(key, code, now) ==
  LET r == Swept(row, now)
  IN IF r[key].status # "none" THEN Answer(r[key].status, r) ELSE Admit(r, key, code, now)

\* reserve_code_execution: the answer, and the rows.
Reserve(key, code, now) ==
  LET r == Swept(row, now)
  IN CASE r[key].status = "none" -> Admit(r, key, code, now)
       [] r[key].status # "none" /\ r[key].code # code -> Answer("conflict", r)
       [] OTHER -> Answer(r[key].status, r)

\* finish_code_execution: a row that has ended stays.
Finish(r, key, status, result) ==
  IF r[key].status # "running" THEN r
  ELSE [r EXCEPT ![key].status = status, ![key].result = result]

------------------------------------------------------------------------------
(* The handler.  An RPC sent by a handler that died may still run.         *)

Go(h, pc) == handler' = [handler EXCEPT ![h].pc = IF handler[h].alive THEN pc ELSE "gone"]
Respond(h, result) ==
  /\ Go(h, "done") /\ shown' = [shown EXCEPT ![h] = IF handler[h].alive THEN result ELSE None]

Arrive(h, key, code) ==
  /\ handler[h].pc = "idle"
  /\ handler' = [handler EXCEPT ![h] =
       [pc |-> "reserve", key |-> key, code |-> code, arrived |-> clock, alive |-> TRUE]]
  /\ UNCHANGED <<row, shown, clock>>

\* The first reserve, and the one that reads back what was recorded when the
\* finish was not confirmed.
Reserves(h) ==
  /\ handler[h].pc \in {"reserve", "recover"}
  /\ \E now \in handler[h].arrived..clock :
       LET key == handler[h].key
           a == Reserve(key, handler[h].code, now)
       IN /\ row' = a.row
          /\ IF a.is = "new" /\ handler[h].pc = "reserve" THEN Go(h, "execute") /\ UNCHANGED shown
             ELSE Respond(h, IF a.is = "completed" THEN a.row[key].result ELSE None)
  /\ UNCHANGED clock

\* The code is run; a result that cannot be had is a failure.
Executed(h) ==
  /\ handler[h].pc = "execute" /\ handler[h].alive
  /\ \E pc \in {"complete", "fail"} : Go(h, pc)
  /\ UNCHANGED <<row, shown, clock>>

Finishes(h) ==
  LET key == handler[h].key
      next == Finish(row, key, "completed", h)
  IN /\ handler[h].pc = "complete" /\ row' = next
     /\ IF next[key].status = "completed" THEN Respond(h, h) ELSE Go(h, "recover") /\ UNCHANGED shown
     /\ UNCHANGED clock

GivesUp(h) ==
  /\ handler[h].pc = "fail" /\ row' = Finish(row, handler[h].key, "failed", None)
  /\ Respond(h, None) /\ UNCHANGED clock

\* An RPC fails, before or after it ran.
Breaks(h) ==
  /\ handler[h].pc \in {"reserve", "recover", "complete", "fail"}
  /\ \/ UNCHANGED row
     \/ handler[h].pc = "reserve" /\ row' = Reserve(handler[h].key, handler[h].code, clock).row
     \/ handler[h].pc = "complete" /\ row' = Finish(row, handler[h].key, "completed", h)
  /\ IF handler[h].pc = "complete" THEN Go(h, "recover") /\ UNCHANGED shown ELSE Respond(h, None)
  /\ UNCHANGED clock

Die(h) ==
  /\ handler[h].alive /\ handler[h].pc # "done"
  /\ handler' = [handler EXCEPT ![h].alive = FALSE,
                   ![h].pc = IF @ = "execute" THEN "gone" ELSE @]
  /\ UNCHANGED <<row, shown, clock>>

\* No handler outlives its duration.
Tick ==
  /\ clock < MaxTime /\ clock' = clock + 1
  /\ \A h \in Handlers : handler[h].alive /\ handler[h].pc # "done" =>
       clock < handler[h].arrived + Duration
  /\ UNCHANGED <<row, handler, shown>>

Next ==
  \/ Tick
  \/ \E h \in Handlers :
       \/ \E k \in Keys, c \in Codes : Arrive(h, k, c)
       \/ Reserves(h) \/ Executed(h) \/ Finishes(h) \/ GivesUp(h) \/ Breaks(h) \/ Die(h)

Spec == Init /\ [][Next]_vars

------------------------------------------------------------------------------
(* Properties.                                                             *)

\* One run of the account at a time, though a lease is counted from a now()
\* that waited for the lock.
OneExecution ==
  Cardinality({h \in DOMAIN handler : handler[h].alive /\ handler[h].pc = "execute"}) <= 1

\* What a response shows is the one result its key recorded, of its own code.
ShownIsRecorded ==
  \A h \in DOMAIN shown : shown[h] # None =>
    /\ row[handler[h].key].status = "completed" /\ row[handler[h].key].result = shown[h]
    /\ handler[shown[h]].code = handler[h].code
==============================================================================
