---------------------------- MODULE AssistantLease ----------------------------
(***************************************************************************)
(* The lease around a paid answer of the owner's lesson assistant           *)
(* (api/coach/lesson, 20260829130024_add_lesson_ai_assistant) and, with the *)
(* same statements, of the coach's follow-up (api/coach/follow-up,          *)
(* 20260730160000_create_coach_follow_up_reservations), which alone falls   *)
(* back to a free provider.  A row is found by its key or by the            *)
(* fingerprint of the request, is leased to one handler, and ends completed *)
(* or unknown.  A lease has no clock: it may end at any time.  An answer is *)
(* named by the handler that got it.                                        *)
(***************************************************************************)
EXTENDS Naturals, FiniteSets

CONSTANTS
  Handlers, Keys, Prints, None,
  Fallback   \* TRUE for the follow-up

\* What a response says is told apart from whose answer it shows.
ASSUME WordsAssumption ==
  /\ Handlers \cap {None, "locked", "later", "unsent"} = {}
  /\ None \notin {"locked", "later", "unsent"}

VARIABLES
  row,      \* key -> status, print, token, dispatched, expired, answer
  handler,  \* handler -> pc, key, print, alive
  billed,   \* handlers whose call may have been paid
  said      \* handler -> what its response says: an answer, or a word

vars == <<row, handler, billed, said>>

NoRow == [status |-> "none", print |-> None, token |-> None, dispatched |-> FALSE,
          expired |-> FALSE, answer |-> None]
Idle == [pc |-> "idle", key |-> None, print |-> None, alive |-> FALSE]

Init ==
  /\ row = [k \in Keys |-> NoRow] /\ handler = [h \in Handlers |-> Idle]
  /\ billed = {} /\ said = [h \in Handlers |-> None]

Terminal == {"completed", "outcome_unknown"}

------------------------------------------------------------------------------
(* The RPCs: each is an answer and the rows it leaves.                     *)

Reply(is, next) == [is |-> is, row |-> next]

Ended(k, status, answer) ==
  [row EXCEPT ![k].status = status, ![k].answer = answer, ![k].token = None]

\* Mutant: a row is looked for by its key alone.
FoundByKey(key, print) == {k \in {key} : row[k].status # "none"}

\* Only what was never dispatched may be tried again.
Takeover(k) == row[k].expired /\ ~row[k].dispatched

\* The row of the key, else the row of the fingerprint.
Found(key, print) ==
  IF row[key].status # "none" THEN {key}
  ELSE {k \in Keys : row[k].status # "none" /\ row[k].print = print}

Leased(rows, key, print, h) ==
  [rows EXCEPT ![key] = [NoRow EXCEPT !.status = "running", !.print = print, !.token = h]]

Reserve(key, print, h) ==
  IF Found(key, print) = {} THEN Reply("new", Leased(row, key, print, h))
  ELSE LET k == CHOOSE x \in Found(key, print) : TRUE
       IN CASE row[k].print # print -> Reply("conflict", row)
            [] row[k].print = print /\ row[k].status \in Terminal -> Reply(row[k].status, row)
            [] row[k].print = print /\ row[k].status = "running" /\ Takeover(k) ->
                 Reply("new", Leased([row EXCEPT ![k] = NoRow], key, print, h))
            [] row[k].print = print /\ row[k].status = "running" /\ row[k].expired /\ ~Takeover(k) ->
                 Reply("outcome_unknown", Ended(k, "outcome_unknown", None))
            [] OTHER -> Reply("busy", row)

Dispatch(key, h) ==
  IF row[key].status = "running" /\ row[key].token = h /\ ~row[key].expired
  THEN Reply("dispatched", [row EXCEPT ![key].dispatched = TRUE])
  ELSE Reply("refused", row)

\* Mutant: an ended row is ended again.
EndAgain(key, print, h, status, answer) ==
  IF row[key].status = "none" \/ row[key].print # print \/ ~row[key].dispatched
  THEN Reply("refused", row) ELSE Reply(status, Ended(key, status, answer))

\* complete_... and mark_..._outcome_unknown: a row that has ended is returned.
End(key, print, h, status, answer) ==
  CASE row[key].status = "none" \/ row[key].print # print -> Reply("refused", row)
    [] row[key].print = print /\ row[key].status \in Terminal -> Reply(row[key].status, row)
    [] row[key].print = print /\ row[key].status = "running" ->
         IF row[key].dispatched /\ row[key].token = h
         THEN Reply(status, Ended(key, status, answer)) ELSE Reply("refused", row)

Release(key, h) ==
  IF row[key].status = "running" /\ row[key].token = h
  THEN Reply("released", [row EXCEPT ![key] = NoRow])
  ELSE Reply(IF row[key].status = "running" THEN "refused" ELSE row[key].status, row)

\* An ended lease: what the next reserve finds, whoever holds it.
Expire(k) ==
  /\ row[k].status = "running" /\ ~row[k].expired
  /\ row' = [row EXCEPT ![k].expired = TRUE] /\ UNCHANGED <<handler, billed, said>>

------------------------------------------------------------------------------
(* The handler.  An RPC it sent may still run after it died; an RPC that    *)
(* runs may fail to answer, and one that fails may not have run.            *)

Go(h, pc) == handler' = [handler EXCEPT ![h].pc = IF handler[h].alive THEN pc ELSE "gone"]
Respond(h, what) ==
  /\ Go(h, "done") /\ said' = [said EXCEPT ![h] = IF handler[h].alive THEN what ELSE None]

Stored(h, rows) ==
  rows[CHOOSE k \in Keys : rows[k].print = handler[h].print /\ rows[k].status = "completed"].answer

Arrive(h, key, print) ==
  /\ handler[h].pc = "idle"
  /\ handler' = [handler EXCEPT ![h] = [pc |-> "reserve", key |-> key, print |-> print, alive |-> TRUE]]
  /\ UNCHANGED <<row, billed, said>>

Reserves(h) ==
  LET r == Reserve(handler[h].key, handler[h].print, h)
  IN /\ handler[h].pc = "reserve" /\ row' = r.row
     /\ CASE r.is = "new" -> Go(h, "mark") /\ UNCHANGED said
          [] r.is = "completed" -> Respond(h, Stored(h, r.row))
          [] r.is = "outcome_unknown" -> Respond(h, "locked")
          [] OTHER -> Respond(h, "later")
     /\ UNCHANGED billed

\* The mark of either provider: without it, none is called.
Marks(h) ==
  LET r == Dispatch(handler[h].key, h)
  IN /\ handler[h].pc \in {"mark", "markFree"} /\ row' = r.row
     /\ Go(h, IF r.is # "dispatched" THEN "releaseUnsent"
              ELSE IF handler[h].pc = "mark" THEN "call" ELSE "callFree")
     /\ UNCHANGED <<billed, said>>

\* The budgeted call: an answer, no certain outcome, or a certain refusal, on
\* which the follow-up asks the free provider.
Calls(h) ==
  /\ handler[h].pc = "call" /\ handler[h].alive
  /\ \/ \E pc \in {"complete", "unknown"} : Go(h, pc) /\ billed' = billed \cup {h}
     \/ Go(h, "release") /\ UNCHANGED billed
     \/ Fallback /\ Go(h, "markFree") /\ UNCHANGED billed
  /\ UNCHANGED <<row, said>>

\* The free provider: an answer, a refusal, or no certain outcome, which ends
\* the request although nothing was paid.
CallsFree(h) ==
  /\ handler[h].pc = "callFree" /\ handler[h].alive
  /\ \E pc \in {"complete", "release", "unknown"} : Go(h, pc)
  /\ UNCHANGED <<row, billed, said>>

\* The first and the second try to complete; then the mark of an unknown
\* outcome, which reads back a completion that was not confirmed.
Completes(h) ==
  LET r == End(handler[h].key, handler[h].print, h, "completed", h)
  IN /\ handler[h].pc \in {"complete", "again"} /\ row' = r.row
     /\ IF r.is = "completed" THEN Respond(h, r.row[handler[h].key].answer)
        ELSE Go(h, IF handler[h].pc = "complete" THEN "again" ELSE "unknown") /\ UNCHANGED said
     /\ UNCHANGED billed

MarksUnknown(h) ==
  LET r == End(handler[h].key, handler[h].print, h, "outcome_unknown", None)
  IN /\ handler[h].pc = "unknown" /\ row' = r.row
     /\ CASE r.is = "completed" -> Respond(h, r.row[handler[h].key].answer)
          [] r.is = "outcome_unknown" -> Respond(h, "locked")
          [] OTHER -> Respond(h, "later")
     /\ UNCHANGED billed

Releases(h) ==
  LET r == Release(handler[h].key, h)
  IN /\ handler[h].pc \in {"release", "releaseUnsent"} /\ row' = r.row
     /\ Respond(h, IF r.is # "refused" /\ handler[h].pc = "releaseUnsent" THEN "unsent" ELSE "later")
     /\ UNCHANGED billed

\* An RPC does not answer.
Ran(h) ==
  LET key == handler[h].key   print == handler[h].print
  IN CASE handler[h].pc = "reserve" -> Reserve(key, print, h).row
       [] handler[h].pc \in {"mark", "markFree"} -> Dispatch(key, h).row
       [] handler[h].pc \in {"complete", "again"} -> End(key, print, h, "completed", h).row
       [] handler[h].pc = "unknown" -> End(key, print, h, "outcome_unknown", None).row
       [] OTHER -> Release(key, h).row
Breaks(h) ==
  /\ handler[h].pc \in {"reserve", "mark", "markFree", "complete", "again", "unknown", "release",
                        "releaseUnsent"}
  /\ row' = row \/ row' = Ran(h)
  /\ CASE handler[h].pc \in {"mark", "markFree"} -> Go(h, "releaseUnsent") /\ UNCHANGED said
       [] handler[h].pc = "complete" -> Go(h, "again") /\ UNCHANGED said
       [] handler[h].pc = "again" -> Go(h, "unknown") /\ UNCHANGED said
       [] OTHER -> Respond(h, "later")
  /\ UNCHANGED billed

Die(h) ==
  /\ handler[h].alive /\ handler[h].pc # "done"
  /\ handler' = [handler EXCEPT ![h].alive = FALSE,
                   ![h].pc = IF @ \in {"call", "callFree"} THEN "gone" ELSE @]
  /\ billed' = IF handler[h].pc = "call" THEN billed \cup {h} ELSE billed
  /\ UNCHANGED <<row, said>>

Next ==
  \/ \E k \in Keys : Expire(k)
  \/ \E h \in Handlers :
       \/ \E k \in Keys, p \in Prints : Arrive(h, k, p)
       \/ Reserves(h) \/ Marks(h) \/ Calls(h) \/ CallsFree(h) \/ Completes(h) \/ MarksUnknown(h)
       \/ Releases(h) \/ Breaks(h) \/ Die(h)

Spec == Init /\ [][Next]_vars

------------------------------------------------------------------------------
(* Properties.                                                             *)

\* One request is paid once, through lost answers, dead handlers, leases that
\* end early and a second key for the same question.
OnePaidAnswer ==
  \A g, h \in billed : handler[g].print = handler[h].print => g = h

\* What a response said stays true: an answer is the stored one, a locked turn
\* is never sent again, and an unsent one was not paid.
KeepsWhatItSaid ==
  \A h \in Handlers :
    /\ said[h] \in Handlers =>
         \E k \in Keys : /\ row[k].status = "completed" /\ row[k].answer = said[h]
                         /\ row[k].print = handler[h].print
    /\ said[h] = "locked" =>
         \E k \in Keys : row[k].status = "outcome_unknown" /\ row[k].print = handler[h].print
    /\ said[h] = "unsent" => h \notin billed

------------------------------------------------------------------------------
(* What the leases promise is PaidOnce: a request is sealed by its mark.   *)

Has(rows, print, status) == \E k \in Keys : rows[k].print = print /\ rows[k].status = status
Sealed(rows, print) ==
  \E k \in Keys : rows[k].print = print /\ rows[k].status = "running" /\ rows[k].dispatched

Verdict(rows, print) ==
  IF Has(rows, print, "completed") THEN "stored"
  ELSE IF Has(rows, print, "outcome_unknown") THEN "unknown"
  ELSE IF Sealed(rows, print) THEN "sealed" ELSE "open"

Buyers(print) == {h \in billed : handler[h].print = print}

Promise == INSTANCE PaidOnce WITH
  Evaluations <- Prints,
  Payers <- Handlers,
  verdict <- [p \in Prints |-> Verdict(row, p)],
  bought <- [p \in Prints |-> Buyers(p)]
==============================================================================
