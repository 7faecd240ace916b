----------------------------- MODULE MistakeCards -----------------------------
(***************************************************************************)
(* A mistake of the owner that becomes a flashcard: one candidate with the *)
(* RPCs of 20260730110000 and 20260730140000, the handlers of              *)
(* generateMistakeCandidate (mistake-cards.server.ts), and the owner, who  *)
(* grounds, resolves, approves and rejects.  A lease may end at any time.  *)
(***************************************************************************)
EXTENDS Naturals

CONSTANTS Handlers, Sources, None, MaxTries, MaxRevisions \* bound

VARIABLES
  row,      \* status, own source, source, token, expired, dispatched, tries, card
  handler,  \* handler -> pc
  lesson,   \* its current source
  cards,    \* cards made
  paid,     \* handlers whose call may have been paid, but for cards of a source replaced since
  revisions

vars == <<row, handler, lesson, cards, paid, revisions>>

NoRow == [status |-> "none", own |-> None, source |-> None, token |-> None, expired |-> FALSE,
          dispatched |-> FALSE, tries |-> 0, card |-> None]

Init ==
  /\ row = NoRow /\ handler = [h \in Handlers |-> "idle"] /\ lesson \in Sources
  /\ cards = 0 /\ paid = {} /\ revisions = 0

------------------------------------------------------------------------------
(* The RPCs: an answer, and the row.                                       *)

Reply(is, next) == [is |-> is, row |-> next]
Ended(status) == [row EXCEPT !.status = status, !.token = None, !.expired = FALSE]
Leased(h) == [row EXCEPT !.status = "generating", !.token = h, !.expired = FALSE,
                         !.dispatched = FALSE, !.tries = @ + 1]
Mine(h) == row.status = "generating" /\ row.token = h

\* Mutant: an expired lease is taken over whatever it had sent.
ClaimAny(h) ==
  CASE row.status \notin {"detected", "failed", "generating"} -> Reply(row.status, row)
    [] row.status = "generating" /\ ~row.expired -> Reply("busy", row)
    [] OTHER -> IF row.tries >= MaxTries THEN Reply("dead_letter", Ended("dead_letter"))
                ELSE Reply("claimed", Leased(h))

Claim(h) ==
  CASE row.status \notin {"detected", "failed", "generating"} -> Reply(row.status, row)
    [] row.status = "generating" /\ ~row.expired -> Reply("busy", row)
    [] OTHER -> IF row.tries >= MaxTries \/ (row.status = "generating" /\ row.dispatched)
                THEN Reply("dead_letter", Ended("dead_letter"))
                ELSE Reply("claimed", Leased(h))

Mark(h) ==
  IF Mine(h) /\ ~row.expired THEN Reply("dispatched", [row EXCEPT !.dispatched = TRUE])
  ELSE Reply("refused", row)

Complete(h) ==
  IF ~Mine(h) \/ row.expired \/ ~row.dispatched THEN Reply("refused", row)
  ELSE IF row.source # lesson THEN Reply("needs_grounding", Ended("needs_grounding"))
  ELSE Reply("pending_review", [Ended("pending_review") EXCEPT !.card = cards + 1])

Terminate(h) ==
  CASE row.status # "generating" -> Reply(row.status, row)
    [] row.status = "generating" /\ (row.token # h \/ ~row.dispatched) -> Reply("refused", row)
    [] OTHER -> Reply("dead_letter", Ended("dead_letter"))

FailCandidate(h) ==
  IF Mine(h) THEN Reply("failed", Ended(IF row.tries >= MaxTries THEN "dead_letter" ELSE "failed"))
  ELSE Reply("refused", row)

\* What a call to the database does, at each place of a handler.
Asked(h) ==
  CASE handler[h] = "claim" -> Claim(h)
    [] handler[h] \in {"mark", "markFree"} -> Mark(h)
    [] handler[h] \in {"complete", "again"} -> Complete(h)
    [] handler[h] = "terminate" -> Terminate(h)
    [] OTHER -> FailCandidate(h)

------------------------------------------------------------------------------
(* A handler.                                                              *)

Go(h, pc) == handler' = [handler EXCEPT ![h] = pc]

Arrive(h) ==
  /\ handler[h] = "idle" /\ Go(h, "claim") /\ UNCHANGED <<row, lesson, cards, paid, revisions>>

\* A lesson or a question that has changed fails the candidate; the first
\* completion that is refused, like the second that is not confirmed, ends it.
After(h, is) ==
  CASE handler[h] = "claim" -> IF is # "claimed" THEN "done" ELSE IF row.source = lesson THEN "mark" ELSE "fail"
    [] handler[h] = "mark" -> IF is = "dispatched" THEN "call" ELSE "fail"
    [] handler[h] = "markFree" -> IF is = "dispatched" THEN "callFree" ELSE "fail"
    [] handler[h] \in {"complete", "again"} -> IF is = "refused" THEN "terminate" ELSE "done"
    [] OTHER -> "done"

\* After a completion the card is there, or its source was replaced.
Effects(h, r) ==
  /\ row' = r.row
  /\ cards' = IF r.row.card # row.card THEN cards + 1 ELSE cards
  /\ paid' = IF handler[h] \in {"complete", "again"} /\ r.is = "needs_grounding" THEN paid \ {h} ELSE paid

InDatabase == {"claim", "mark", "markFree", "complete", "again", "terminate", "fail"}

Asks(h) ==
  /\ handler[h] \in InDatabase /\ Effects(h, Asked(h)) /\ Go(h, After(h, Asked(h).is))
  /\ UNCHANGED <<lesson, revisions>>

\* An answer is lost: a completion is tried again, then ended.
Breaks(h) ==
  /\ handler[h] \in InDatabase
  /\ Effects(h, Asked(h)) \/ UNCHANGED <<row, cards, paid>>
  /\ Go(h, CASE handler[h] \in {"mark", "markFree"} -> "fail"
             [] handler[h] = "complete" -> "again"
             [] handler[h] = "again" -> "terminate"
             [] OTHER -> "done")
  /\ UNCHANGED <<lesson, revisions>>

\* The budgeted call: a draft, or one that cannot be used, no certain outcome,
\* a certain refusal, or one that lets the free provider be asked.
Calls(h) ==
  /\ handler[h] = "call"
  /\ \/ \E pc \in {"complete", "terminate"} : Go(h, pc) /\ paid' = paid \cup {h}
     \/ \E pc \in {"fail", "markFree"} : Go(h, pc) /\ UNCHANGED paid
  /\ UNCHANGED <<row, lesson, cards, revisions>>

CallsFree(h) ==
  /\ handler[h] = "callFree" /\ \E pc \in {"complete", "terminate", "fail"} : Go(h, pc)
  /\ UNCHANGED <<row, lesson, cards, paid, revisions>>

\* A handler dies, perhaps while its provider answers.
Die(h) ==
  /\ handler[h] \notin {"idle", "done"} /\ Go(h, "done")
  /\ paid' = IF handler[h] = "call" THEN paid \cup {h} ELSE paid
  /\ UNCHANGED <<row, lesson, cards, revisions>>

Expire ==
  /\ row.status = "generating" /\ ~row.expired /\ row' = [row EXCEPT !.expired = TRUE]
  /\ UNCHANGED <<handler, lesson, cards, paid, revisions>>

------------------------------------------------------------------------------
(* The owner, and the content.                                             *)

Changes(next) == row' = next /\ UNCHANGED <<handler, lesson, cards, paid, revisions>>

\* record_mistake_flashcard_candidate, of evidence with a current source or none.
Record(source) ==
  /\ source \in {lesson, None}
  /\ \/ /\ row.status = "none"
        /\ Changes([NoRow EXCEPT !.own = source, !.source = source,
                                 !.status = IF source = None THEN "needs_grounding" ELSE "detected"])
     \/ /\ row.status = "needs_grounding" /\ source # None /\ source = row.own
        /\ Changes([row EXCEPT !.status = "detected"])

Ground ==
  /\ row.status \in {"needs_grounding", "failed"}
  /\ Changes([row EXCEPT !.source = lesson, !.status = "detected"])

\* resolve_mistake_flashcard_candidate: a page may show an old status.
Resolve(action) ==
  /\ row.status # "none"
  /\ Changes([Ended(action) EXCEPT !.card = IF action = "dismissed" THEN row.card ELSE None])

\* question_approvals and its trigger; a queued question rejected for good.
Approve == row.card # None /\ Changes([row EXCEPT !.status = "approved"])
Unapprove == row.card # None /\ row.status = "approved" /\ Changes([row EXCEPT !.status = "pending_review"])
Reject ==
  /\ row.status \in {"pending_review", "dismissed", "reinforce_existing"}
  /\ Changes([Ended("dismissed") EXCEPT !.card = None])

Revise ==
  /\ revisions < MaxRevisions /\ revisions' = revisions + 1 /\ lesson' \in Sources \ {lesson}
  /\ UNCHANGED <<row, handler, cards, paid>>

Next ==
  \/ \E h \in Handlers : Arrive(h) \/ Asks(h) \/ Breaks(h) \/ Calls(h) \/ CallsFree(h) \/ Die(h)
  \/ Expire \/ Ground \/ Approve \/ Unapprove \/ Reject \/ Revise
  \/ \E source \in Sources \cup {None} : Record(source)
  \/ \E action \in {"dismissed", "reinforce_existing"} : Resolve(action)

Spec == Init /\ [][Next]_vars

------------------------------------------------------------------------------
(* Properties.                                                             *)

\* A candidate is paid for once and has one card, through dead handlers, ended leases and
\* completions nobody confirmed; again only where the source had been replaced.
CardPaidOnce == (\A g, h \in paid : g = h) /\ cards <= 1
==============================================================================
