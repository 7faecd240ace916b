--------------------------- MODULE MockSessionProofs ---------------------------
(***************************************************************************)
(* Proofs about a mock interview, for any number of tabs, handlers,        *)
(* sessions, keys and revisions: browser and server keep their types, a    *)
(* session is paid for once, what it shows grades its own answers, no tab  *)
(* puts back what was written before, and the attempts implement PaidOnce. *)
(*                                                                         *)
(* The inductive invariant adds, on the server, that a session has one     *)
(* row, that a handler that may pay holds that row or has lost it to a     *)
(* sweep that keeps it, and that nobody at work can give back the row of a *)
(* session that was paid for; in the browser, that a tab which rendered    *)
(* the stored revision rendered the stored session, and that a submission  *)
(* under the stored key is of the stored answers.                          *)
(***************************************************************************)
EXTENDS MockSession, FiniteSetTheorems, TLAPS

-----------------------------------------------------------------------------
(* Types.                                                                  *)

Texts == Works \cup {"blank", "none"}
Submission == [session : 0..MaxKeys, key : 0..MaxKeys, work : Texts]
GradedReport == [work : Texts, nr : Nat]
Row == [sub : Submission, status : {"reserved", "completed", "failed"}, holder : SUBSET Slots,
        dispatched : BOOLEAN, live : BOOLEAN, report : GradedReport]
Phases == {"idle", "sent", "testing", "executing", "starting", "asking", "completing",
           "failing", "releasing", "aborting", "answered"}
Replies == {"none", "error", "retry", "report"}
Handler == [phase : Phases, sub : Submission, report : GradedReport, reply : Replies]
Payment == [sub : Submission, nr : Nat, deleted : BOOLEAN]
Session == [id : 0..MaxKeys, rev : Nat, status : {"none", "in_progress", "evaluating", "completed"},
            work : Texts, frozen : Submission, key : 0..MaxKeys, pending : Texts, sample : Texts,
            report : GradedReport]

ServerTypeOK ==
  /\ rows \subseteq Row /\ request \in [Slots -> Handler]
  /\ batch \in [1..MaxKeys -> {"none", "running", "completed", "failed"}]
  /\ payments \subseteq Payment /\ IsFiniteSet(payments)

BrowserTypeOK ==
  /\ store \in Session /\ seen \in [Tabs -> Session] /\ busy \subseteq Tabs
  /\ asker \in [Slots -> SUBSET Tabs] /\ minted \in 0..MaxKeys
  /\ runs \subseteq [tab : Tabs, session : 1..MaxKeys, source : Texts]
  /\ typed \in [session : 0..MaxKeys, work : Texts]

-----------------------------------------------------------------------------
(* The server's invariant.                                                 *)

\* Phases in which a handler may give its row back or may still pay.
Working == {"testing", "executing", "starting", "asking", "releasing", "aborting"}

OneRowPerSession == \A r, s \in rows : r.sub.session = s.sub.session => r = s

\* An ended row has no holder; a completed one keeps the report of its answers.
EndedWell(r) ==
  /\ r.status # "reserved" => r.holder = {}
  /\ r.status = "completed" => r.report.work = r.sub.work

\* A handler that has a report, or says so, has the one of its answers.
ReportsOwnAnswers ==
  \A c \in Slots : request[c].phase = "completing" \/ request[c].reply = "report"
    => request[c].report.work = request[c].sub.work

\* A handler that may pay has dispatched its row, which it holds or has lost to
\* a sweep; nobody has paid for that session, or may.
HoldsOrFailed(c, r) ==
  /\ r.sub = request[c].sub /\ r.dispatched
  /\ (r.status = "reserved" /\ r.holder = {c}) \/ r.status = "failed"
AskingHoldsRow == \A c \in Slots : At(c, "asking") => \E r \in rows : HoldsOrFailed(c, r)
AskingIsUnpaid ==
  \A c \in Slots : At(c, "asking") =>
    /\ \A p \in payments : p.sub.session = request[c].sub.session => p.deleted
    /\ \A d \in Slots : At(d, "asking") /\ request[d].sub.session = request[c].sub.session => d = c

\* A session that was paid for keeps its dispatched row, unless the owner
\* deletes it: nobody at work can give that row back.
KeepsPaidRow(r) ==
  r.dispatched /\ (r.status = "reserved" => \A c \in Slots : r \in Mine(c) => request[c].phase \notin Working)
PaidHasRow ==
  \A p \in payments : ~ p.deleted =>
    \E r \in rows : r.sub.session = p.sub.session /\ KeepsPaidRow(r)

ServerInv ==
  /\ ServerTypeOK /\ OneRowPerSession /\ \A r \in rows : EndedWell(r)
  /\ ReportsOwnAnswers
  /\ AskingHoldsRow /\ AskingIsUnpaid /\ PaidHasRow /\ OnePaidReport

-----------------------------------------------------------------------------
(* The browser's invariant.                                                *)

\* What a tab has rendered is behind the storage, or is the storage.
SeenIsBehind ==
  \A t \in Tabs :
    /\ seen[t].id <= minted /\ (seen[t].id = 0 => seen[t] = NoSession)
    /\ seen[t].id = store.id => seen[t].rev <= store.rev /\ (seen[t].rev = store.rev => seen[t] = store)

\* The stored session: none, one being answered, or one whose frozen submission is its
\* own answers under its own key.
StoreSound ==
  /\ store.id <= minted
  /\ store.status = "none" <=> store.id = 0
  /\ store.id = 0 => store = NoSession
  /\ store.status = "in_progress" => store.key = 0
  /\ store.status = "evaluating" =>
       /\ store.key \in 1..minted
       /\ store.frozen = [session |-> store.id, key |-> store.key, work |-> store.work]

\* A submission under way was minted; under the session and key of the storage
\* it is of the answers in the storage.
SubmittedAsStored ==
  \A c \in Slots : request[c].phase # "idle" =>
    /\ request[c].sub.session \in 1..minted /\ request[c].sub.key \in 1..minted
    /\ Awaited(c) => request[c].sub.work = store.work

BrowserInv ==
  /\ BrowserTypeOK /\ SeenIsBehind /\ StoreSound /\ SubmittedAsStored
  /\ ShownIsGraded /\ NoAnswerReverted
  /\ (typed.session = 0 => typed.work = "blank") /\ typed.session <= minted

SessionInv == ServerInv /\ BrowserInv
-----------------------------------------------------------------------------
(* The rows.                                                               *)

RowsOK == rows \subseteq Row /\ OneRowPerSession /\ \A r \in rows : EndedWell(r)

\* What a step of handler c may make of a row.
Follows(c, r, s) ==
  /\ s.sub = r.sub /\ (r.dispatched => s.dispatched)
  /\ \/ s.status = r.status /\ s.holder = r.holder
     \/ r.status = "reserved" /\ s.status = "failed" /\ s.holder = {}
     \/ r \in Mine(c) /\ At(c, "completing") /\ s.status = "completed"

\* Of the dispatched rows it loses none, but its own when it gives that back.
RowsFollow(c) ==
  \A r \in rows : r.dispatched =>
    (\E s \in rows' : Follows(c, r, s)) \/ (r \in Mine(c) /\ At(c, "releasing"))

\* A step that leaves the rows alone loses none.
LEMMA SameRowsFollow ==
  ASSUME NEW c, rows' = rows
  PROVE  RowsFollow(c) /\ (RowsOK => RowsOK')
BY DEF RowsFollow, Follows, RowsOK, OneRowPerSession, EndedWell

\* Fewer rows are still one of a session.
LEMMA FewerRows ==
  ASSUME RowsOK, rows' \subseteq rows
  PROVE  RowsOK'
BY DEF RowsOK, OneRowPerSession, EndedWell

\* One row replaced by one of the same submission.
LEMMA RowReplaced ==
  ASSUME RowsOK, NEW r \in rows, NEW s \in Row, s.sub = r.sub, EndedWell(s),
         rows' = (rows \ {r}) \cup {s}
  PROVE  RowsOK'
BY DEF RowsOK, OneRowPerSession, EndedWell

\* A handler's row is one of its session.
LEMMA MineIsOne ==
  ASSUME RowsOK, NEW c, NEW r \in Mine(c)
  PROVE  Mine(c) = {r} /\ r \in rows /\ r \in Row /\ r.sub = request[c].sub /\ r.holder = {c}
<1>1. r \in rows /\ r.sub = request[c].sub /\ r.holder = {c}
  BY DEF Mine
<1>2. \A s \in Mine(c) : s = r
  BY <1>1 DEF Mine, RowsOK, OneRowPerSession
<1> QED
  BY <1>1, <1>2 DEF RowsOK

\* The end of a row is a row.
LEMMA EndOfRow ==
  ASSUME NEW r \in Row, NEW status \in {"completed", "failed"}, NEW report \in GradedReport
  PROVE  /\ Ended(r, status, report) \in Row
         /\ Ended(r, status, report).sub = r.sub
         /\ Ended(r, status, report).dispatched = r.dispatched
         /\ Ended(r, status, report).status = status
         /\ Ended(r, status, report).holder = {}
         /\ Ended(r, status, report).report = report
<1> DEFINE s == Ended(r, status, report)
<1>1. s = [r EXCEPT !.status = status, !.holder = {}, !.live = FALSE, !.report = report]
  BY DEF Ended
<1> HIDE DEF s
<1>2. s \in Row /\ s.sub = r.sub /\ s.dispatched = r.dispatched
        /\ s.status = status /\ s.holder = {} /\ s.report = report
  BY <1>1 DEF Row
<1> QED
  BY <1>2 DEF s

\* A sweep fails the dispatched rows it meets and deletes the others.
LEMMA SweepKeepsRows ==
  ASSUME RowsOK, NEW S \in SUBSET {r \in rows : Expired(r)}
  PROVE  /\ Swept(S) \subseteq Row
         /\ \A s, t \in Swept(S) : s.sub.session = t.sub.session => s = t
         /\ \A s \in Swept(S) : EndedWell(s)
         /\ \A r \in rows : r.dispatched => \E s \in Swept(S) :
              /\ s.sub = r.sub /\ s.dispatched
              /\ \/ s.status = r.status /\ s.holder = r.holder
                 \/ r.status = "reserved" /\ s.status = "failed" /\ s.holder = {}
<1> DEFINE end(r) == Ended(r, "failed", NoReport)
<1>1. NoReport \in GradedReport
  BY DEF NoReport, GradedReport, Texts
<1>2. \A r \in rows : r \in Row /\ EndedWell(r)
  BY DEF RowsOK
<1>3. \A r \in rows : /\ end(r) \in Row /\ end(r).sub = r.sub /\ end(r).dispatched = r.dispatched
                      /\ end(r).status = "failed" /\ end(r).holder = {}
  BY <1>1, <1>2, EndOfRow
<1> HIDE DEF end
<1>4. Swept(S) = (rows \ S) \cup {end(r) : r \in {s \in S : s.dispatched}}
  BY DEF Swept, end
<1>5. \A s \in Swept(S) : \/ s \in rows /\ s \notin S
                          \/ \E r \in S : r.dispatched /\ s = end(r)
  BY <1>4
<1>6. S \subseteq rows /\ \A r \in S : r.status = "reserved"
  BY DEF Expired
<1>7. \A s \in Swept(S) : \E r \in rows : s.sub = r.sub /\ ((s = r /\ r \notin S) \/ (s = end(r) /\ r \in S))
  BY <1>3, <1>5, <1>6
<1>8. \A s, t \in Swept(S) : s.sub.session = t.sub.session => s = t
  <2>1. SUFFICES ASSUME NEW s \in Swept(S), NEW t \in Swept(S), s.sub.session = t.sub.session
                 PROVE  s = t
    OBVIOUS
  <2>2. PICK r \in rows : s.sub = r.sub /\ ((s = r /\ r \notin S) \/ (s = end(r) /\ r \in S))
    BY <1>7
  <2>3. PICK q \in rows : t.sub = q.sub /\ ((t = q /\ q \notin S) \/ (t = end(q) /\ q \in S))
    BY <1>7
  <2>4. r = q
    BY <2>1, <2>2, <2>3 DEF RowsOK, OneRowPerSession
  <2> QED
    BY <2>2, <2>3, <2>4
<1>9. \A s \in Swept(S) : s \in Row /\ EndedWell(s)
  BY <1>2, <1>3, <1>5, <1>6 DEF EndedWell
<1>10. ASSUME NEW r \in rows, r.dispatched
       PROVE  \E s \in Swept(S) :
                /\ s.sub = r.sub /\ s.dispatched
                /\ \/ s.status = r.status /\ s.holder = r.holder
                   \/ r.status = "reserved" /\ s.status = "failed" /\ s.holder = {}
  <2>1. CASE r \in S
    <3>1. end(r) \in Swept(S)
      BY <1>4, <1>10, <2>1
    <3> QED
      BY <1>3, <1>6, <1>10, <2>1, <3>1
  <2>2. CASE r \notin S
    BY <1>4, <1>10, <2>2
  <2> QED
    BY <2>1, <2>2
<1> QED
  BY <1>8, <1>9, <1>10

\* A step of a handler that loses no dispatched row but one it gives back, works
\* on only under a lease of its own, and pays only at its one place for that.
LEMMA HandlerKeepsPayments ==
  ASSUME ServerInv, NEW c \in Slots, RowsFollow(c), OneRowPerSession',
         request' \in [Slots -> Handler],
         \A d \in Slots : d # c => request'[d] = request[d],
         request'[c].sub = request[c].sub,
         \/ payments' = payments
         \/ /\ At(c, "asking") /\ request'[c].phase \notin Working
            /\ \E nr \in Nat : payments' = payments \cup
                 {[sub |-> request[c].sub, nr |-> nr, deleted |-> FALSE]},
         request'[c].phase \in Working =>
           \/ request[c].phase \in Working
           \/ \A s \in rows' : s.sub.session = request[c].sub.session => ~ s.dispatched,
         request'[c].phase = "asking" =>
           /\ At(c, "starting")
           /\ \E r \in rows : r \in Mine(c) /\ r.status = "reserved"
           /\ \E s \in rows' : s.sub = request[c].sub /\ s.dispatched
                                 /\ s.status = "reserved" /\ s.holder = {c}
  PROVE  AskingHoldsRow' /\ AskingIsUnpaid' /\ PaidHasRow' /\ OnePaidReport'
<1>1. /\ OneRowPerSession /\ AskingHoldsRow /\ AskingIsUnpaid /\ PaidHasRow /\ OnePaidReport
      /\ rows \subseteq Row /\ \A r \in rows : EndedWell(r)
  BY DEF ServerInv, ServerTypeOK
<1>2. \A d \in Slots : request'[d].sub = request[d].sub
  OBVIOUS
<1>3. \A d \in Slots : d # c => (At(d, "asking"))' = At(d, "asking")
  BY DEF At
\* A handler that may pay keeps a row for it.
<1>4. ASSUME NEW d \in Slots, At(d, "asking"), NEW r \in rows, HoldsOrFailed(d, r)
      PROVE  \E s \in rows' : /\ s.sub = r.sub /\ s.dispatched
                              /\ \/ s.status = r.status /\ s.holder = r.holder
                                 \/ s.status = "failed" /\ s.holder = {}
  <2>1. r.dispatched /\ ((r.status = "reserved" /\ r.holder = {d}) \/ r.holder = {})
    BY <1>1, <1>4 DEF HoldsOrFailed, EndedWell
  <2>2. ~(r \in Mine(c) /\ At(c, "releasing")) /\ ~(r \in Mine(c) /\ At(c, "completing"))
    BY <1>4, <2>1 DEF Mine, At
  <2> QED
    BY <2>1, <2>2 DEF RowsFollow, Follows
<1>5. AskingHoldsRow'
  <2>1. ASSUME NEW d \in Slots, At(d, "asking")'
        PROVE  \E s \in rows' : HoldsOrFailed(d, s)'
    <3>1. CASE d = c
      BY <2>1, <3>1 DEF At, HoldsOrFailed
    <3>2. CASE d # c
      <4>1. PICK r \in rows : HoldsOrFailed(d, r)
        BY <1>1, <1>3, <2>1, <3>2 DEF AskingHoldsRow
      <4>2. PICK s \in rows' : /\ s.sub = r.sub /\ s.dispatched
                               /\ \/ s.status = r.status /\ s.holder = r.holder
                                  \/ s.status = "failed" /\ s.holder = {}
        BY <1>3, <1>4, <2>1, <3>2, <4>1
      <4> QED
        BY <1>2, <4>1, <4>2 DEF HoldsOrFailed
    <3> QED
      BY <3>1, <3>2
  <2> QED
    BY <2>1 DEF AskingHoldsRow
<1>6. ASSUME NEW p \in payments', ~ p.deleted
      PROVE  \E s \in rows' : s.sub.session = p.sub.session /\ KeepsPaidRow(s)'
  <2>1. CASE p \in payments
    <3>1. PICK r \in rows : r.sub.session = p.sub.session /\ KeepsPaidRow(r)
      BY <1>1, <1>6, <2>1 DEF PaidHasRow
    <3>2. r \in Row /\ EndedWell(r)
      BY <1>1
    <3>3. r.status # "reserved" => r \notin Mine(c)
      BY <3>2 DEF EndedWell, Mine
    <3>4. ~(r \in Mine(c) /\ At(c, "releasing"))
      BY <3>1, <3>3 DEF KeepsPaidRow, At, Working
    <3>5. PICK s \in rows' : Follows(c, r, s)
      BY <3>1, <3>4 DEF KeepsPaidRow, RowsFollow
    <3>6. s.sub = r.sub /\ s.dispatched
      BY <3>1, <3>5 DEF Follows, KeepsPaidRow
    <3>7. ASSUME s.status = "reserved", NEW d \in Slots, s \in Mine(d)'
          PROVE  request'[d].phase \notin Working
      <4>1. s.holder = {d} /\ s.sub = request[d].sub
        BY <1>2, <3>7 DEF Mine
      <4>2. s.status = r.status /\ s.holder = r.holder
        BY <3>5, <3>7 DEF Follows
      <4>3. r \in Mine(d) /\ request[d].phase \notin Working
        BY <3>1, <3>6, <3>7, <4>1, <4>2 DEF Mine, KeepsPaidRow
      <4>4. s.sub.session = request[d].sub.session
        BY <4>1
      <4> QED
        BY <3>6, <4>3, <4>4
    <3> QED
      BY <3>1, <3>6, <3>7 DEF KeepsPaidRow
  <2>2. CASE p \notin payments
    <3>1. p.sub = request[c].sub /\ At(c, "asking") /\ request'[c].phase \notin Working
      BY <1>6, <2>2
    <3>2. PICK r \in rows : HoldsOrFailed(c, r)
      BY <1>1, <3>1 DEF AskingHoldsRow
    <3>3. PICK s \in rows' : /\ s.sub = r.sub /\ s.dispatched
                             /\ \/ s.status = r.status /\ s.holder = r.holder
                                \/ s.status = "failed" /\ s.holder = {}
      BY <1>4, <3>1, <3>2
    <3>4. ASSUME s.status = "reserved", NEW d \in Slots, s \in Mine(d)'
          PROVE  request'[d].phase \notin Working
      <4>1. s.holder = {d} /\ s.holder = {c}
        BY <3>2, <3>3, <3>4 DEF Mine, HoldsOrFailed
      <4> QED
        BY <3>1, <4>1
    <3> QED
      BY <3>1, <3>2, <3>3, <3>4 DEF KeepsPaidRow, HoldsOrFailed
  <2> QED
    BY <2>1, <2>2
<1>7. PaidHasRow'
  BY <1>6 DEF PaidHasRow
\* Only a handler whose session nobody paid for comes to ask.
<1>8. ASSUME At(c, "asking")'
      PROVE  /\ payments' = payments
             /\ \A p \in payments : p.sub.session = request[c].sub.session => p.deleted
             /\ \A d \in Slots : At(d, "asking") => request[d].sub.session # request[c].sub.session
  <2>1. At(c, "starting") /\ \E r \in rows : r \in Mine(c) /\ r.status = "reserved"
    BY <1>8 DEF At
  <2>2. PICK r \in rows : r \in Mine(c) /\ r.status = "reserved"
    BY <2>1
  <2>3. r.sub = request[c].sub /\ r.holder = {c}
    BY <2>2 DEF Mine
  <2>4. payments' = payments
    BY <2>1 DEF At
  <2>5. ASSUME NEW p \in payments, p.sub.session = request[c].sub.session, ~ p.deleted
        PROVE  FALSE
    <3>1. PICK q \in rows : q.sub.session = p.sub.session /\ KeepsPaidRow(q)
      BY <1>1, <2>5 DEF PaidHasRow
    <3>2. q = r
      BY <1>1, <2>3, <2>5, <3>1 DEF OneRowPerSession
    <3> QED
      BY <2>1, <2>2, <3>1, <3>2 DEF KeepsPaidRow, Working, At
  <2>6. ASSUME NEW d \in Slots, At(d, "asking"), request[d].sub.session = request[c].sub.session
        PROVE  FALSE
    <3>1. PICK q \in rows : HoldsOrFailed(d, q)
      BY <1>1, <2>6 DEF AskingHoldsRow
    <3>2. q = r
      BY <1>1, <2>3, <2>6, <3>1 DEF OneRowPerSession, HoldsOrFailed
    <3>3. d = c
      BY <2>2, <2>3, <3>1, <3>2 DEF HoldsOrFailed
    <3> QED
      BY <2>1, <2>6, <3>3 DEF At
  <2> QED
    BY <2>4, <2>5, <2>6
<1>9. AskingIsUnpaid'
  <2>1. ASSUME NEW d \in Slots, At(d, "asking")'
        PROVE  /\ \A p \in payments' : p.sub.session = request'[d].sub.session => p.deleted
               /\ \A e \in Slots :
                    At(e, "asking")' /\ request'[e].sub.session = request'[d].sub.session => e = d
    <3>1. CASE d = c
      BY <1>2, <1>3, <1>8, <2>1, <3>1
    <3>2. CASE d # c
      <4>1. At(d, "asking")
        BY <1>3, <2>1, <3>2
      <4>2. \A p \in payments : p.sub.session = request[d].sub.session => p.deleted
        BY <1>1, <4>1 DEF AskingIsUnpaid
      <4>3. At(c, "asking") => request[c].sub.session # request[d].sub.session
        BY <1>1, <3>2, <4>1 DEF AskingIsUnpaid
      <4>4. \A p \in payments' : p.sub.session = request'[d].sub.session => p.deleted
        BY <1>2, <4>2, <4>3
      <4>5. ASSUME NEW e \in Slots, At(e, "asking")',
                   request'[e].sub.session = request'[d].sub.session
            PROVE  e = d
        <5>1. CASE e = c
          BY <1>2, <1>8, <4>1, <4>5, <5>1
        <5>2. CASE e # c
          BY <1>1, <1>2, <1>3, <4>1, <4>5, <5>2 DEF AskingIsUnpaid
        <5> QED
          BY <5>1, <5>2
      <4> QED
        BY <4>4, <4>5
    <3> QED
      BY <3>1, <3>2
  <2> QED
    BY <2>1 DEF AskingIsUnpaid
<1>10. OnePaidReport'
  <2>1. CASE payments' = payments
    BY <1>1, <2>1 DEF OnePaidReport
  <2>2. CASE /\ At(c, "asking")
             /\ \E nr \in Nat : payments' = payments \cup
                  {[sub |-> request[c].sub, nr |-> nr, deleted |-> FALSE]}
    <3>1. \A p \in payments : p.sub.session = request[c].sub.session => p.deleted
      BY <1>1, <2>2 DEF AskingIsUnpaid
    <3>2. PICK nr \in Nat : payments' = payments \cup
                  {[sub |-> request[c].sub, nr |-> nr, deleted |-> FALSE]}
      BY <2>2
    <3> DEFINE new == [sub |-> request[c].sub, nr |-> nr, deleted |-> FALSE]
    <3>3. new.sub = request[c].sub /\ payments' = payments \cup {new}
      BY <3>2
    <3> HIDE DEF new
    <3> QED
      BY <1>1, <3>1, <3>3 DEF OnePaidReport
  <2> QED
    BY <2>1, <2>2
<1> QED
  BY <1>5, <1>7, <1>9, <1>10

-----------------------------------------------------------------------------
(* The handlers' steps.                                                    *)

\* What the lemma above asks of a step, and what else it leaves sound.
HandlerStep(c) ==
  /\ RowsFollow(c) /\ RowsOK' /\ ServerTypeOK' /\ ReportsOwnAnswers'
  /\ \A d \in Slots : d # c => request'[d] = request[d]
  /\ request'[c].sub = request[c].sub
  /\ \/ payments' = payments
     \/ /\ At(c, "asking") /\ request'[c].phase \notin Working
        /\ \E nr \in Nat : payments' = payments \cup
             {[sub |-> request[c].sub, nr |-> nr, deleted |-> FALSE]}
  /\ request'[c].phase \in Working =>
       \/ request[c].phase \in Working
       \/ \A s \in rows' : s.sub.session = request[c].sub.session => ~ s.dispatched
  /\ request'[c].phase = "asking" =>
       /\ At(c, "starting")
       /\ \E r \in rows : r \in Mine(c) /\ r.status = "reserved"
       /\ \E s \in rows' : s.sub = request[c].sub /\ s.dispatched
                             /\ s.status = "reserved" /\ s.holder = {c}

\* A step of a handler keeps the server's invariant.
LEMMA HandlerStepKeepsInv ==
  ASSUME ServerInv, NEW c \in Slots, HandlerStep(c)
  PROVE  ServerInv'
<1>1. AskingHoldsRow' /\ AskingIsUnpaid' /\ PaidHasRow' /\ OnePaidReport'
  BY HandlerKeepsPayments DEF HandlerStep, RowsOK, ServerTypeOK
<1> QED
  BY <1>1 DEF HandlerStep, RowsOK, ServerInv

\* A handler goes on without a report of its own.
Quietly(c, phase) ==
  Go(c, phase) \/ \E reply \in {"error", "retry"} : Then(c, phase, reply)

\* A handler that goes on without completing.
LEMMA QuietHandler ==
  ASSUME ServerInv, NEW c \in Slots, NEW phase \in Phases \ {"completing"}, Quietly(c, phase)
  PROVE  /\ request' \in [Slots -> Handler] /\ ReportsOwnAnswers'
         /\ \A d \in Slots : d # c => request'[d] = request[d]
         /\ request'[c].sub = request[c].sub /\ request'[c].phase = phase
<1> DEFINE h == request[c]
<1>1. request \in [Slots -> Handler] /\ h \in Handler /\ ReportsOwnAnswers
  BY DEF ServerInv, ServerTypeOK
<1>2. \A d \in Slots : d # c => request'[d] = request[d]
  BY <1>1 DEF Quietly, Go, Then
<1>3. /\ request'[c] \in Handler /\ request'[c].phase = phase
      /\ request'[c].sub = h.sub /\ request'[c].report = h.report
      /\ request'[c].reply = h.reply \/ request'[c].reply \in {"error", "retry"}
  <2>1. CASE Go(c, phase)
    <3>1. request'[c] = [h EXCEPT !.phase = phase]
      BY <1>1, <2>1 DEF Go
    <3> HIDE DEF h
    <3> QED
      BY <1>1, <3>1 DEF Handler
  <2>2. ASSUME NEW reply \in {"error", "retry"}, Then(c, phase, reply)
        PROVE  /\ request'[c] \in Handler /\ request'[c].phase = phase
               /\ request'[c].sub = h.sub /\ request'[c].report = h.report
               /\ request'[c].reply \in {"error", "retry"}
    <3>1. request'[c] = [h EXCEPT !.phase = phase, !.reply = reply]
      BY <1>1, <2>2 DEF Then
    <3> HIDE DEF h
    <3> QED
      BY <1>1, <3>1 DEF Handler, Replies
  <2> QED
    BY <2>1, <2>2 DEF Quietly
<1>4. request' \in [Slots -> Handler]
  <2>1. request' = [d \in Slots |-> request'[d]]
    BY <1>1 DEF Quietly, Go, Then
  <2> HIDE DEF h
  <2> QED
    BY <1>1, <1>2, <1>3, <2>1
<1>5. ReportsOwnAnswers'
  BY <1>1, <1>2, <1>3 DEF ReportsOwnAnswers
<1> QED
  BY <1>2, <1>3, <1>4, <1>5

\* A step on the rows of a handler that neither pays nor comes to ask.
LEMMA QuietStep ==
  ASSUME ServerInv, NEW c \in Slots, NEW phase \in Phases \ {"completing", "asking"},
         Quietly(c, phase), RowsFollow(c), RowsOK', payments' = payments,
         batch' \in [1..MaxKeys -> {"none", "running", "completed", "failed"}],
         phase \in Working => request[c].phase \in Working
  PROVE  HandlerStep(c)
<1>1. /\ request' \in [Slots -> Handler] /\ ReportsOwnAnswers'
      /\ \A d \in Slots : d # c => request'[d] = request[d]
      /\ request'[c].sub = request[c].sub /\ request'[c].phase = phase
  BY QuietHandler
<1>2. ServerTypeOK'
  BY <1>1 DEF ServerInv, ServerTypeOK, RowsOK
<1> QED
  BY <1>1, <1>2 DEF HandlerStep

\* What the inductive invariant says of the types and the rows.
LEMMA ServerFacts ==
  ASSUME ServerInv
  PROVE  /\ RowsOK /\ rows \subseteq Row
         /\ request \in [Slots -> Handler]
         /\ batch \in [1..MaxKeys -> {"none", "running", "completed", "failed"}]
         /\ payments \subseteq Payment /\ IsFiniteSet(payments)
         /\ \A c \in Slots : request[c] \in Handler /\ request[c].sub \in Submission
                               /\ request[c].report \in GradedReport
BY DEF ServerInv, ServerTypeOK, RowsOK, Handler

\* reserve_mock_interview_attempt: a lease only where no row of the session is left.
LEMMA ReserveKeeps ==
  ASSUME ServerInv, NEW c \in Slots, Reserve(c)
  PROVE  HandlerStep(c)
<1> DEFINE sub == request[c].sub
           expired == {r \in rows : Expired(r)}
           own == {r \in expired : r.sub.key = sub.key}
           lease == [sub |-> sub, status |-> "reserved", holder |-> {c},
                     dispatched |-> FALSE, live |-> TRUE, report |-> NoReport]
<1>1. PICK old \in SUBSET (expired \ own) :
        LET kept == Swept(old \cup own)
            sameKey == {r \in kept : r.sub.key = sub.key}
            sameSession == {r \in kept : r.sub.session = sub.session}
        IN \/ /\ sameKey \cup sameSession = {}
              /\ rows' = kept \cup {lease}
              /\ Go(c, "testing") \/ Answer(c, "error")
           \/ /\ sameKey \cup sameSession # {}
              /\ rows' = kept
              /\ \/ \E r \in sameKey :
                      /\ r.sub = sub /\ r.status = "completed"
                      /\ request' = [request EXCEPT ![c].phase = "answered",
                           ![c].reply = "report", ![c].report = r.report]
                 \/ Answer(c, "error")
  BY DEF Reserve
<1> DEFINE kept == Swept(old \cup own)
<1>2. At(c, "sent") /\ batch' = batch /\ payments' = payments
  BY DEF Reserve
<1>3. /\ RowsOK /\ request \in [Slots -> Handler] /\ request[c] \in Handler /\ sub \in Submission
      /\ batch' \in [1..MaxKeys -> {"none", "running", "completed", "failed"}]
      /\ payments \subseteq Payment /\ IsFiniteSet(payments)
  BY <1>2, ServerFacts
<1>4. old \cup own \in SUBSET {r \in rows : Expired(r)}
  OBVIOUS
<1>5. /\ kept \subseteq Row
      /\ \A s, t \in kept : s.sub.session = t.sub.session => s = t
      /\ \A s \in kept : EndedWell(s)
      /\ \A r \in rows : r.dispatched => \E s \in kept :
           /\ s.sub = r.sub /\ s.dispatched
           /\ \/ s.status = r.status /\ s.holder = r.holder
              \/ r.status = "reserved" /\ s.status = "failed" /\ s.holder = {}
  BY <1>3, <1>4, SweepKeepsRows
<1> HIDE DEF kept
<1>6. CASE /\ \A r \in kept : r.sub.session # sub.session
           /\ rows' = kept \cup {lease}
           /\ Go(c, "testing") \/ Answer(c, "error")
  <2>1. lease \in Row /\ EndedWell(lease) /\ lease.sub = sub /\ ~ lease.dispatched
    BY <1>3 DEF Row, EndedWell, GradedReport, NoReport, Texts
  <2> HIDE DEF lease
  <2>2. RowsOK'
    BY <1>5, <1>6, <2>1 DEF RowsOK, OneRowPerSession
  <2>3. RowsFollow(c)
    BY <1>5, <1>6 DEF RowsFollow, Follows
  <2>4. CASE Go(c, "testing")
    <3>1. /\ request' \in [Slots -> Handler] /\ ReportsOwnAnswers'
          /\ \A d \in Slots : d # c => request'[d] = request[d]
          /\ request'[c].sub = request[c].sub /\ request'[c].phase = "testing"
      BY <2>4, QuietHandler DEF Quietly, Phases
    <3>2. ServerTypeOK'
      BY <1>2, <1>3, <2>2, <3>1 DEF ServerTypeOK, RowsOK
    <3>3. \A s \in rows' : s.sub.session = request[c].sub.session => ~ s.dispatched
      BY <1>6, <2>1
    <3> QED
      BY <1>2, <2>2, <2>3, <3>1, <3>2, <3>3 DEF HandlerStep
  <2>5. CASE Answer(c, "error")
    BY <1>2, <1>3, <2>2, <2>3, <2>5, QuietStep DEF Answer, Quietly, Phases, Working
  <2> QED
    BY <1>6, <2>4, <2>5
<1>7. CASE /\ rows' = kept
           /\ \/ \E r \in kept :
                   /\ r.sub = sub /\ r.status = "completed"
                   /\ request' = [request EXCEPT ![c].phase = "answered",
                        ![c].reply = "report", ![c].report = r.report]
              \/ Answer(c, "error")
  <2>1. RowsOK'
    BY <1>5, <1>7 DEF RowsOK, OneRowPerSession
  <2>2. RowsFollow(c)
    <3> SUFFICES ASSUME NEW r \in rows, r.dispatched
                 PROVE  \E s \in rows' : Follows(c, r, s)
      BY DEF RowsFollow
    <3>1. PICK s \in kept : /\ s.sub = r.sub /\ s.dispatched
                            /\ \/ s.status = r.status /\ s.holder = r.holder
                               \/ r.status = "reserved" /\ s.status = "failed" /\ s.holder = {}
      BY <1>5
    <3> QED
      BY <1>7, <3>1 DEF Follows
  <2>3. CASE Answer(c, "error")
    BY <1>2, <1>3, <2>1, <2>2, <2>3, QuietStep DEF Answer, Quietly, Phases, Working
  <2>4. CASE \E r \in kept :
               /\ r.sub = sub /\ r.status = "completed"
               /\ request' = [request EXCEPT ![c].phase = "answered",
                    ![c].reply = "report", ![c].report = r.report]
    <3>1. PICK r \in kept :
            /\ r.sub = sub /\ r.status = "completed"
            /\ request' = [request EXCEPT ![c].phase = "answered",
                 ![c].reply = "report", ![c].report = r.report]
      BY <2>4
    <3> DEFINE h == request[c]
    <3>2. r.report \in GradedReport /\ r.report.work = h.sub.work
      BY <1>5, <3>1 DEF Row, EndedWell
    <3>3. request'[c] = [h EXCEPT !.phase = "answered", !.reply = "report", !.report = r.report]
      BY <1>3, <3>1
    <3>4. h \in Handler
      BY <1>3
    <3> HIDE DEF h
    <3>5. /\ request'[c] \in Handler /\ request'[c].phase = "answered"
          /\ request'[c].sub = h.sub /\ request'[c].report = r.report
      BY <3>2, <3>3, <3>4 DEF Handler, Phases, Replies
    <3>6. \A d \in Slots : d # c => request'[d] = request[d]
      BY <1>3, <3>1
    <3>7. request' \in [Slots -> Handler]
      <4>1. request' = [d \in Slots |-> request'[d]]
        BY <1>3, <3>1
      <4> QED
        BY <1>3, <3>5, <3>6, <4>1
    <3>8. ReportsOwnAnswers'
      BY <3>2, <3>5, <3>6 DEF ReportsOwnAnswers, ServerInv
    <3>9. ServerTypeOK'
      BY <1>2, <1>3, <2>1, <3>7 DEF ServerTypeOK, RowsOK
    <3>10. request'[c].sub = request[c].sub
      BY <3>5 DEF h
    <3> QED
      BY <1>2, <2>1, <2>2, <3>5, <3>6, <3>8, <3>9, <3>10 DEF HandlerStep, Working
  <2> QED
    BY <1>7, <2>3, <2>4
<1> QED
  BY <1>1, <1>6, <1>7 DEF kept

\* The steps that leave the rows alone: a refusal, the hidden tests, a death.
LEMMA RestingKeeps ==
  ASSUME ServerInv, NEW c \in Slots,
         ReserveRefused(c) \/ HiddenTests(c) \/ Executed(c) \/ Die(c)
  PROVE  HandlerStep(c)
<1>1. rows' = rows /\ payments' = payments
  BY DEF ReserveRefused, HiddenTests, Executed, Die
<1>2. RowsFollow(c) /\ RowsOK'
  BY <1>1, ServerFacts, SameRowsFollow
<1>3. batch \in [1..MaxKeys -> {"none", "running", "completed", "failed"}]
  BY ServerFacts
<1>4. batch' \in [1..MaxKeys -> {"none", "running", "completed", "failed"}]
  BY <1>3 DEF ReserveRefused, HiddenTests, Executed, Die
<1>5. \E phase \in Phases \ {"completing", "asking"} :
        Quietly(c, phase) /\ (phase \in Working => request[c].phase \in Working)
  <2>1. CASE ReserveRefused(c)
    BY <2>1 DEF ReserveRefused, Answer, Quietly, Phases, Working
  <2>2. CASE HiddenTests(c)
    BY <2>2 DEF HiddenTests, At, Quietly, Phases, Working
  <2>3. CASE Executed(c)
    BY <2>3 DEF Executed, At, Quietly, Phases, Working
  <2>4. CASE Die(c)
    BY <2>4 DEF Die, Answer, Quietly, Phases, Working
  <2> QED
    BY <2>1, <2>2, <2>3, <2>4
<1> QED
  BY <1>1, <1>2, <1>4, <1>5, QuietStep

\* One's own row becomes another of its submission.
LEMMA BecomeKeepsRows ==
  ASSUME ServerInv, NEW c \in Slots, NEW r \in Mine(c), NEW s \in Row, Become(c, s),
         EndedWell(s), s.sub = r.sub, r.dispatched => s.dispatched,
         \/ s.status = r.status /\ s.holder = r.holder
         \/ r.status = "reserved" /\ s.status = "failed" /\ s.holder = {}
         \/ At(c, "completing") /\ s.status = "completed"
  PROVE  RowsOK' /\ RowsFollow(c)
<1>1. RowsOK /\ Mine(c) = {r} /\ r \in rows
  BY ServerFacts, MineIsOne
<1>2. rows' = (rows \ {r}) \cup {s}
  BY <1>1 DEF Become
<1>3. RowsOK'
  BY <1>1, <1>2, RowReplaced
<1>4. \A q \in rows : q # r => q \in rows'
  BY <1>2
<1>5. s \in rows' /\ Follows(c, r, s)
  BY <1>2 DEF Follows
<1>6. \A q \in rows : Follows(c, q, q)
  BY DEF Follows
<1>7. RowsFollow(c)
  BY <1>4, <1>5, <1>6 DEF RowsFollow
<1> QED
  BY <1>3, <1>7

\* The mark, confirmed or not.
LEMMA StartKeeps ==
  ASSUME ServerInv, NEW c \in Slots, Start(c)
  PROVE  HandlerStep(c)
<1>1. At(c, "starting") /\ batch' = batch /\ payments' = payments
  BY DEF Start
<1>2. RowsOK /\ \A r \in rows : r \in Row /\ EndedWell(r)
  BY ServerFacts DEF RowsOK
<1>3. batch' \in [1..MaxKeys -> {"none", "running", "completed", "failed"}]
  BY <1>1, ServerFacts
<1>4. CASE Then(c, "releasing", "error") /\ rows' = rows
  BY <1>1, <1>2, <1>3, <1>4, SameRowsFollow, QuietStep DEF Quietly, Phases, Working, At
<1>5. ASSUME NEW r \in Held(c), Become(c, [r EXCEPT !.dispatched = TRUE]),
             Go(c, "asking") \/ Then(c, "releasing", "error")
      PROVE  HandlerStep(c)
  <2> DEFINE s == [r EXCEPT !.dispatched = TRUE]
  <2>1. r \in Mine(c) /\ r \in Row /\ r.live /\ EndedWell(r) /\ r.sub = request[c].sub
          /\ r.holder = {c} /\ r \in rows
    BY <1>2 DEF Held, Mine
  <2>2. /\ s \in Row /\ s.sub = r.sub /\ s.status = r.status /\ s.holder = r.holder
        /\ s.dispatched /\ s.report = r.report
    BY <2>1 DEF Row
  <2>3. r.status = "reserved"
    BY <2>1 DEF EndedWell
  <2>4. Become(c, s)
    BY <1>5
  <2> HIDE DEF s
  <2>5. EndedWell(s)
    BY <2>1, <2>2 DEF EndedWell
  <2>6. RowsOK' /\ RowsFollow(c)
    BY <2>1, <2>2, <2>4, <2>5, BecomeKeepsRows
  <2>7. CASE Then(c, "releasing", "error")
    BY <1>1, <1>3, <2>6, <2>7, QuietStep DEF Quietly, Phases, Working, At
  <2>8. CASE Go(c, "asking")
    <3>1. /\ request' \in [Slots -> Handler] /\ ReportsOwnAnswers'
          /\ \A d \in Slots : d # c => request'[d] = request[d]
          /\ request'[c].sub = request[c].sub /\ request'[c].phase = "asking"
      BY <2>8, QuietHandler DEF Quietly, Phases
    <3>2. ServerTypeOK'
      BY <1>1, <1>3, <2>6, <3>1, ServerFacts DEF ServerTypeOK, RowsOK
    <3>3. s \in rows' /\ s.sub = request[c].sub /\ s.dispatched
            /\ s.status = "reserved" /\ s.holder = {c}
      BY <2>1, <2>2, <2>3, <2>4 DEF Become
    <3>4. request[c].phase \in Working
      BY <1>1 DEF At, Working
    <3> QED
      BY <1>1, <2>1, <2>3, <2>6, <3>1, <3>2, <3>3, <3>4 DEF HandlerStep
  <2> QED
    BY <1>5, <2>7, <2>8
<1> QED
  BY <1>1, <1>4, <1>5 DEF Start

\* The payment that Pay books.
LEMMA PayBooksOne ==
  ASSUME ServerInv, NEW c \in Slots, Pay(c)
  PROVE  /\ payments' \subseteq Payment /\ IsFiniteSet(payments')
         /\ \E nr \in Nat : payments' = payments \cup
              {[sub |-> request[c].sub, nr |-> nr, deleted |-> FALSE]}
         /\ Cardinality(payments) + 1 \in Nat
<1> DEFINE nr == Cardinality(payments) + 1
           new == [sub |-> request[c].sub, nr |-> nr, deleted |-> FALSE]
<1>1. /\ payments \subseteq Payment /\ IsFiniteSet(payments)
      /\ request[c].sub \in Submission
  BY ServerFacts
<1>2. nr \in Nat
  BY <1>1, FS_CardinalityType
<1>3. payments' = payments \cup {new}
  BY DEF Pay
<1>4. new \in Payment
  BY <1>1, <1>2 DEF Payment
<1>5. IsFiniteSet(payments')
  BY <1>1, <1>3, FS_AddElement
<1> HIDE DEF nr
<1> QED
  BY <1>1, <1>2, <1>3, <1>4, <1>5 DEF nr

\* The provider is asked, once, by a handler that goes on without paying again.
LEMMA AskKeeps ==
  ASSUME ServerInv, NEW c \in Slots, Ask(c)
  PROVE  HandlerStep(c)
<1>1. At(c, "asking") /\ rows' = rows /\ batch' = batch
  BY DEF Ask
<1>2. RowsFollow(c) /\ RowsOK'
  BY <1>1, ServerFacts, SameRowsFollow
<1>3. /\ batch' \in [1..MaxKeys -> {"none", "running", "completed", "failed"}]
      /\ request \in [Slots -> Handler] /\ request[c] \in Handler /\ rows \subseteq Row
  BY <1>1, ServerFacts
<1>4. CASE UNCHANGED payments /\ (Go(c, "starting") \/ Then(c, "releasing", "error"))
  BY <1>1, <1>2, <1>3, <1>4, QuietStep DEF Quietly, Phases, Working, At
<1>5. CASE Pay(c) /\ Then(c, "failing", "error")
  <2>1. /\ request' \in [Slots -> Handler] /\ ReportsOwnAnswers'
        /\ \A d \in Slots : d # c => request'[d] = request[d]
        /\ request'[c].sub = request[c].sub /\ request'[c].phase = "failing"
    BY <1>5, QuietHandler DEF Quietly, Phases
  <2>2. /\ payments' \subseteq Payment /\ IsFiniteSet(payments')
        /\ \E nr \in Nat : payments' = payments \cup
             {[sub |-> request[c].sub, nr |-> nr, deleted |-> FALSE]}
    BY <1>5, PayBooksOne
  <2>3. ServerTypeOK'
    BY <1>1, <1>3, <2>1, <2>2 DEF ServerTypeOK
  <2> QED
    BY <1>1, <1>2, <2>1, <2>2, <2>3 DEF HandlerStep, Working
<1>6. CASE /\ Pay(c)
           /\ request' = [request EXCEPT ![c].phase = "completing",
                ![c].report = [work |-> request[c].sub.work, nr |-> Cardinality(payments) + 1]]
  <2> DEFINE h == request[c]
             report == [work |-> h.sub.work, nr |-> Cardinality(payments) + 1]
  <2>1. /\ payments' \subseteq Payment /\ IsFiniteSet(payments')
        /\ \E nr \in Nat : payments' = payments \cup
             {[sub |-> request[c].sub, nr |-> nr, deleted |-> FALSE]}
        /\ Cardinality(payments) + 1 \in Nat
    BY <1>6, PayBooksOne
  <2>2. report \in GradedReport /\ report.work = h.sub.work
    BY <1>3, <2>1 DEF GradedReport, Handler, Submission
  <2>3. request'[c] = [h EXCEPT !.phase = "completing", !.report = report]
    BY <1>3, <1>6
  <2>4. h \in Handler
    BY <1>3
  <2> HIDE DEF h, report
  <2>5. /\ request'[c] \in Handler /\ request'[c].phase = "completing"
        /\ request'[c].sub = h.sub /\ request'[c].report = report
    BY <2>2, <2>3, <2>4 DEF Handler, Phases
  <2>6. \A d \in Slots : d # c => request'[d] = request[d]
    BY <1>3, <1>6
  <2>7. request' \in [Slots -> Handler]
    <3>1. request' = [d \in Slots |-> request'[d]]
      BY <1>3, <1>6
    <3> QED
      BY <1>3, <2>5, <2>6, <3>1
  <2>8. ReportsOwnAnswers'
    BY <2>2, <2>5, <2>6 DEF ReportsOwnAnswers, ServerInv
  <2>9. ServerTypeOK'
    BY <1>1, <1>3, <2>1, <2>7 DEF ServerTypeOK
  <2>10. request'[c].sub = request[c].sub
    BY <2>5 DEF h
  <2> QED
    BY <1>1, <1>2, <2>1, <2>5, <2>6, <2>8, <2>9, <2>10 DEF HandlerStep, Working
<1> QED
  BY <1>4, <1>5, <1>6 DEF Ask

\* A report goes to its row and to the browser, or to the browser alone.
LEMMA CompleteKeeps ==
  ASSUME ServerInv, NEW c \in Slots, Complete(c)
  PROVE  HandlerStep(c)
<1> DEFINE h == request[c]
<1>1. At(c, "completing") /\ batch' = batch /\ payments' = payments
  BY DEF Complete
<1>2. /\ batch' \in [1..MaxKeys -> {"none", "running", "completed", "failed"}]
      /\ request \in [Slots -> Handler] /\ h \in Handler /\ RowsOK
      /\ payments \subseteq Payment /\ IsFiniteSet(payments)
      /\ h.report \in GradedReport
  BY <1>1, ServerFacts
<1>3. h.report.work = h.sub.work
  BY <1>1 DEF ServerInv, ReportsOwnAnswers, At
<1>4. CASE Then(c, "failing", "error") /\ UNCHANGED rows
  BY <1>1, <1>2, <1>4, SameRowsFollow, QuietStep DEF Quietly, Phases, Working, At
<1>5. ASSUME NEW phase \in {"answered", "failing"}, Then(c, phase, "report"),
             RowsOK', RowsFollow(c)
      PROVE  HandlerStep(c)
  <2>1. request'[c] = [h EXCEPT !.phase = phase, !.reply = "report"]
    BY <1>2, <1>5 DEF Then
  <2>2. h.sub = request[c].sub /\ h \in Handler /\ h.report.work = h.sub.work
    BY <1>2, <1>3
  <2>3. \A d \in Slots : d # c => request'[d] = request[d]
    BY <1>2, <1>5 DEF Then
  <2> HIDE DEF h
  <2>4. /\ request'[c] \in Handler /\ request'[c].phase = phase
        /\ request'[c].sub = h.sub /\ request'[c].report = h.report
    BY <2>1, <2>2 DEF Handler, Phases, Replies
  <2>5. request' \in [Slots -> Handler]
    <3>1. request' = [d \in Slots |-> request'[d]]
      BY <1>2, <1>5 DEF Then
    <3> QED
      BY <1>2, <2>3, <2>4, <3>1
  <2>6. ReportsOwnAnswers'
    BY <2>2, <2>3, <2>4 DEF ReportsOwnAnswers, ServerInv
  <2>7. ServerTypeOK'
    BY <1>1, <1>2, <1>5, <2>5 DEF ServerTypeOK, RowsOK
  <2>8. request'[c].phase \notin Working
    BY <2>4 DEF Working
  <2>9. request'[c].phase # "asking"
    BY <2>4
  <2> QED
    BY <1>1, <1>5, <2>2, <2>3, <2>4, <2>6, <2>7, <2>8, <2>9 DEF HandlerStep
<1>6. CASE rows' = rows /\ Then(c, "failing", "report")
  BY <1>2, <1>5, <1>6, SameRowsFollow
<1>7. ASSUME NEW r \in Held(c), Become(c, Ended(r, "completed", h.report)),
             Answer(c, "report") \/ Then(c, "failing", "report")
      PROVE  HandlerStep(c)
  <2> DEFINE s == Ended(r, "completed", h.report)
  <2>1. r \in Mine(c) /\ r \in Row /\ r.sub = h.sub
    BY <1>2 DEF Held, Mine, RowsOK
  <2>2. /\ s \in Row /\ s.sub = r.sub /\ s.dispatched = r.dispatched
        /\ s.status = "completed" /\ s.holder = {} /\ s.report = h.report
    BY <1>2, <2>1, EndOfRow
  <2>3. Become(c, s)
    BY <1>7
  <2> HIDE DEF s, h
  <2>4. EndedWell(s)
    BY <1>3, <2>1, <2>2 DEF EndedWell
  <2>5. RowsOK' /\ RowsFollow(c)
    BY <1>1, <2>1, <2>2, <2>3, <2>4, BecomeKeepsRows
  <2> QED
    BY <1>5, <1>7, <2>5 DEF Answer
<1> QED
  BY <1>4, <1>6, <1>7 DEF Complete, Answer

\* fail_mock_interview_attempt, release_ and abort_mock_interview_attempt.
LEMMA EndingKeeps ==
  ASSUME ServerInv, NEW c \in Slots, Terminate(c) \/ GiveBack(c)
  PROVE  HandlerStep(c)
<1>1. /\ batch' = batch /\ payments' = payments
      /\ Go(c, "answered") \/ Answer(c, "error")
  BY DEF Terminate, GiveBack
<1>2. RowsOK /\ batch' \in [1..MaxKeys -> {"none", "running", "completed", "failed"}]
  BY <1>1, ServerFacts
<1>3. ASSUME RowsOK', RowsFollow(c) PROVE HandlerStep(c)
  BY <1>1, <1>2, <1>3, QuietStep DEF Answer, Quietly, Phases, Working
<1>4. CASE rows' = rows
  BY <1>2, <1>3, <1>4, SameRowsFollow
<1>5. ASSUME NEW r \in Held(c), Become(c, Ended(r, "failed", NoReport))
      PROVE  HandlerStep(c)
  <2> DEFINE s == Ended(r, "failed", NoReport)
  <2>1. r \in Mine(c) /\ r \in Row /\ EndedWell(r) /\ r.holder = {c}
    BY <1>2 DEF Held, Mine, RowsOK
  <2>2. /\ s \in Row /\ s.sub = r.sub /\ s.dispatched = r.dispatched
        /\ s.status = "failed" /\ s.holder = {}
    BY <2>1, EndOfRow DEF NoReport, GradedReport, Texts
  <2>3. r.status = "reserved"
    BY <2>1 DEF EndedWell
  <2>4. Become(c, s)
    BY <1>5
  <2> HIDE DEF s
  <2> QED
    BY <1>3, <2>1, <2>2, <2>3, <2>4, BecomeKeepsRows DEF EndedWell
<1>6. CASE At(c, "releasing") /\ rows' = rows \ Mine(c)
  BY <1>2, <1>3, <1>6, FewerRows DEF RowsFollow, Follows
<1>7. CASE (\A r \in Mine(c) : ~ r.dispatched) /\ rows' = rows \ Mine(c)
  BY <1>2, <1>3, <1>7, FewerRows DEF RowsFollow, Follows
<1> QED
  BY <1>4, <1>5, <1>6, <1>7 DEF Terminate, GiveBack

\* Every step of a report's handler keeps it.
LEMMA ReportKeepsInv ==
  ASSUME ServerInv, NEW c \in Slots, Report(c)
  PROVE  ServerInv'
BY ReserveKeeps, RestingKeeps, StartKeeps, AskKeeps, CompleteKeeps, EndingKeeps,
   HandlerStepKeepsInv DEF Report

\* A step of no handler that keeps the dispatched rows of the sessions still
\* counted as paid.
LEMMA OutsideKeepsPayments ==
  ASSUME ServerInv, request' = request, RowsOK',
         batch' \in [1..MaxKeys -> {"none", "running", "completed", "failed"}],
         payments' \subseteq Payment, IsFiniteSet(payments'),
         \A p \in payments' : ~ p.deleted => p \in payments,
         \A p \in payments' : p.deleted \/ p \in payments,
         \A r \in rows : r.dispatched =>
           \/ \E s \in rows' : /\ s.sub = r.sub /\ s.dispatched
                               /\ s.status = r.status /\ s.holder = r.holder
           \/ /\ r.status = "completed"
              /\ \A p \in payments' : p.sub.session = r.sub.session => p.deleted
  PROVE  ServerInv'
<1>1. /\ AskingHoldsRow /\ AskingIsUnpaid /\ PaidHasRow /\ OnePaidReport /\ ReportsOwnAnswers
      /\ ServerTypeOK
  BY DEF ServerInv
<1>2. AskingHoldsRow'
  <2>1. ASSUME NEW d \in Slots, At(d, "asking") PROVE \E s \in rows' : HoldsOrFailed(d, s)'
    <3>1. PICK r \in rows : HoldsOrFailed(d, r)
      BY <1>1, <2>1 DEF AskingHoldsRow
    <3>2. PICK s \in rows' : /\ s.sub = r.sub /\ s.dispatched
                             /\ s.status = r.status /\ s.holder = r.holder
      BY <3>1 DEF HoldsOrFailed
    <3> QED
      BY <3>1, <3>2 DEF HoldsOrFailed
  <2> QED
    BY <2>1 DEF AskingHoldsRow, At
<1>3. AskingIsUnpaid'
  BY <1>1 DEF AskingIsUnpaid, At
<1>4. PaidHasRow'
  <2>1. ASSUME NEW p \in payments', ~ p.deleted
        PROVE  \E s \in rows' : s.sub.session = p.sub.session /\ KeepsPaidRow(s)'
    <3>1. PICK r \in rows : r.sub.session = p.sub.session /\ KeepsPaidRow(r)
      BY <1>1, <2>1 DEF PaidHasRow
    <3>2. PICK s \in rows' : /\ s.sub = r.sub /\ s.dispatched
                             /\ s.status = r.status /\ s.holder = r.holder
      BY <2>1, <3>1 DEF KeepsPaidRow
    <3>3. \A d \in Slots : s \in Mine(d)' => r \in Mine(d)
      BY <3>2 DEF Mine
    <3> QED
      BY <3>1, <3>2, <3>3 DEF KeepsPaidRow
  <2> QED
    BY <2>1 DEF PaidHasRow
<1>5. OnePaidReport'
  BY <1>1 DEF OnePaidReport
<1>6. ReportsOwnAnswers' /\ ServerTypeOK'
  BY <1>1 DEF ReportsOwnAnswers, ServerTypeOK, RowsOK
<1> QED
  BY <1>2, <1>3, <1>4, <1>5, <1>6 DEF ServerInv, RowsOK

\* A lease or a batch expires.
LEMMA ExpireKeepsInv ==
  ASSUME ServerInv, Expire
  PROVE  ServerInv'
<1>1. request' = request /\ payments' = payments
  BY DEF Expire
<1>2. /\ RowsOK /\ payments \subseteq Payment /\ IsFiniteSet(payments)
      /\ batch \in [1..MaxKeys -> {"none", "running", "completed", "failed"}]
  BY ServerFacts
<1>3. batch' \in [1..MaxKeys -> {"none", "running", "completed", "failed"}]
  BY <1>2 DEF Expire
<1>4. CASE rows' = rows
  BY <1>1, <1>2, <1>3, <1>4, SameRowsFollow, OutsideKeepsPayments
<1>5. ASSUME NEW r \in rows, rows' = (rows \ {r}) \cup {[r EXCEPT !.live = FALSE]}
      PROVE  ServerInv'
  <2> DEFINE s == [r EXCEPT !.live = FALSE]
  <2>1. r \in Row /\ EndedWell(r)
    BY <1>2 DEF RowsOK
  <2>2. /\ s \in Row /\ s.sub = r.sub /\ s.dispatched = r.dispatched /\ s.status = r.status
        /\ s.holder = r.holder /\ s.report = r.report
    BY <2>1 DEF Row
  <2>3. rows' = (rows \ {r}) \cup {s}
    BY <1>5
  <2> HIDE DEF s
  <2>4. EndedWell(s)
    BY <2>1, <2>2 DEF EndedWell
  <2>5. RowsOK'
    BY <1>2, <2>2, <2>3, <2>4, RowReplaced
  <2>6. \A q \in rows : \E t \in rows' : /\ t.sub = q.sub /\ t.dispatched = q.dispatched
                                         /\ t.status = q.status /\ t.holder = q.holder
    BY <2>2, <2>3
  <2> QED
    BY <1>1, <1>2, <1>3, <2>5, <2>6, OutsideKeepsPayments
<1> QED
  BY <1>4, <1>5 DEF Expire

\* The owner deletes a report, or a lease that was never dispatched.
LEMMA OwnerDeletesKeepsInv ==
  ASSUME ServerInv, OwnerDeletes
  PROVE  ServerInv'
<1>1. PICK r \in rows :
        /\ r.status = "completed" \/ (Expired(r) /\ ~ r.dispatched)
        /\ rows' = rows \ {r}
        /\ payments' = {IF p.sub.session = r.sub.session THEN [p EXCEPT !.deleted = TRUE] ELSE p :
                          p \in payments}
  BY DEF OwnerDeletes
<1>2. /\ RowsOK /\ payments \subseteq Payment /\ IsFiniteSet(payments)
      /\ batch \in [1..MaxKeys -> {"none", "running", "completed", "failed"}]
  BY ServerFacts
<1>3. request' = request /\ batch' = batch
  BY DEF OwnerDeletes
<1>4. RowsOK'
  BY <1>1, <1>2, FewerRows
<1> DEFINE f(p) == IF p.sub.session = r.sub.session THEN [p EXCEPT !.deleted = TRUE] ELSE p
<1>5. ASSUME NEW p \in payments
      PROVE  /\ f(p) \in Payment /\ f(p).sub = p.sub
             /\ f(p).deleted \/ f(p) = p
             /\ p.sub.session = r.sub.session => f(p).deleted
  <2>1. p \in Payment
    BY <1>2
  <2>2. CASE p.sub.session = r.sub.session
    <3>1. f(p) = [p EXCEPT !.deleted = TRUE]
      BY <2>2
    <3> HIDE DEF f
    <3> QED
      BY <2>1, <3>1 DEF Payment
  <2>3. CASE p.sub.session # r.sub.session
    BY <2>1, <2>3
  <2> QED
    BY <2>2, <2>3
<1>6. payments' = {f(p) : p \in payments}
  BY <1>1
<1> HIDE DEF f
<1>7. IsFiniteSet(payments')
  <2> DEFINE g == [p \in payments |-> f(p)]
  <2>1. g \in Surjection(payments, payments')
    BY <1>6 DEF Surjection
  <2> HIDE DEF g
  <2> QED
    BY <1>2, <2>1, FS_Surjection
<1>8. /\ payments' \subseteq Payment
      /\ \A p \in payments' : p.deleted \/ p \in payments
      /\ \A p \in payments' : p.sub.session = r.sub.session => p.deleted
  BY <1>5, <1>6
<1>9. \A q \in rows : q.dispatched =>
        \/ \E s \in rows' : /\ s.sub = q.sub /\ s.dispatched
                            /\ s.status = q.status /\ s.holder = q.holder
        \/ /\ q.status = "completed"
           /\ \A p \in payments' : p.sub.session = q.sub.session => p.deleted
  BY <1>1, <1>8
<1> QED
  BY <1>2, <1>3, <1>4, <1>7, <1>8, <1>9, OutsideKeepsPayments

\* The browser sends a submission to an idle handler, or hears its answer.
LEMMA BrowserKeepsServer ==
  ASSUME ServerInv, NEW c \in Slots, NEW h \in Handler,
         h.phase \in {"sent", "idle"}, h.reply # "report",
         request' = [request EXCEPT ![c] = h], UNCHANGED <<rows, batch, payments>>
  PROVE  ServerInv'
<1>1. /\ AskingHoldsRow /\ AskingIsUnpaid /\ PaidHasRow /\ OnePaidReport /\ ReportsOwnAnswers
      /\ ServerTypeOK /\ RowsOK /\ request \in [Slots -> Handler]
  BY ServerFacts DEF ServerInv
<1>2. request'[c] = h /\ \A d \in Slots : d # c => request'[d] = request[d]
  BY <1>1
<1>3. \A d \in Slots : At(d, "asking")' => At(d, "asking") /\ request'[d] = request[d]
  BY <1>2 DEF At
<1>4. AskingHoldsRow'
  BY <1>1, <1>3 DEF AskingHoldsRow, HoldsOrFailed
<1>5. AskingIsUnpaid'
  BY <1>1, <1>3 DEF AskingIsUnpaid
<1>6. PaidHasRow'
  <2>1. \A r : KeepsPaidRow(r) => KeepsPaidRow(r)'
    BY <1>2 DEF KeepsPaidRow, Mine, Working
  <2> QED
    BY <1>1, <2>1 DEF PaidHasRow
<1>7. OnePaidReport' /\ ReportsOwnAnswers' /\ ServerTypeOK' /\ RowsOK'
  BY <1>1, <1>2, SameRowsFollow DEF OnePaidReport, ReportsOwnAnswers, ServerTypeOK
<1> QED
  BY <1>4, <1>5, <1>6, <1>7 DEF ServerInv, RowsOK

-----------------------------------------------------------------------------
(* The browser's steps.                                                    *)

\* A step of the browser that sends and hears nothing leaves the server sound.
LEMMA SameServer ==
  ASSUME ServerInv, UNCHANGED <<rows, batch, request, payments>>
  PROVE  ServerInv'
<1>1. /\ RowsOK /\ payments \subseteq Payment /\ IsFiniteSet(payments)
      /\ batch \in [1..MaxKeys -> {"none", "running", "completed", "failed"}]
  BY ServerFacts
<1>2. RowsOK'
  BY <1>1, SameRowsFollow
<1> QED
  BY <1>1, <1>2, OutsideKeepsPayments

\* Facts the steps of the browser use.
LEMMA SessionFacts ==
  ASSUME SessionInv
  PROVE  /\ MaxKeys \in Nat /\ minted \in 0..MaxKeys
         /\ store \in Session /\ seen \in [Tabs -> Session] /\ store.rev \in Nat
         /\ request \in [Slots -> Handler]
         /\ StoreSound /\ SeenIsBehind /\ SubmittedAsStored /\ ShownIsGraded /\ NoAnswerReverted
         /\ NoSession \in Session
<1>1. MaxKeys \in Nat
  BY ReportAssumption
<1>2. store \in Session /\ minted \in 0..MaxKeys /\ seen \in [Tabs -> Session]
  BY DEF SessionInv, BrowserInv, BrowserTypeOK
<1>3. NoSession \in Session
  BY <1>1 DEF NoSession, Session, NoSubmission, Submission, NoReport, GradedReport, Texts
<1> QED
  BY <1>1, <1>2, <1>3 DEF SessionInv, BrowserInv, ServerInv, ServerTypeOK, Session

\* What a step may make of the stored session: the same answers under the same
\* key, one revision later, or none of it.
NextRevision(s) ==
  /\ s \in Session /\ s.rev = store.rev + 1 /\ s.id = store.id /\ store.id # 0
  /\ s.status # "none"
  /\ s.status = "in_progress" => s.key = 0
  /\ s.status = "evaluating" =>
       /\ s.key \in 1..minted'
       /\ s.frozen = [session |-> s.id, key |-> s.key, work |-> s.work]
  /\ s.status = "completed" => s.report.work = s.work

\* The tabs stay behind a session that moves on.
LEMMA RevisionKeepsStore ==
  ASSUME SessionInv, minted' \in 0..MaxKeys, minted <= minted', NextRevision(store'),
         seen' = seen
  PROVE  StoreSound' /\ SeenIsBehind' /\ ShownIsGraded'
<1>1. /\ store.rev \in Nat /\ SeenIsBehind /\ StoreSound /\ minted \in Nat /\ minted' \in Nat
      /\ store.id \in Nat /\ \A t \in Tabs : seen[t].id \in Nat /\ seen[t].rev \in Nat
  BY SessionFacts DEF Session
<1>2. StoreSound'
  BY <1>1 DEF StoreSound, NextRevision
<1>3. SeenIsBehind'
  BY <1>1 DEF SeenIsBehind, NextRevision
<1>4. ShownIsGraded'
  BY DEF ShownIsGraded, NextRevision
<1> QED
  BY <1>2, <1>3, <1>4

\* Storage, tabs and keys as they were.
LEMMA SameStore ==
  ASSUME SessionInv, UNCHANGED <<store, minted>>,
         seen' = seen \/ (\E t \in Tabs : seen' = [seen EXCEPT ![t] = store])
  PROVE  /\ StoreSound' /\ SeenIsBehind' /\ ShownIsGraded' /\ seen' \in [Tabs -> Session]
         /\ minted' \in 0..MaxKeys
<1>1. /\ store.rev \in Nat /\ SeenIsBehind /\ StoreSound /\ ShownIsGraded
      /\ seen \in [Tabs -> Session] /\ store \in Session /\ minted \in 0..MaxKeys
  BY SessionFacts
<1>2. \A t \in Tabs : seen'[t] = seen[t] \/ seen'[t] = store
  BY <1>1
<1>3. store.rev <= store.rev /\ store.id <= minted
  BY <1>1 DEF StoreSound
<1>4. SeenIsBehind'
  BY <1>1, <1>2, <1>3 DEF SeenIsBehind, StoreSound
<1>5. StoreSound' /\ ShownIsGraded'
  BY <1>1 DEF StoreSound, ShownIsGraded
<1> QED
  BY <1>1, <1>4, <1>5

\* A tab that may act on the stored revision has rendered the stored session.
LEMMA SeenIsStore ==
  ASSUME SessionInv, NEW t \in Tabs, SameRevision(store, seen[t])
  PROVE  seen[t] = store
BY SessionFacts DEF SeenIsBehind, SameRevision

\* Submissions under way when neither key nor answers change under them.
LEMMA SubmissionsKept ==
  ASSUME SessionInv, minted' \in 0..MaxKeys, minted <= minted',
         \A c \in Slots : request'[c] = request[c] \/ request'[c].phase = "idle",
         \/ store'.key = 0
         \/ store'.id = store.id /\ store'.key = store.key /\ store'.work = store.work
  PROVE  SubmittedAsStored'
<1>1. SubmittedAsStored /\ minted \in Nat /\ minted' \in Nat
  BY SessionFacts
<1> SUFFICES ASSUME NEW c \in Slots, request'[c] = request[c], request[c].phase # "idle"
             PROVE  /\ request[c].sub.session \in 1..minted' /\ request[c].sub.key \in 1..minted'
                    /\ Awaited(c)' => request[c].sub.work = store'.work
  BY DEF SubmittedAsStored
<1>2. /\ request[c].sub.session \in 1..minted /\ request[c].sub.key \in 1..minted
      /\ Awaited(c) => request[c].sub.work = store.work
  BY <1>1 DEF SubmittedAsStored
<1>3. Awaited(c)' => Awaited(c) /\ store'.work = store.work
  BY <1>1, <1>2 DEF Awaited
<1> QED
  BY <1>1, <1>2, <1>3

\* The conjuncts of the browser's invariant about what was typed.
TypedOK ==
  /\ typed \in [session : 0..MaxKeys, work : Texts]
  /\ NoAnswerReverted /\ (typed.session = 0 => typed.work = "blank") /\ typed.session <= minted

\* A step that keeps the answers of the stored session, or drops the session.
LEMMA TypedKept ==
  ASSUME SessionInv, typed' = typed, minted' \in 0..MaxKeys, minted <= minted',
         \/ store'.id = store.id /\ store'.work = store.work
         \/ store' = NoSession
  PROVE  TypedOK'
<1>1. NoAnswerReverted /\ minted \in Nat /\ minted' \in Nat
  BY SessionFacts
<1>2. /\ typed \in [session : 0..MaxKeys, work : Texts]
      /\ (typed.session = 0 => typed.work = "blank") /\ typed.session <= minted
  BY DEF SessionInv, BrowserInv, BrowserTypeOK
<1>3. typed.session \in Nat
  BY <1>2, SessionFacts
<1> QED
  BY <1>1, <1>2, <1>3 DEF TypedOK, NoAnswerReverted, NoSession

\* A tab hears of the store, or is loaded again.
LEMMA RefreshKeeps ==
  ASSUME SessionInv, NEW t \in Tabs, Refresh(t) \/ Reload(t)
  PROVE  SessionInv'
<1>1. /\ UNCHANGED <<rows, batch, request, payments, store, minted, typed>>
      /\ seen' = [seen EXCEPT ![t] = store]
  BY DEF Refresh, Reload, serverVars
<1>2. ServerInv'
  BY <1>1, SameServer DEF SessionInv
<1>3. /\ StoreSound' /\ SeenIsBehind' /\ ShownIsGraded' /\ seen' \in [Tabs -> Session]
      /\ minted' \in 0..MaxKeys
  BY <1>1, SameStore
<1>4. minted <= minted'
  BY <1>1, SessionFacts
<1>5. SubmittedAsStored' /\ TypedOK'
  BY <1>1, <1>3, <1>4, SubmissionsKept, TypedKept
<1>6. BrowserTypeOK'
  BY <1>1, <1>3 DEF SessionInv, BrowserInv, BrowserTypeOK, Refresh, Reload
<1> QED
  BY <1>2, <1>3, <1>5, <1>6 DEF SessionInv, BrowserInv, TypedOK

\* A session written is a session, and only its revision is new.
LEMMA Written ==
  ASSUME NEW next \in Session, NEW n \in Nat
  PROVE  LET s == [next EXCEPT !.rev = n]
         IN  /\ s \in Session /\ s.rev = n /\ s.id = next.id /\ s.status = next.status
             /\ s.work = next.work /\ s.frozen = next.frozen /\ s.key = next.key
             /\ s.report = next.report
BY DEF Session

\* The stored session with another mark of its sample run.
LEMMA SampleMarked ==
  ASSUME NEW s \in Session, NEW sample \in Texts, NEW pending \in Texts
  PROVE  LET n == [s EXCEPT !.sample = sample, !.pending = pending]
         IN  /\ n \in Session /\ n.id = s.id /\ n.status = s.status /\ n.work = s.work
             /\ n.frozen = s.frozen /\ n.key = s.key /\ n.report = s.report
BY DEF Session

\* What every step of the browser that changes neither the submissions nor the
\* answers keeps.
LEMMA RevisionKeepsInv ==
  ASSUME SessionInv, UNCHANGED <<rows, batch, request, payments, seen, minted, typed>>,
         \/ store' = store
         \/ NextRevision(store') /\ store'.key = store.key /\ store'.work = store.work,
         busy' \subseteq Tabs, asker' \in [Slots -> SUBSET Tabs],
         runs' \subseteq [tab : Tabs, session : 1..MaxKeys, source : Texts]
  PROVE  SessionInv'
<1>1. minted \in 0..MaxKeys /\ minted \in Nat /\ minted <= minted'
  BY SessionFacts
<1>2. ServerInv'
  BY SameServer DEF SessionInv
<1>3. StoreSound' /\ SeenIsBehind' /\ ShownIsGraded'
  BY <1>1, RevisionKeepsStore, SameStore
<1>4. store'.id = store.id /\ store'.key = store.key /\ store'.work = store.work
  BY DEF NextRevision
<1>5. SubmittedAsStored' /\ TypedOK'
  BY <1>1, <1>4, SubmissionsKept, TypedKept
<1>6. BrowserTypeOK'
  BY DEF SessionInv, BrowserInv, BrowserTypeOK, NextRevision
<1> QED
  BY <1>2, <1>3, <1>5, <1>6 DEF SessionInv, BrowserInv, TypedOK

\* A session the tab acts on, with another mark of its sample run.
LEMMA MarkedIsNext ==
  ASSUME SessionInv, store.id # 0, minted' = minted, NEW sample \in Texts, NEW pending \in Texts,
         CompareAndSet(store, [store EXCEPT !.sample = sample, !.pending = pending])
  PROVE  NextRevision(store') /\ store'.key = store.key /\ store'.work = store.work
<1> DEFINE next == [store EXCEPT !.sample = sample, !.pending = pending]
<1>1. store \in Session /\ store.rev \in Nat /\ StoreSound /\ ShownIsGraded
  BY SessionFacts
<1>2. /\ next \in Session /\ next.id = store.id /\ next.status = store.status
      /\ next.work = store.work /\ next.frozen = store.frozen /\ next.key = store.key
      /\ next.report = store.report
  <2>1. store \in Session
    BY <1>1
  <2> QED
    BY <2>1, SampleMarked
<1>3. store' = [next EXCEPT !.rev = store.rev + 1]
  BY DEF CompareAndSet
<1> HIDE DEF next
<1>4. /\ store' \in Session /\ store'.rev = store.rev + 1 /\ store'.id = store.id
      /\ store'.status = store.status /\ store'.work = store.work /\ store'.frozen = store.frozen
      /\ store'.key = store.key /\ store'.report = store.report
  BY <1>1, <1>2, <1>3, Written
<1> QED
  BY <1>1, <1>4 DEF NextRevision, StoreSound, ShownIsGraded

\* Moving about, running the samples and hearing of the run.
LEMMA SampleStepsKeep ==
  ASSUME SessionInv,
         \/ \E t \in Tabs : MoveToQuestion(t) \/ RunCurrentCode(t)
         \/ \E r \in runs : RunAnswered(r)
  PROVE  SessionInv'
<1>1. UNCHANGED <<rows, batch, request, payments, seen, minted, typed, busy, asker>>
  BY DEF MoveToQuestion, RunCurrentCode, RunAnswered, serverVars
<1>2. /\ busy \subseteq Tabs /\ asker \in [Slots -> SUBSET Tabs]
      /\ runs \subseteq [tab : Tabs, session : 1..MaxKeys, source : Texts]
  BY DEF SessionInv, BrowserInv, BrowserTypeOK
<1>3. /\ store \in Session /\ StoreSound /\ minted \in Nat /\ minted <= MaxKeys /\ MaxKeys \in Nat
      /\ store.sample \in Texts /\ store.pending \in Texts /\ store.work \in Texts
  BY SessionFacts DEF Session
<1>4. ASSUME NEW t \in Tabs, Active(t), SameRevision(store, seen[t])
      PROVE  seen[t] = store /\ store.id \in 1..MaxKeys /\ store.id # 0
  <2>1. seen[t] = store
    BY <1>4, SeenIsStore
  <2>2. store.status = "in_progress" /\ store.id # 0 /\ store.id \in Nat /\ store.id <= minted
    BY <1>3, <1>4, <2>1 DEF Active, StoreSound, Session
  <2> QED
    BY <1>3, <2>1, <2>2
<1>5. ASSUME NEW t \in Tabs, MoveToQuestion(t) PROVE SessionInv'
  <2>1. seen[t] = store /\ store.id \in 1..MaxKeys /\ store.id # 0
    BY <1>4, <1>5 DEF MoveToQuestion, CompareAndSet
  <2>2. [store EXCEPT !.sample = store.sample, !.pending = store.pending] = store
    BY <1>3 DEF Session
  <2>3. CompareAndSet(store, [store EXCEPT !.sample = store.sample, !.pending = store.pending])
    BY <1>5, <2>1, <2>2 DEF MoveToQuestion
  <2>4. NextRevision(store') /\ store'.key = store.key /\ store'.work = store.work
    BY <1>1, <1>3, <2>1, <2>3, MarkedIsNext
  <2>5. runs' = runs
    BY <1>5 DEF MoveToQuestion
  <2> QED
    BY <1>1, <1>2, <2>4, <2>5, RevisionKeepsInv
<1>6. ASSUME NEW t \in Tabs, RunCurrentCode(t) PROVE SessionInv'
  <2> DEFINE pending == IF store.pending = "none" THEN store.work ELSE store.pending
  <2>1. seen[t] = store /\ store.id \in 1..MaxKeys /\ store.id # 0
    BY <1>4, <1>6 DEF RunCurrentCode, CompareAndSet
  <2>2. [store EXCEPT !.sample = store.sample, !.pending = pending] = [store EXCEPT !.pending = pending]
    BY <1>3 DEF Session
  <2>3. CompareAndSet(store, [store EXCEPT !.sample = store.sample, !.pending = pending])
    BY <1>6, <2>1, <2>2 DEF RunCurrentCode
  <2>4. pending \in Texts
    BY <1>3
  <2> HIDE DEF pending
  <2>5. NextRevision(store') /\ store'.key = store.key /\ store'.work = store.work
    BY <1>1, <1>3, <2>1, <2>3, <2>4, MarkedIsNext
  <2>6. runs' \subseteq [tab : Tabs, session : 1..MaxKeys, source : Texts]
    BY <1>2, <1>3, <1>6, <2>1 DEF RunCurrentCode
  <2> QED
    BY <1>1, <1>2, <2>5, <2>6, RevisionKeepsInv
<1>7. ASSUME NEW r \in runs, RunAnswered(r) PROVE SessionInv'
  <2>1. r.session \in 1..MaxKeys /\ r.source \in Texts /\ "none" \in Texts
    BY <1>2 DEF Texts
  <2>2. runs' \subseteq [tab : Tabs, session : 1..MaxKeys, source : Texts]
    BY <1>2, <1>7 DEF RunAnswered
  <2>3. CASE store' = store
    BY <1>1, <1>2, <2>2, <2>3, RevisionKeepsInv
  <2>4. CASE /\ store.id = r.session
             /\ CompareAndSet(store, [store EXCEPT !.sample = r.source, !.pending = "none"])
    <3>1. store.id # 0
      BY <2>1, <2>4
    <3> QED
      BY <1>1, <1>2, <2>1, <2>2, <2>4, <3>1, MarkedIsNext, RevisionKeepsInv
  <2>5. CASE store.id = r.session /\ CompareAndSet(store, [store EXCEPT !.pending = "none"])
    <3>1. store.id # 0
      BY <2>1, <2>5
    <3>2. [store EXCEPT !.sample = store.sample, !.pending = "none"]
             = [store EXCEPT !.pending = "none"]
      BY <1>3 DEF Session
    <3>3. CompareAndSet(store, [store EXCEPT !.sample = store.sample, !.pending = "none"])
      BY <2>5, <3>2
    <3> QED
      BY <1>1, <1>2, <1>3, <2>1, <2>2, <3>1, <3>3, MarkedIsNext, RevisionKeepsInv
  <2> QED
    BY <1>7, <2>3, <2>4, <2>5 DEF RunAnswered
<1> QED
  BY <1>5, <1>6, <1>7

\* A session is started under an id no session, key or answer has had.
LEMMA StartInterviewKeeps ==
  ASSUME SessionInv, NEW t \in Tabs, StartInterview(t)
  PROVE  SessionInv'
<1> DEFINE n == minted + 1
<1>1. /\ UNCHANGED <<rows, batch, request, payments, seen, asker, runs>>
      /\ store = NoSession /\ minted < MaxKeys /\ minted' = n
      /\ store' = [NoSession EXCEPT !.id = n, !.rev = 1, !.status = "in_progress"]
      /\ busy' = busy \ {t} /\ typed' = [session |-> n, work |-> "blank"]
  BY DEF StartInterview, serverVars
<1>2. /\ MaxKeys \in Nat /\ minted \in Nat /\ NoSession \in Session /\ SeenIsBehind
      /\ seen \in [Tabs -> Session]
  BY SessionFacts
<1>3. n \in 1..MaxKeys /\ minted < n /\ minted <= n /\ n \in Nat
  BY <1>1, <1>2
<1> HIDE DEF n
<1>4. /\ store' \in Session /\ store'.id = n /\ store'.rev = 1 /\ store'.status = "in_progress"
      /\ store'.key = NoSession.key /\ store'.work = NoSession.work
  <2>1. n \in 0..MaxKeys /\ 1 \in Nat /\ NoSession \in Session
    BY <1>2, <1>3
  <2>2. store' = [NoSession EXCEPT !.id = n, !.rev = 1, !.status = "in_progress"]
    BY <1>1
  <2> QED
    BY <2>1, <2>2 DEF Session
<1>5. store'.key = 0 /\ store'.work = "blank"
  BY <1>4 DEF NoSession
<1>6. ServerInv'
  BY <1>1, SameServer DEF SessionInv
<1>7. StoreSound' /\ ShownIsGraded'
  BY <1>1, <1>2, <1>3, <1>4, <1>5 DEF StoreSound, ShownIsGraded
<1>8. SeenIsBehind'
  <2>1. ASSUME NEW u \in Tabs
        PROVE  /\ seen'[u].id <= minted' /\ (seen'[u].id = 0 => seen'[u] = NoSession)
               /\ seen'[u].id # store'.id
    <3>1. seen[u].id <= minted /\ seen[u].id \in Nat /\ (seen[u].id = 0 => seen[u] = NoSession)
      BY <1>2 DEF SeenIsBehind, Session
    <3> QED
      BY <1>1, <1>2, <1>3, <1>4, <3>1
  <2> QED
    BY <2>1 DEF SeenIsBehind
<1>9. SubmittedAsStored'
  BY <1>1, <1>2, <1>3, <1>5, SubmissionsKept
<1>10. TypedOK'
  BY <1>1, <1>3, <1>4, <1>5 DEF TypedOK, NoAnswerReverted, Texts
<1>11. BrowserTypeOK'
  BY <1>1, <1>3, <1>4, <1>10 DEF SessionInv, BrowserInv, BrowserTypeOK, TypedOK
<1> QED
  BY <1>6, <1>7, <1>8, <1>9, <1>10, <1>11 DEF SessionInv, BrowserInv, TypedOK

\* What is written now stands: the change is rebased on the session in the storage.
LEMMA UpdateAnswerKeeps ==
  ASSUME SessionInv, NEW t \in Tabs, NEW w \in Works, UpdateAnswer(t, w)
  PROVE  SessionInv'
<1> DEFINE next == IF store.work = w THEN store
                   ELSE [store EXCEPT !.work = w, !.key = 0, !.pending = "none",
                                      !.sample = "none"]
<1>1. /\ UNCHANGED <<rows, batch, request, payments, seen, asker, runs, busy, minted>>
      /\ Active(t) /\ Mutate(seen[t], next) /\ typed' = [session |-> store.id, work |-> w]
  BY DEF UpdateAnswer, serverVars
<1>2. /\ store \in Session /\ store.rev \in Nat /\ StoreSound /\ minted \in 0..MaxKeys
      /\ MaxKeys \in Nat /\ store.id \in Nat /\ minted <= minted' /\ w \in Texts
  BY <1>1, SessionFacts DEF Session, Texts
<1>3. /\ next \in Session /\ next.id = store.id /\ next.status = store.status /\ next.work = w
      /\ next.key \in {0, store.key}
  <2>1. CASE store.work = w
    BY <1>2, <2>1
  <2>2. CASE store.work # w
    <3>1. next = [store EXCEPT !.work = w, !.key = 0, !.pending = "none", !.sample = "none"]
      BY <2>2
    <3>2. "none" \in Texts /\ 0 \in 0..MaxKeys
      BY <1>2 DEF Texts
    <3> HIDE DEF next
    <3> QED
      BY <1>2, <3>1, <3>2 DEF Session
  <2> QED
    BY <2>1, <2>2
<1> HIDE DEF next
<1>4. /\ store.status = "in_progress" /\ store' = [next EXCEPT !.rev = store.rev + 1]
      /\ store.key = 0 /\ store.id # 0
  BY <1>1, <1>2 DEF Mutate, Active, StoreSound
<1>5. /\ store' \in Session /\ store'.rev = store.rev + 1 /\ store'.id = store.id
      /\ store'.status = "in_progress" /\ store'.work = w /\ store'.key = 0
  BY <1>2, <1>3, <1>4, Written
<1>6. NextRevision(store')
  BY <1>4, <1>5 DEF NextRevision
<1>7. ServerInv'
  BY <1>1, SameServer DEF SessionInv
<1>8. StoreSound' /\ SeenIsBehind' /\ ShownIsGraded'
  BY <1>1, <1>2, <1>6, RevisionKeepsStore
<1>9. SubmittedAsStored'
  BY <1>1, <1>2, <1>5, SubmissionsKept
<1>10. TypedOK'
  <2>1. store.id \in 0..MaxKeys /\ store.id <= minted
    BY <1>2 DEF StoreSound, Session
  <2> QED
    BY <1>1, <1>2, <1>4, <1>5, <2>1 DEF TypedOK, NoAnswerReverted
<1>11. BrowserTypeOK'
  BY <1>1, <1>5, <1>10 DEF SessionInv, BrowserInv, BrowserTypeOK, TypedOK
<1> QED
  BY <1>7, <1>8, <1>9, <1>10, <1>11 DEF SessionInv, BrowserInv, TypedOK

\* The session is dropped; no tab can act on what it still shows.
LEMMA ResetKeeps ==
  ASSUME SessionInv, NEW t \in Tabs, ResetInterview(t)
  PROVE  SessionInv'
<1>1. /\ UNCHANGED <<rows, batch, request, payments, seen, asker, runs, minted, typed>>
      /\ store' = NoSession /\ busy' = busy \ {t}
  BY DEF ResetInterview, serverVars
<1>2. /\ NoSession \in Session /\ minted \in Nat /\ minted \in 0..MaxKeys /\ SeenIsBehind /\ StoreSound
      /\ seen \in [Tabs -> Session] /\ minted <= minted'
  BY <1>1, SessionFacts
<1>3. ServerInv'
  BY <1>1, SameServer DEF SessionInv
<1>4. StoreSound' /\ ShownIsGraded'
  BY <1>1, <1>2 DEF StoreSound, ShownIsGraded, NoSession
<1>5. SeenIsBehind'
  <2>1. store'.id = 0 /\ store'.rev = 0 /\ 0 <= 0
    BY <1>1 DEF NoSession
  <2>2. \A u \in Tabs : seen[u].id = 0 => seen[u] = NoSession /\ seen[u].rev = 0
    BY <1>2 DEF SeenIsBehind, NoSession
  <2> QED
    BY <1>1, <1>2, <2>1, <2>2 DEF SeenIsBehind
<1>6. SubmittedAsStored' /\ TypedOK'
  BY <1>1, <1>2, SubmissionsKept, TypedKept DEF NoSession
<1>7. BrowserTypeOK'
  BY <1>1, <1>2 DEF SessionInv, BrowserInv, BrowserTypeOK
<1> QED
  BY <1>3, <1>4, <1>5, <1>6, <1>7 DEF SessionInv, BrowserInv, TypedOK


-----------------------------------------------------------------------------
(* Submissions sent and answered.                                          *)

\* A submission is frozen with its key and sent: the stored one again, or the
\* stored answers under a key nobody has.
LEMMA FinishInterviewKeeps ==
  ASSUME SessionInv, NEW t \in Tabs, NEW c \in Slots, FinishInterview(t, c)
  PROVE  SessionInv'
<1> DEFINE fresh == [session |-> store.id, key |-> minted + 1, work |-> store.work]
           sub == IF store.status = "evaluating" THEN store.frozen ELSE fresh
           h == [Idle EXCEPT !.phase = "sent", !.sub = sub]
           next == [store EXCEPT !.status = "evaluating", !.key = sub.key, !.frozen = sub]
<1>1. /\ store \in Session /\ StoreSound /\ SubmittedAsStored /\ minted \in Nat /\ MaxKeys \in Nat
      /\ minted <= MaxKeys /\ store.rev \in Nat /\ store.id \in Nat /\ store.work \in Texts
      /\ store.frozen \in Submission /\ request \in [Slots -> Handler]
  BY SessionFacts DEF Session
<1>2. seen[t] = store
  BY SeenIsStore DEF FinishInterview, CompareAndSet
<1>3. /\ store.status \in {"in_progress", "evaluating"} /\ store.id \in 1..minted
      /\ request[c] = Idle
      /\ minted' = IF store.status = "evaluating" THEN minted ELSE minted + 1
      /\ store.status = "evaluating" \/ minted < MaxKeys
      /\ request' = [request EXCEPT ![c] = h]
      /\ CompareAndSet(store, next)
      /\ UNCHANGED <<rows, batch, payments, seen, runs, typed>>
      /\ busy' = busy \cup {t} /\ asker' = [asker EXCEPT ![c] = {t}]
  <2>1. store.status \in {"in_progress", "evaluating"}
    BY <1>2 DEF FinishInterview, Active
  <2>2. store.id \in 1..minted
    BY <1>1, <2>1 DEF StoreSound
  <2> QED
    BY <1>2, <2>1, <2>2 DEF FinishInterview
<1>4. /\ sub \in Submission /\ sub.session = store.id /\ sub.work = store.work
      /\ sub.key \in 1..minted' /\ sub = [session |-> store.id, key |-> sub.key, work |-> store.work]
      /\ minted' \in 0..MaxKeys /\ minted <= minted'
      /\ sub.key = store.key \/ sub.key = minted + 1
  <2>1. CASE store.status = "evaluating"
    <3>1. sub = store.frozen /\ minted' = minted
      BY <1>3, <2>1
    <3>2. store.frozen = [session |-> store.id, key |-> store.key, work |-> store.work]
          /\ store.key \in 1..minted
      BY <1>1, <2>1 DEF StoreSound
    <3> HIDE DEF sub
    <3> QED
      BY <1>1, <3>1, <3>2
  <2>2. CASE store.status # "evaluating"
    <3>1. sub = fresh /\ minted' = minted + 1 /\ minted < MaxKeys
      BY <1>3, <2>2
    <3>2. fresh \in Submission
      BY <1>1, <1>3, <3>1 DEF Submission
    <3> HIDE DEF sub
    <3> QED
      BY <1>1, <3>1, <3>2
  <2> QED
    BY <2>1, <2>2
<1> HIDE DEF sub
<1>5. h \in Handler /\ h.phase = "sent" /\ h.reply = "none" /\ h.sub = sub
  <2>1. Idle \in Handler /\ Idle.reply = "none"
    BY <1>1 DEF Idle, Handler, NoSubmission, Submission, NoReport, GradedReport, Texts, Phases, Replies
  <2> QED
    BY <1>4, <2>1 DEF Handler, Phases
<1>6. /\ next \in Session /\ next.id = store.id /\ next.status = "evaluating" /\ next.work = store.work
      /\ next.key = sub.key /\ next.frozen = sub
  <2>1. sub.key \in 0..MaxKeys
    BY <1>1, <1>4
  <2> QED
    BY <1>1, <1>4, <2>1 DEF Session
<1> HIDE DEF h, next
<1>7. ServerInv'
  BY <1>3, <1>5, BrowserKeepsServer DEF SessionInv
<1>8. store' = [next EXCEPT !.rev = store.rev + 1]
  BY <1>3 DEF CompareAndSet
<1>9. /\ store' \in Session /\ store'.rev = store.rev + 1 /\ store'.id = store.id
      /\ store'.status = "evaluating" /\ store'.work = store.work
      /\ store'.key = sub.key /\ store'.frozen = sub
  BY <1>1, <1>6, <1>8, Written
<1>10. NextRevision(store')
  BY <1>3, <1>4, <1>9 DEF NextRevision
<1>11. StoreSound' /\ SeenIsBehind' /\ ShownIsGraded'
  BY <1>3, <1>4, <1>10, RevisionKeepsStore
<1>12. SubmittedAsStored'
  <2>1. ASSUME NEW d \in Slots, request'[d].phase # "idle"
        PROVE  /\ request'[d].sub.session \in 1..minted' /\ request'[d].sub.key \in 1..minted'
               /\ Awaited(d)' => request'[d].sub.work = store'.work
    <3>1. CASE d = c
      <4>1. request'[d] = h
        BY <1>1, <1>3, <3>1
      <4> QED
        BY <1>1, <1>3, <1>4, <1>5, <1>9, <4>1
    <3>2. CASE d # c
      <4>1. request'[d] = request[d]
        BY <1>1, <1>3, <3>2
      <4>2. /\ request[d].sub.session \in 1..minted /\ request[d].sub.key \in 1..minted
            /\ Awaited(d) => request[d].sub.work = store.work
        BY <1>1, <2>1, <4>1 DEF SubmittedAsStored
      <4>3. Awaited(d)' => Awaited(d)
        BY <1>1, <1>4, <1>9, <4>1, <4>2 DEF Awaited
      <4> QED
        BY <1>1, <1>4, <1>9, <4>1, <4>2, <4>3
    <3> QED
      BY <3>1, <3>2
  <2> QED
    BY <2>1 DEF SubmittedAsStored
<1>13. TypedOK'
  BY <1>3, <1>4, <1>9, TypedKept
<1>14. BrowserTypeOK'
  BY <1>3, <1>4, <1>9 DEF SessionInv, BrowserInv, BrowserTypeOK
<1> QED
  BY <1>7, <1>11, <1>12, <1>13, <1>14 DEF SessionInv, BrowserInv, TypedOK

\* What an answer makes of the session that awaits it.
LEMMA AnswerIsNext ==
  ASSUME SessionInv, NEW c \in Slots, request[c].phase = "answered", Awaited(c), minted' = minted,
         \/ /\ request[c].reply = "report"
            /\ CompareAndSet(store, [store EXCEPT
                 !.status = "completed", !.frozen = NoSubmission, !.report = request[c].report])
         \/ /\ request[c].reply # "report" /\ AfterFailure(c) # store
            /\ CompareAndSet(store, AfterFailure(c))
  PROVE  /\ NextRevision(store') /\ store'.work = store.work /\ store'.id = store.id
         /\ store'.key \in {0, store.key}
<1>1. /\ store \in Session /\ StoreSound /\ SubmittedAsStored /\ minted \in Nat /\ MaxKeys \in Nat
      /\ store.rev \in Nat /\ store.id \in Nat /\ request \in [Slots -> Handler]
  BY SessionFacts DEF Session
<1>2. request[c] \in Handler
  BY <1>1
<1>3. /\ request[c].sub \in Submission /\ request[c].report \in GradedReport
      /\ NoSubmission \in Submission
  BY <1>1, <1>2 DEF Handler, NoSubmission, Submission, Texts
<1>4. /\ store.id = request[c].sub.session /\ store.key = request[c].sub.key
      /\ store.id \in 1..minted /\ store.key \in 1..minted /\ request[c].sub.work = store.work
  BY <1>1 DEF SubmittedAsStored, Awaited
<1>5. store.id # 0 /\ store.status # "none"
  BY <1>1, <1>4 DEF StoreSound
<1>6. CASE /\ request[c].reply = "report"
           /\ CompareAndSet(store, [store EXCEPT
                !.status = "completed", !.frozen = NoSubmission, !.report = request[c].report])
  <2> DEFINE next == [store EXCEPT
                        !.status = "completed", !.frozen = NoSubmission, !.report = request[c].report]
  <2>1. /\ next \in Session /\ next.id = store.id /\ next.status = "completed"
        /\ next.work = store.work /\ next.key = store.key /\ next.report = request[c].report
    BY <1>1, <1>3 DEF Session
  <2>2. store' = [next EXCEPT !.rev = store.rev + 1]
    BY <1>6 DEF CompareAndSet
  <2> HIDE DEF next
  <2>3. /\ store' \in Session /\ store'.rev = store.rev + 1 /\ store'.id = store.id
        /\ store'.status = "completed" /\ store'.work = store.work /\ store'.key = store.key
        /\ store'.report = request[c].report
    BY <1>1, <2>1, <2>2, Written
  <2>4. request[c].report.work = store.work
    BY <1>4, <1>6 DEF SessionInv, ServerInv, ReportsOwnAnswers
  <2> QED
    BY <1>5, <2>3, <2>4 DEF NextRevision
<1>7. CASE AfterFailure(c) # store /\ CompareAndSet(store, AfterFailure(c))
  <2> DEFINE next == AfterFailure(c)
  <2>1. store.status # "completed"
    BY <1>7 DEF AfterFailure
  <2>2. /\ next \in Session /\ next.id = store.id /\ next.work = store.work
        /\ \/ next.status = "in_progress" /\ next.key = 0
           \/ /\ next.status = "evaluating" /\ next.key = store.key
              /\ next.frozen = request[c].sub
    <3>1. CASE request[c].reply = "retry"
      <4>1. next = [store EXCEPT !.status = "in_progress", !.key = 0, !.frozen = NoSubmission]
        BY <2>1, <3>1 DEF AfterFailure
      <4>2. 0 \in 0..MaxKeys
        BY <1>1
      <4> HIDE DEF next
      <4> QED
        BY <1>1, <1>3, <4>1, <4>2 DEF Session
    <3>2. CASE request[c].reply # "retry"
      <4>1. next = [store EXCEPT !.status = "evaluating", !.frozen = request[c].sub]
        BY <2>1, <3>2 DEF AfterFailure
      <4> HIDE DEF next
      <4> QED
        BY <1>1, <1>3, <4>1 DEF Session
    <3> QED
      BY <3>1, <3>2
  <2>3. store' = [next EXCEPT !.rev = store.rev + 1]
    BY <1>7 DEF CompareAndSet
  <2> HIDE DEF next
  <2>4. /\ store' \in Session /\ store'.rev = store.rev + 1 /\ store'.id = store.id
        /\ store'.status = next.status /\ store'.work = store.work /\ store'.key = next.key
        /\ store'.frozen = next.frozen
    BY <1>1, <2>2, <2>3, Written
  <2>5. request[c].sub = [session |-> store.id, key |-> store.key, work |-> store.work]
    BY <1>3, <1>4 DEF Submission
  <2> QED
    BY <1>4, <1>5, <2>2, <2>4, <2>5 DEF NextRevision
<1> QED
  BY <1>6, <1>7

\* An answer is heard by the tab that awaits it, or by none.
LEMMA ReportAnsweredKeeps ==
  ASSUME SessionInv, NEW c \in Slots, ReportAnswered(c)
  PROVE  SessionInv'
<1>1. /\ request[c].phase = "answered" /\ request' = [request EXCEPT ![c] = Idle]
      /\ busy' = busy \ asker[c] /\ asker' = [asker EXCEPT ![c] = {}]
      /\ UNCHANGED <<rows, batch, payments, seen, runs, minted, typed>>
  BY DEF ReportAnswered
<1>2. /\ minted \in 0..MaxKeys /\ minted \in Nat /\ minted <= minted' /\ MaxKeys \in Nat
      /\ request \in [Slots -> Handler] /\ store \in Session
  BY <1>1, SessionFacts
<1>3. Idle \in Handler /\ Idle.phase = "idle" /\ Idle.reply = "none"
  BY <1>2 DEF Idle, Handler, NoSubmission, Submission, NoReport, GradedReport, Texts, Phases, Replies
<1>4. ServerInv'
  BY <1>1, <1>3, BrowserKeepsServer DEF SessionInv
<1>5. \/ store' = store
      \/ NextRevision(store') /\ store'.work = store.work /\ store'.id = store.id
           /\ store'.key \in {0, store.key}
  BY <1>1, AnswerIsNext DEF ReportAnswered
<1>6. StoreSound' /\ SeenIsBehind' /\ ShownIsGraded' /\ store' \in Session
  BY <1>1, <1>2, <1>5, RevisionKeepsStore, SameStore DEF NextRevision
<1>7. \A d \in Slots : request'[d] = request[d] \/ request'[d].phase = "idle"
  BY <1>1, <1>2, <1>3
<1>8. SubmittedAsStored' /\ TypedOK'
  BY <1>1, <1>2, <1>5, <1>7, SubmissionsKept, TypedKept
<1>9. BrowserTypeOK'
  BY <1>1, <1>6 DEF SessionInv, BrowserInv, BrowserTypeOK
<1> QED
  BY <1>4, <1>6, <1>8, <1>9 DEF SessionInv, BrowserInv, TypedOK

-----------------------------------------------------------------------------
(* The theorems.                                                           *)

\* A handler at work keeps its submission, an idle one takes no step.
LEMMA ReportKeepsSubmission ==
  ASSUME ServerInv, NEW c \in Slots, Report(c)
  PROVE  /\ request[c].phase # "idle" /\ request'[c].sub = request[c].sub
         /\ \A d \in Slots : d # c => request'[d] = request[d]
<1>1. request \in [Slots -> Handler] /\ request[c] \in Handler
  BY DEF ServerInv, ServerTypeOK
<1>2. request[c].phase # "idle"
  BY DEF Report, Reserve, ReserveRefused, HiddenTests, Executed, Start, Ask, Complete, Terminate,
         GiveBack, Die, At
<1>3. \/ \E phase \in Phases : Go(c, phase)
      \/ \E phase \in Phases, reply \in Replies : Then(c, phase, reply)
      \/ \E report : request' = [request EXCEPT ![c].phase = "answered",
                                   ![c].reply = "report", ![c].report = report]
      \/ \E report : request' = [request EXCEPT ![c].phase = "completing", ![c].report = report]
  BY DEF Report, Reserve, ReserveRefused, HiddenTests, Executed, Start, Ask, Complete, Terminate,
         GiveBack, Die, Answer, Phases, Replies
<1>4. /\ \A d \in Slots : d # c => request'[d] = request[d]
      /\ request'[c].sub = request[c].sub
  <2> DEFINE h == request[c]
  <2>1. PICK k \in {request'[c]} :
          /\ request' = [request EXCEPT ![c] = k]
          /\ \/ \E phase \in Phases : k = [h EXCEPT !.phase = phase]
             \/ \E phase \in Phases, reply \in Replies : k = [h EXCEPT !.phase = phase, !.reply = reply]
             \/ \E report : k = [h EXCEPT !.phase = "answered", !.reply = "report", !.report = report]
             \/ \E report : k = [h EXCEPT !.phase = "completing", !.report = report]
    BY <1>1, <1>3 DEF Go, Then
  <2>2. k.sub = h.sub
    <3> HIDE DEF h
    <3> QED
      BY <1>1, <2>1 DEF Handler, h
  <2> QED
    BY <1>1, <2>1, <2>2
<1> QED
  BY <1>2, <1>4

\* A step of the server keeps what the tabs rely on.
LEMMA ServerKeeps ==
  ASSUME SessionInv, Server
  PROVE  SessionInv'
<1>1. UNCHANGED <<store, seen, busy, asker, runs, minted, typed>>
  BY DEF Server, browserVars
<1>2. ServerInv'
  BY ReportKeepsInv, ExpireKeepsInv, OwnerDeletesKeepsInv DEF Server, SessionInv
<1>3. \A d \in Slots : request'[d].phase # "idle" =>
        request[d].phase # "idle" /\ request'[d].sub = request[d].sub
  BY ReportKeepsSubmission DEF Server, SessionInv, Expire, OwnerDeletes
<1>4. SubmittedAsStored'
  BY <1>1, <1>3 DEF SessionInv, BrowserInv, SubmittedAsStored, Awaited
<1>5. /\ StoreSound' /\ SeenIsBehind' /\ ShownIsGraded' /\ NoAnswerReverted'
      /\ BrowserTypeOK' /\ (typed'.session = 0 => typed'.work = "blank") /\ typed'.session <= minted'
  BY <1>1 DEF SessionInv, BrowserInv, StoreSound, SeenIsBehind, ShownIsGraded, NoAnswerReverted,
              BrowserTypeOK
<1> QED
  BY <1>2, <1>4, <1>5 DEF SessionInv, BrowserInv

\* Nothing is stored.
LEMMA SessionInit ==
  ASSUME Init
  PROVE  SessionInv
<1>1. /\ rows = {} /\ payments = {} /\ batch = [k \in 1..MaxKeys |-> "none"]
      /\ request = [c \in Slots |-> Idle]
      /\ store = NoSession /\ seen = [t \in Tabs |-> NoSession] /\ busy = {}
      /\ asker = [c \in Slots |-> {}] /\ runs = {} /\ minted = 0
      /\ typed = [session |-> 0, work |-> "blank"]
  BY DEF Init, ServerInit
<1>2. MaxKeys \in Nat
  BY ReportAssumption
<1>3. NoSession \in Session /\ NoSession.id = 0 /\ NoSession.rev = 0 /\ NoSession.status = "none"
      /\ NoSession.work = "blank"
  BY <1>2 DEF NoSession, Session, NoSubmission, Submission, NoReport, GradedReport, Texts
<1>4. Idle \in Handler /\ Idle.phase = "idle" /\ Idle.reply = "none"
  BY <1>2 DEF Idle, Handler, NoSubmission, Submission, NoReport, GradedReport, Texts, Phases, Replies
<1>5. \A c \in Slots : request[c].phase = "idle" /\ request[c].reply = "none"
  BY <1>1, <1>4
<1>6. ServerTypeOK
  BY <1>1, <1>4, FS_EmptySet DEF ServerTypeOK
<1>7. ServerInv
  BY <1>1, <1>5, <1>6 DEF ServerInv, OneRowPerSession, ReportsOwnAnswers, AskingHoldsRow,
                          AskingIsUnpaid, PaidHasRow, OnePaidReport, At
<1>8. BrowserTypeOK
  BY <1>1, <1>2, <1>3 DEF BrowserTypeOK, Texts
<1>9. SeenIsBehind /\ StoreSound /\ SubmittedAsStored /\ ShownIsGraded /\ NoAnswerReverted
  BY <1>1, <1>3, <1>5 DEF SeenIsBehind, StoreSound, SubmittedAsStored, ShownIsGraded,
                          NoAnswerReverted
<1> QED
  BY <1>1, <1>7, <1>8, <1>9 DEF SessionInv, BrowserInv

\* Every step of a tab, a handler, the clock or the owner keeps the invariant.
LEMMA SessionNext ==
  ASSUME SessionInv, [Next]_vars
  PROVE  SessionInv'
<1>1. ASSUME NEW t \in Tabs, Learner(t) PROVE SessionInv'
  BY <1>1, RefreshKeeps, StartInterviewKeeps, SampleStepsKeep, ResetKeeps, UpdateAnswerKeeps,
     FinishInterviewKeeps DEF Learner
<1>2. CASE UNCHANGED vars
  <2>1. UNCHANGED <<rows, batch, request, payments, store, seen, minted, typed, busy, asker, runs>>
    BY <1>2 DEF vars, serverVars, browserVars
  <2> QED
    BY <2>1, RevisionKeepsInv DEF SessionInv, BrowserInv, BrowserTypeOK
<1> QED
  BY <1>1, <1>2, ServerKeeps, SampleStepsKeep, ReportAnsweredKeeps DEF Next

\* Browser and server keep the inductive invariant.
THEOREM SessionSound == Spec => []SessionInv
<1>1. Init => SessionInv
  BY SessionInit
<1>2. SessionInv /\ [Next]_vars => SessionInv'
  BY SessionNext
<1> QED
  BY <1>1, <1>2, PTL DEF Spec

\* The rows, handlers and payments of the server, and the session, tabs and
\* sample runs of the browser, keep their types.
THEOREM MockTypes == Spec => [](ServerTypeOK /\ BrowserTypeOK)
<1>1. SessionInv => ServerTypeOK /\ BrowserTypeOK
  BY DEF SessionInv, ServerInv, BrowserInv
<1> QED
  BY <1>1, SessionSound, PTL

\* A session is paid for once, whatever its tabs retry and however its leases
\* and keys change hands, unless its owner deletes the report.
THEOREM SessionPaidOnce == Spec => []OnePaidReport
<1>1. SessionInv => OnePaidReport
  BY DEF SessionInv, ServerInv
<1> QED
  BY <1>1, SessionSound, PTL

\* The report of a session grades the answers that the session shows.
THEOREM ShownGradesItsAnswers == Spec => []ShownIsGraded
<1>1. SessionInv => ShownIsGraded
  BY DEF SessionInv, BrowserInv
<1> QED
  BY <1>1, SessionSound, PTL

\* No tab puts back what was written before.
THEOREM AnswersAreNotReverted == Spec => []NoAnswerReverted
<1>1. SessionInv => NoAnswerReverted
  BY DEF SessionInv, BrowserInv
<1> QED
  BY <1>1, SessionSound, PTL

-----------------------------------------------------------------------------
(* The attempts implement PaidOnce.  What a session stands for is read     *)
(* from its one row; the invariant adds that a handler which has paid finds *)
(* its row, if it is there, marked: what it fails then was sealed.         *)

Owes == {"completing", "failing"}
PaidRowIsMarked == \A c \in Slots : request[c].phase \in Owes => \A r \in Mine(c) : r.dispatched

PromiseInv == SessionInv /\ PaidRowIsMarked
PromiseStep == UNCHANGED Promise!paidVars \/ Promise!Next

OneOfSession(S) == \A s, t \in S : s.sub.session = t.sub.session => s = t

\* A session stands as its row does.
LEMMA RowStands ==
  ASSUME NEW S, OneOfSession(S), NEW r \in S
  PROVE  Verdict(S, r.sub.session) = Stands(r)
<1>1. (CHOOSE s \in S : s.sub.session = r.sub.session) = r
  BY DEF OneOfSession
<1> QED
  BY <1>1 DEF Verdict

\* A session without a row is open.
LEMMA NoneStands ==
  ASSUME NEW S, NEW e, \A r \in S : r.sub.session # e
  PROVE  Verdict(S, e) = "open"
BY DEF Verdict

\* What a row may stand for.
LEMMA StandsType ==
  ASSUME NEW r \in Row
  PROVE  /\ Stands(r) \in {"open", "sealed", "stored", "unknown"}
         /\ r.status = "completed" => Stands(r) = "stored"
         /\ r.status = "failed" => Stands(r) = "unknown"
         /\ r.status = "reserved" /\ r.dispatched => Stands(r) = "sealed"
         /\ r.status = "reserved" /\ ~ r.dispatched => Stands(r) = "open"
BY DEF Row, Stands

\* Sessions whose rows are in both sets stand alike.
LEMMA OthersStand ==
  ASSUME NEW S, NEW T, OneOfSession(S), OneOfSession(T), NEW e,
         \A r \in S : r.sub.session # e => r \in T,
         \A r \in T : r.sub.session # e => r \in S
  PROVE  \A f : f # e => Verdict(S, f) = Verdict(T, f)
<1> SUFFICES ASSUME NEW f, f # e PROVE Verdict(S, f) = Verdict(T, f)
  OBVIOUS
<1>1. ASSUME NEW r \in S, r.sub.session = f PROVE Verdict(S, f) = Verdict(T, f)
  BY <1>1, RowStands
<1>2. ASSUME \A r \in S : r.sub.session # f PROVE Verdict(S, f) = Verdict(T, f)
  BY <1>2, NoneStands
<1> QED
  BY <1>1, <1>2

\* The type of verdicts and buyers.
LEMMA PromiseTypes ==
  ASSUME ServerInv
  PROVE  Promise!PaidTypeOK
<1>1. RowsOK /\ OneOfSession(rows) /\ rows \subseteq Row /\ payments \subseteq Payment
  BY ServerFacts DEF RowsOK, OneRowPerSession, OneOfSession
<1>2. ASSUME NEW e \in 0..MaxKeys
      PROVE  Verdict(rows, e) \in {"open", "sealed", "stored", "unknown"}
  <2>1. CASE \A r \in rows : r.sub.session # e
    BY <2>1, NoneStands
  <2>2. ASSUME NEW r \in rows, r.sub.session = e
        PROVE  Verdict(rows, e) \in {"open", "sealed", "stored", "unknown"}
    BY <1>1, <2>2, RowStands, StandsType
  <2> QED
    BY <2>1, <2>2
<1>3. ASSUME NEW e \in 0..MaxKeys PROVE Buyers(e) \in SUBSET Nat
  BY <1>1 DEF Buyers, Payment
<1> QED
  BY <1>2, <1>3 DEF Promise!PaidTypeOK

-----------------------------------------------------------------------------
(* Steps that turn one session, and the sweep.                             *)

\* What PaidOnce lets happen to a session without a payment.
MayTurn(e, from, to) ==
  \/ to = from
  \/ from = "open" /\ to \in {"sealed", "stored"}
  \/ from = "sealed" /\ to \in {"stored", "unknown"}
  \/ from = "sealed" /\ to = "open" /\ Buyers(e) = {}

\* One session turns, and nobody pays.
LEMMA TurnIsPromised ==
  ASSUME NEW e \in 0..MaxKeys, MayTurn(e, Verdict(rows, e), Verdict(rows', e)),
         \A f \in 0..MaxKeys : f # e => Verdict(rows', f) = Verdict(rows, f),
         \A f \in 0..MaxKeys : Buyers(f)' = Buyers(f)
  PROVE  PromiseStep
<1> DEFINE V == [f \in 0..MaxKeys |-> Verdict(rows, f)]
           B == [f \in 0..MaxKeys |-> Buyers(f)]
<1>1. V[e] = Verdict(rows, e) /\ V'[e] = Verdict(rows', e) /\ B[e] = Buyers(e)
  OBVIOUS
<1>2. B' = B
  OBVIOUS
<1>3. V' = [V EXCEPT ![e] = Verdict(rows', e)]
  OBVIOUS
<1>4. V' = [f \in 0..MaxKeys |-> IF f \in {e} THEN Verdict(rows', e) ELSE V[f]]
  OBVIOUS
<1>5. CASE Verdict(rows', e) = Verdict(rows, e)
  BY <1>2, <1>3, <1>5 DEF PromiseStep, Promise!paidVars
<1>6. CASE Verdict(rows, e) = "open" /\ Verdict(rows', e) = "sealed"
  <2>1. Promise!Seal(e)
    BY <1>1, <1>2, <1>3, <1>6 DEF Promise!Seal, Promise!Become
  <2> QED
    BY <2>1 DEF PromiseStep, Promise!Next
<1>7. CASE Verdict(rows, e) \in {"open", "sealed"} /\ Verdict(rows', e) = "stored"
  <2>1. Promise!Store(e)
    BY <1>1, <1>2, <1>3, <1>7 DEF Promise!Store, Promise!Become
  <2> QED
    BY <2>1 DEF PromiseStep, Promise!Next
<1>8. CASE Verdict(rows, e) = "sealed" /\ Verdict(rows', e) = "unknown"
  <2>1. Promise!GiveUp({e})
    BY <1>1, <1>2, <1>4, <1>8 DEF Promise!GiveUp
  <2> QED
    BY <2>1 DEF PromiseStep, Promise!Next
<1>9. CASE Verdict(rows, e) = "sealed" /\ Verdict(rows', e) = "open" /\ Buyers(e) = {}
  <2>1. Promise!Unseal(e)
    BY <1>1, <1>2, <1>3, <1>9 DEF Promise!Unseal, Promise!Become
  <2> QED
    BY <2>1 DEF PromiseStep, Promise!Next
<1> QED
  BY <1>5, <1>6, <1>7, <1>8, <1>9 DEF MayTurn

\* Nothing changes that PaidOnce reads.
LEMMA NothingTurns ==
  ASSUME \A f \in 0..MaxKeys : Verdict(rows', f) = Verdict(rows, f),
         \A f \in 0..MaxKeys : Buyers(f)' = Buyers(f)
  PROVE  PromiseStep
BY DEF PromiseStep, Promise!paidVars

\* A row becomes another of its session.
LEMMA RowTurns ==
  ASSUME RowsOK, RowsOK', NEW r \in rows, NEW s, s.sub = r.sub, rows' = (rows \ {r}) \cup {s}
  PROVE  /\ r.sub.session \in 0..MaxKeys
         /\ Verdict(rows, r.sub.session) = Stands(r) /\ Verdict(rows', r.sub.session) = Stands(s)
         /\ \A f : f # r.sub.session => Verdict(rows', f) = Verdict(rows, f)
<1>1. OneOfSession(rows) /\ OneOfSession(rows')
  BY DEF RowsOK, OneRowPerSession, OneOfSession
<1>2. Verdict(rows, r.sub.session) = Stands(r) /\ Verdict(rows', r.sub.session) = Stands(s)
  <2>1. s \in rows'
    OBVIOUS
  <2> QED
    BY <1>1, <2>1, RowStands
<1>3. \A f : f # r.sub.session => Verdict(rows', f) = Verdict(rows, f)
  BY <1>1, OthersStand
<1> QED
  BY <1>2, <1>3 DEF RowsOK, Row, Submission

\* A row vanishes.
LEMMA RowVanishes ==
  ASSUME RowsOK, RowsOK', NEW r \in rows, rows' = rows \ {r}
  PROVE  /\ r.sub.session \in 0..MaxKeys
         /\ Verdict(rows, r.sub.session) = Stands(r) /\ Verdict(rows', r.sub.session) = "open"
         /\ \A f : f # r.sub.session => Verdict(rows', f) = Verdict(rows, f)
<1>1. OneOfSession(rows) /\ OneOfSession(rows')
  BY DEF RowsOK, OneRowPerSession, OneOfSession
<1>2. \A s \in rows' : s.sub.session # r.sub.session
  BY <1>1 DEF OneOfSession
<1>3. Verdict(rows, r.sub.session) = Stands(r) /\ Verdict(rows', r.sub.session) = "open"
  BY <1>1, <1>2, RowStands, NoneStands
<1>4. \A f : f # r.sub.session => Verdict(rows', f) = Verdict(rows, f)
  BY <1>1, OthersStand
<1> QED
  BY <1>3, <1>4 DEF RowsOK, Row, Submission

\* A sweep gives sealed sessions up and leaves the others as they stand.
LEMMA SweptVerdict ==
  ASSUME RowsOK, NEW S \in SUBSET {r \in rows : Expired(r)}, NEW e
  PROVE  \/ Verdict(Swept(S), e) = Verdict(rows, e)
         \/ Verdict(rows, e) = "sealed" /\ Verdict(Swept(S), e) = "unknown"
<1> DEFINE end(r) == Ended(r, "failed", NoReport)
<1>1. NoReport \in GradedReport
  BY DEF NoReport, GradedReport, Texts
<1>2. \A r \in rows : r \in Row /\ end(r) \in Row /\ end(r).sub = r.sub /\ end(r).status = "failed"
  BY <1>1, EndOfRow DEF RowsOK
<1>3. OneOfSession(rows) /\ OneOfSession(Swept(S))
  BY SweepKeepsRows DEF RowsOK, OneRowPerSession, OneOfSession
<1> HIDE DEF end
<1>4. Swept(S) = (rows \ S) \cup {end(r) : r \in {s \in S : s.dispatched}}
  BY DEF Swept, end
<1>5. S \subseteq rows /\ \A r \in S : r.status = "reserved"
  BY DEF Expired
<1>6. CASE \A r \in rows : r.sub.session # e
  <2>1. \A s \in Swept(S) : s.sub.session # e
    BY <1>2, <1>4, <1>5, <1>6
  <2> QED
    BY <1>6, <2>1, NoneStands
<1>7. ASSUME NEW r \in rows, r.sub.session = e
      PROVE  \/ Verdict(Swept(S), e) = Verdict(rows, e)
             \/ Verdict(rows, e) = "sealed" /\ Verdict(Swept(S), e) = "unknown"
  <2>1. Verdict(rows, e) = Stands(r)
    BY <1>3, <1>7, RowStands
  <2>2. CASE r \notin S
    <3>1. r \in Swept(S)
      BY <1>4, <2>2
    <3> QED
      BY <1>3, <1>7, <2>1, <3>1, RowStands
  <2>3. CASE r \in S /\ r.dispatched
    <3>1. end(r) \in Swept(S) /\ end(r).sub.session = e
      BY <1>2, <1>4, <1>7, <2>3
    <3>2. Verdict(Swept(S), e) = Stands(end(r))
      BY <1>3, <3>1, RowStands
    <3>3. Stands(end(r)) = "unknown" /\ Stands(r) = "sealed"
      BY <1>2, <1>5, <2>3, StandsType
    <3> QED
      BY <2>1, <3>2, <3>3
  <2>4. CASE r \in S /\ ~ r.dispatched
    <3>1. \A s \in rows : s # r => s.sub.session # e
      BY <1>3, <1>7 DEF OneOfSession
    <3>2. \A s \in Swept(S) : s.sub.session # e
      BY <1>2, <1>4, <1>5, <2>4, <3>1
    <3>3. Stands(r) = "open"
      BY <1>2, <1>5, <2>4, StandsType
    <3> QED
      BY <2>1, <3>2, <3>3, NoneStands
  <2> QED
    BY <2>2, <2>3, <2>4
<1> QED
  BY <1>6, <1>7

\* Sessions given up together are a step of PaidOnce.
LEMMA GivenUpIsPromised ==
  ASSUME \A e \in 0..MaxKeys :
           \/ Verdict(rows', e) = Verdict(rows, e)
           \/ Verdict(rows, e) = "sealed" /\ Verdict(rows', e) = "unknown",
         \A e \in 0..MaxKeys : Buyers(e)' = Buyers(e)
  PROVE  PromiseStep
<1> DEFINE V == [f \in 0..MaxKeys |-> Verdict(rows, f)]
           B == [f \in 0..MaxKeys |-> Buyers(f)]
           E == {e \in 0..MaxKeys : Verdict(rows', e) # Verdict(rows, e)}
<1>1. B' = B
  OBVIOUS
<1>2. \A e \in E : V[e] = "sealed"
  OBVIOUS
<1>3. V' = [e \in 0..MaxKeys |-> IF e \in E THEN "unknown" ELSE V[e]]
  OBVIOUS
<1>4. E \in SUBSET (0..MaxKeys)
  OBVIOUS
<1> HIDE DEF E
<1>5. Promise!GiveUp(E)
  BY <1>1, <1>2, <1>3 DEF Promise!GiveUp
<1> QED
  BY <1>4, <1>5 DEF PromiseStep, Promise!Next
-----------------------------------------------------------------------------
(* The actions.                                                            *)

\* Whoever has paid for nothing has no undeleted payment.
LEMMA UnpaidHasNoBuyer ==
  ASSUME NEW e, \A p \in payments : p.sub.session = e => p.deleted
  PROVE  Buyers(e) = {}
BY DEF Buyers

\* A session whose row a handler at work may give back is unpaid.
LEMMA GivenBackIsUnpaid ==
  ASSUME ServerInv, NEW c \in Slots, request[c].phase \in Working, NEW r \in Mine(c)
  PROVE  Buyers(r.sub.session) = {}
<1>1. RowsOK /\ r \in rows /\ EndedWell(r) /\ r.holder = {c} /\ r \in Row
  BY ServerFacts DEF Mine, RowsOK
<1>2. r.status = "reserved"
  BY <1>1 DEF EndedWell
<1>3. ASSUME NEW p \in payments, p.sub.session = r.sub.session, ~ p.deleted
      PROVE  FALSE
  <2>1. PICK s \in rows : s.sub.session = p.sub.session /\ KeepsPaidRow(s)
    BY <1>3 DEF ServerInv, PaidHasRow
  <2>2. s = r
    BY <1>1, <1>3, <2>1 DEF RowsOK, OneRowPerSession
  <2> QED
    BY <1>2, <2>1, <2>2 DEF KeepsPaidRow
<1> QED
  BY <1>3, UnpaidHasNoBuyer

\* reserve_mock_interview_attempt: leases that ended are given up.
LEMMA ReserveIsPromised ==
  ASSUME ServerInv, ServerInv', NEW c \in Slots, Reserve(c)
  PROVE  PromiseStep
<1> DEFINE sub == request[c].sub
           expired == {r \in rows : Expired(r)}
           own == {r \in expired : r.sub.key = sub.key}
           lease == [sub |-> sub, status |-> "reserved", holder |-> {c},
                     dispatched |-> FALSE, live |-> TRUE, report |-> NoReport]
<1>1. PICK old \in SUBSET (expired \ own) :
        LET kept == Swept(old \cup own)
            sameKey == {r \in kept : r.sub.key = sub.key}
            sameSession == {r \in kept : r.sub.session = sub.session}
        IN \/ sameKey \cup sameSession = {} /\ rows' = kept \cup {lease}
           \/ rows' = kept
  BY DEF Reserve
<1> DEFINE kept == Swept(old \cup own)
<1>2. old \cup own \in SUBSET {r \in rows : Expired(r)}
  OBVIOUS
<1>3. RowsOK /\ RowsOK' /\ \A e \in 0..MaxKeys : Buyers(e)' = Buyers(e)
  BY ServerFacts DEF Reserve, Buyers, ServerInv, ServerTypeOK, RowsOK
<1>4. \A e : \/ Verdict(kept, e) = Verdict(rows, e)
             \/ Verdict(rows, e) = "sealed" /\ Verdict(kept, e) = "unknown"
  BY <1>2, <1>3, SweptVerdict
<1>5. OneOfSession(kept) /\ OneOfSession(rows')
  BY <1>2, <1>3, SweepKeepsRows DEF RowsOK, OneRowPerSession, OneOfSession
<1>6. ASSUME \A r \in kept : r.sub.session # sub.session, rows' = kept \cup {lease}
      PROVE  \A e : Verdict(rows', e) = Verdict(kept, e)
  <2>1. lease \in rows' /\ lease.sub = sub /\ Stands(lease) = "open"
    BY <1>6 DEF Stands
  <2> HIDE DEF lease, kept, sub
  <2>2. Verdict(rows', sub.session) = "open"
    BY <1>5, <2>1, RowStands
  <2>3. Verdict(kept, sub.session) = "open"
    BY <1>6, NoneStands
  <2>4. /\ \A r \in rows' : r.sub.session # sub.session => r \in kept
        /\ \A r \in kept : r.sub.session # sub.session => r \in rows'
    BY <1>6, <2>1
  <2>5. \A e : e # sub.session => Verdict(rows', e) = Verdict(kept, e)
    BY <1>5, <2>4, OthersStand
  <2> QED
    BY <2>2, <2>3, <2>5
<1>7. \A e : Verdict(rows', e) = Verdict(kept, e)
  <2>1. \/ rows' = kept
        \/ (\A r \in kept : r.sub.session # sub.session) /\ rows' = kept \cup {lease}
    BY <1>1
  <2> QED
    BY <1>6, <2>1
<1> QED
  BY <1>3, <1>4, <1>7, GivenUpIsPromised

\* The mark seals its session, or finds it sealed.
LEMMA StartIsPromised ==
  ASSUME ServerInv, ServerInv', NEW c \in Slots, Start(c)
  PROVE  PromiseStep
<1>1. RowsOK /\ RowsOK' /\ \A e \in 0..MaxKeys : Buyers(e)' = Buyers(e)
  BY ServerFacts DEF Start, Buyers, ServerInv, ServerTypeOK, RowsOK
<1>2. CASE rows' = rows
  BY <1>1, <1>2, NothingTurns
<1>3. ASSUME NEW r \in Held(c), Become(c, [r EXCEPT !.dispatched = TRUE])
      PROVE  PromiseStep
  <2>1. r \in Mine(c)
    BY DEF Held
  <2>2. Mine(c) = {r} /\ r \in rows /\ r \in Row /\ r.holder = {c}
    BY <1>1, <2>1, MineIsOne
  <2>3. r.status = "reserved"
    BY <1>1, <2>2 DEF RowsOK, EndedWell
  <2>4. PICK s \in {[r EXCEPT !.dispatched = TRUE]} : TRUE
    OBVIOUS
  <2>5. s \in Row /\ s.sub = r.sub /\ s.status = "reserved" /\ s.dispatched
    BY <2>2, <2>3, <2>4 DEF Row
  <2>6. rows' = (rows \ {r}) \cup {s}
    BY <1>3, <2>2, <2>4 DEF Become
  <2>7. Stands(s) = "sealed" /\ Stands(r) \in {"open", "sealed"}
    BY <2>2, <2>3, <2>5, StandsType
  <2> QED
    BY <1>1, <2>2, <2>5, <2>6, <2>7, RowTurns, TurnIsPromised DEF MayTurn
<1> QED
  BY <1>2, <1>3 DEF Start

\* A handler's own row ends.
LEMMA EndIsPromised ==
  ASSUME ServerInv, ServerInv', NEW c \in Slots, NEW r \in Held(c),
         NEW status \in {"completed", "failed"}, NEW report \in GradedReport,
         Become(c, Ended(r, status, report)), payments' = payments,
         status = "failed" => r.dispatched
  PROVE  PromiseStep
<1>1. RowsOK /\ RowsOK' /\ \A e \in 0..MaxKeys : Buyers(e)' = Buyers(e)
  BY ServerFacts DEF Buyers, ServerInv, ServerTypeOK, RowsOK
<1>2. r \in Mine(c)
  BY DEF Held
<1>3. Mine(c) = {r} /\ r \in rows /\ r \in Row /\ r.holder = {c}
  BY <1>1, <1>2, MineIsOne
<1>4. r.status = "reserved"
  BY <1>1, <1>3 DEF RowsOK, EndedWell
<1>5. PICK s \in Row : s = Ended(r, status, report) /\ s.sub = r.sub /\ s.status = status
  BY <1>3, EndOfRow
<1>6. rows' = (rows \ {r}) \cup {s}
  BY <1>3, <1>5 DEF Become
<1>7. MayTurn(r.sub.session, Stands(r), Stands(s))
  BY <1>3, <1>4, <1>5, StandsType DEF MayTurn
<1> QED
  BY <1>1, <1>3, <1>5, <1>6, <1>7, RowTurns, TurnIsPromised

\* A report is stored.
LEMMA CompleteIsPromised ==
  ASSUME ServerInv, ServerInv', NEW c \in Slots, Complete(c)
  PROVE  PromiseStep
<1>1. CASE rows' = rows
  BY <1>1, NothingTurns DEF Complete, Buyers
<1>2. ASSUME NEW r \in Held(c), Become(c, Ended(r, "completed", request[c].report))
      PROVE  PromiseStep
  BY <1>2, ServerFacts, EndIsPromised DEF Complete
<1> QED
  BY <1>1, <1>2 DEF Complete

\* A failure gives a marked row up.
LEMMA TerminateIsPromised ==
  ASSUME ServerInv, ServerInv', PaidRowIsMarked, NEW c \in Slots, Terminate(c)
  PROVE  PromiseStep
<1>1. CASE rows' = rows
  BY <1>1, NothingTurns DEF Terminate, Buyers
<1>2. ASSUME NEW r \in Held(c), Become(c, Ended(r, "failed", NoReport))
      PROVE  PromiseStep
  <2>1. NoReport \in GradedReport
    BY DEF NoReport, GradedReport, Texts
  <2>2. r.dispatched
    BY DEF Held, PaidRowIsMarked, Terminate, At, Owes
  <2> QED
    BY <1>2, <2>1, <2>2, EndIsPromised DEF Terminate
<1> QED
  BY <1>1, <1>2 DEF Terminate

\* A lease given back was unpaid.
LEMMA GiveBackIsPromised ==
  ASSUME ServerInv, ServerInv', NEW c \in Slots, GiveBack(c)
  PROVE  PromiseStep
<1>1. RowsOK /\ RowsOK' /\ \A e \in 0..MaxKeys : Buyers(e)' = Buyers(e)
  BY ServerFacts DEF GiveBack, Buyers, ServerInv, ServerTypeOK, RowsOK
<1>2. rows' = rows \/ rows' = rows \ Mine(c)
  BY DEF GiveBack
<1>3. CASE rows' = rows
  BY <1>1, <1>3, NothingTurns
<1>4. ASSUME NEW r \in Mine(c), rows' = rows \ Mine(c)
      PROVE  PromiseStep
  <2>1. Mine(c) = {r} /\ r \in rows /\ r \in Row /\ r.holder = {c}
    BY <1>1, MineIsOne
  <2>2. r.status = "reserved" /\ Stands(r) \in {"open", "sealed"}
    BY <1>1, <2>1, StandsType DEF RowsOK, EndedWell
  <2>3. Buyers(r.sub.session) = {}
    BY GivenBackIsUnpaid DEF GiveBack, At, Working
  <2> QED
    BY <1>1, <1>4, <2>1, <2>2, <2>3, RowVanishes, TurnIsPromised DEF MayTurn
<1> QED
  BY <1>2, <1>3, <1>4

\* A handler that asks buys for its session, which is sealed or given up.
LEMMA AskIsPromised ==
  ASSUME ServerInv, NEW c \in Slots, Ask(c)
  PROVE  PromiseStep
<1>1. /\ RowsOK /\ rows' = rows /\ At(c, "asking") /\ request[c].sub \in Submission
      /\ payments \subseteq Payment /\ IsFiniteSet(payments)
  BY ServerFacts DEF Ask
<1>2. CASE payments' = payments
  BY <1>1, <1>2, NothingTurns DEF Buyers
<1>3. CASE Pay(c)
  <2> DEFINE V == [f \in 0..MaxKeys |-> Verdict(rows, f)]
             B == [f \in 0..MaxKeys |-> Buyers(f)]
             sub == request[c].sub
             e == sub.session
  <2>1. PICK nr \in Nat : payments' = payments \cup {[sub |-> sub, nr |-> nr, deleted |-> FALSE]}
    BY <1>3, PayBooksOne
  <2>2. e \in 0..MaxKeys
    BY <1>1 DEF Submission
  <2>3. PICK r \in rows : HoldsOrFailed(c, r)
    BY <1>1 DEF ServerInv, AskingHoldsRow
  <2>4. V[e] # "open"
    <3>1. OneOfSession(rows) /\ r \in Row
      BY <1>1 DEF RowsOK, OneRowPerSession, OneOfSession
    <3>2. Verdict(rows, e) = Stands(r)
      BY <2>3, <3>1, RowStands DEF HoldsOrFailed
    <3> QED
      BY <2>2, <2>3, <3>1, <3>2, StandsType DEF HoldsOrFailed
  <2>5. Buyers(e) = {}
    BY <1>1, UnpaidHasNoBuyer DEF ServerInv, AskingIsUnpaid
  <2>6. ASSUME NEW f PROVE Buyers(f)' = IF f = e THEN {nr} ELSE Buyers(f)
    <3> DEFINE new == [sub |-> sub, nr |-> nr, deleted |-> FALSE]
               Kept(S) == {q \in S : q.sub.session = f /\ ~ q.deleted}
    <3>1. new.sub.session = e /\ new.nr = nr /\ ~ new.deleted /\ payments' = payments \cup {new}
      BY <2>1
    <3> HIDE DEF new
    <3>2. Kept(payments') = Kept(payments) \cup (IF f = e THEN {new} ELSE {})
      BY <3>1
    <3>3. Buyers(f)' = {p.nr : p \in Kept(payments')} /\ Buyers(f) = {p.nr : p \in Kept(payments)}
      BY DEF Buyers
    <3>4. Buyers(f)' = Buyers(f) \cup (IF f = e THEN {nr} ELSE {})
      BY <3>1, <3>2, <3>3
    <3> QED
      BY <2>5, <3>4
  <2>7. B' = [B EXCEPT ![e] = {nr}] /\ B[e] = {} /\ V' = V
    BY <1>1, <2>2, <2>5, <2>6
  <2>8. Promise!Buy(e, nr)
    BY <2>4, <2>7 DEF Promise!Buy
  <2> QED
    BY <2>1, <2>2, <2>8 DEF PromiseStep, Promise!Next
<1> QED
  BY <1>2, <1>3 DEF Ask
\* A lease that ends by the clock changes no verdict; a run that ends, no row.
LEMMA ExpireIsPromised ==
  ASSUME ServerInv, ServerInv', Expire
  PROVE  PromiseStep
<1>1. RowsOK /\ RowsOK' /\ \A e \in 0..MaxKeys : Buyers(e)' = Buyers(e)
  BY ServerFacts DEF Expire, Buyers, ServerInv, ServerTypeOK, RowsOK
<1>2. CASE rows' = rows
  BY <1>1, <1>2, NothingTurns
<1>3. ASSUME NEW r \in rows, rows' = (rows \ {r}) \cup {[r EXCEPT !.live = FALSE]}
      PROVE  PromiseStep
  <2>1. PICK s \in {[r EXCEPT !.live = FALSE]} : TRUE
    OBVIOUS
  <2>2. r \in Row
    BY <1>1 DEF RowsOK
  <2>3. s.sub = r.sub /\ s.status = r.status /\ s.dispatched = r.dispatched
    BY <2>1, <2>2 DEF Row
  <2>4. Stands(s) = Stands(r)
    BY <2>3 DEF Stands
  <2>5. rows' = (rows \ {r}) \cup {s}
    BY <1>3, <2>1
  <2>6. \A f \in 0..MaxKeys : Verdict(rows', f) = Verdict(rows, f)
    BY <1>1, <2>3, <2>4, <2>5, RowTurns
  <2> QED
    BY <1>1, <2>6, NothingTurns
<1> QED
  BY <1>2, <1>3 DEF Expire

\* A completed attempt is forgotten with what was paid for it; an expired one
\* that was not marked was not paid for.
LEMMA OwnerDeletesIsPromised ==
  ASSUME ServerInv, ServerInv', OwnerDeletes
  PROVE  PromiseStep
<1>1. PICK r \in rows :
        /\ r.status = "completed" \/ (Expired(r) /\ ~ r.dispatched)
        /\ rows' = rows \ {r}
        /\ payments' = {IF p.sub.session = r.sub.session THEN [p EXCEPT !.deleted = TRUE] ELSE p :
                          p \in payments}
  BY DEF OwnerDeletes
<1>2. RowsOK /\ RowsOK' /\ payments \subseteq Payment
  BY ServerFacts DEF ServerInv, ServerTypeOK, RowsOK
<1> DEFINE e == r.sub.session
           V == [f \in 0..MaxKeys |-> Verdict(rows, f)]
           B == [f \in 0..MaxKeys |-> Buyers(f)]
           forgiven(p) == IF p.sub.session = e THEN [p EXCEPT !.deleted = TRUE] ELSE p
<1>3. /\ e \in 0..MaxKeys /\ Verdict(rows, e) = Stands(r) /\ Verdict(rows', e) = "open"
      /\ \A f : f # e => Verdict(rows', f) = Verdict(rows, f)
  BY <1>1, <1>2, RowVanishes
<1>4. ASSUME NEW p \in payments
      PROVE  /\ forgiven(p).sub = p.sub /\ forgiven(p).nr = p.nr
             /\ p.sub.session = e => forgiven(p).deleted
             /\ p.sub.session # e => forgiven(p).deleted = p.deleted
  BY <1>2 DEF Payment
<1> HIDE DEF forgiven
<1>5. payments' = {forgiven(p) : p \in payments}
  BY <1>1 DEF forgiven
<1>6. Buyers(e)' = {}
  BY <1>4, <1>5 DEF Buyers
<1>7. ASSUME NEW f, f # e PROVE Buyers(f)' = Buyers(f)
  <2>1. \A n : n \in Buyers(f)' <=> \E p \in payments : p.sub.session = f /\ ~ p.deleted /\ p.nr = n
    BY <1>4, <1>5, <1>7 DEF Buyers
  <2>2. \A n : n \in Buyers(f) <=> \E p \in payments : p.sub.session = f /\ ~ p.deleted /\ p.nr = n
    BY DEF Buyers
  <2>3. \A n : n \in Buyers(f)' <=> n \in Buyers(f)
    BY <2>1, <2>2
  <2> QED
    BY <2>3
<1>8. CASE r.status = "completed"
  <2>1. V[e] = "stored"
    BY <1>2, <1>3, <1>8, StandsType DEF RowsOK
  <2>2. V' = [V EXCEPT ![e] = "open"]
    BY <1>3
  <2>3. B' = [B EXCEPT ![e] = {}]
    BY <1>3, <1>6, <1>7
  <2>4. Promise!Forget(e)
    BY <2>1, <2>2, <2>3 DEF Promise!Forget, Promise!Become
  <2> QED
    BY <1>3, <2>4 DEF PromiseStep, Promise!Next
<1>9. CASE Expired(r) /\ ~ r.dispatched
  <2>1. Stands(r) = "open"
    BY <1>2, <1>9, StandsType DEF RowsOK, Expired
  <2>2. \A p \in payments : p.sub.session = e => p.deleted
    <3>1. ASSUME NEW p \in payments, p.sub.session = e, ~ p.deleted PROVE FALSE
      <4>1. PICK s \in rows : s.sub.session = p.sub.session /\ KeepsPaidRow(s)
        BY <3>1 DEF ServerInv, PaidHasRow
      <4> QED
        BY <1>2, <1>9, <3>1, <4>1 DEF RowsOK, OneRowPerSession, KeepsPaidRow
    <3> QED
      BY <3>1
  <2>3. Buyers(e) = {}
    BY <2>2, UnpaidHasNoBuyer
  <2> QED
    BY <1>3, <1>6, <1>7, <2>1, <2>3, NothingTurns
<1> QED
  BY <1>1, <1>8, <1>9

-----------------------------------------------------------------------------
(* A handler that has paid finds its row marked.                           *)

\* Handlers keep what they owe for, and the rows their marks.
LEMMA MarksAreKept ==
  ASSUME PaidRowIsMarked, request \in [Slots -> Handler],
         \A c \in Slots : request'[c].phase \in Owes =>
           /\ request[c].phase \in Owes /\ request'[c].sub = request[c].sub
           /\ \A s \in rows' : s.holder = {c} =>
                \E r \in rows : r.sub = s.sub /\ r.holder = {c} /\ (r.dispatched => s.dispatched)
  PROVE  PaidRowIsMarked'
<1>1. ASSUME NEW c \in Slots, request'[c].phase \in Owes, NEW s \in Mine(c)'
      PROVE  s.dispatched
  <2>1. s \in rows' /\ s.holder = {c} /\ s.sub = request[c].sub /\ request[c].phase \in Owes
    BY <1>1 DEF Mine
  <2>2. PICK r \in rows : r.sub = s.sub /\ r.holder = {c} /\ (r.dispatched => s.dispatched)
    BY <1>1, <2>1
  <2>3. r \in Mine(c)
    BY <2>1, <2>2 DEF Mine
  <2> QED
    BY <2>1, <2>2, <2>3 DEF PaidRowIsMarked
<1> QED
  BY <1>1 DEF PaidRowIsMarked

\* Rows that others may hold come from the rows there were.
ComeFrom(c) ==
  \A s \in rows' : s.holder = {c} =>
    \E r \in rows : r.sub = s.sub /\ r.holder = {c} /\ (r.dispatched => s.dispatched)

\* One's own row becomes another one, without a new holder.
LEMMA BecomeComesFrom ==
  ASSUME ServerInv, NEW c \in Slots, NEW r \in Mine(c), NEW s, Become(c, s), s.sub = r.sub,
         r.dispatched => s.dispatched, s.holder \in {{}, r.holder}
  PROVE  \A d \in Slots : ComeFrom(d)
<1>1. Mine(c) = {r} /\ r \in rows
  BY ServerFacts, MineIsOne
<1> QED
  BY <1>1 DEF ComeFrom, Become

\* What a handler does to the rows.
LEMMA ReportComesFrom ==
  ASSUME ServerInv, NEW c \in Slots, Report(c)
  PROVE  \A d \in Slots : ComeFrom(d) \/ (Reserve(c) /\ d = c)
<1>1. RowsOK /\ \A r \in rows : r \in Row /\ EndedWell(r)
  BY ServerFacts DEF RowsOK
<1>2. CASE rows' \subseteq rows
  BY <1>2 DEF ComeFrom
<1>3. ASSUME Reserve(c), NEW d \in Slots, d # c PROVE ComeFrom(d)
  <2> DEFINE sub == request[c].sub
             expired == {r \in rows : Expired(r)}
             own == {r \in expired : r.sub.key = sub.key}
             lease == [sub |-> sub, status |-> "reserved", holder |-> {c},
                       dispatched |-> FALSE, live |-> TRUE, report |-> NoReport]
             end(r) == Ended(r, "failed", NoReport)
  <2>1. PICK old \in SUBSET (expired \ own) :
          rows' = Swept(old \cup own) \cup {lease} \/ rows' = Swept(old \cup own)
    BY <1>3 DEF Reserve
  <2>2. lease.holder = {c}
    OBVIOUS
  <2>3. NoReport \in GradedReport
    BY DEF NoReport, GradedReport, Texts
  <2>4. \A r \in rows : end(r).holder = {}
    BY <1>1, <2>3, EndOfRow
  <2> HIDE DEF lease, end
  <2>5. \A s \in Swept(old \cup own) : s \in rows \/ \E r \in rows : s = end(r)
    BY DEF Swept, end
  <2>6. \A s \in rows' : s.holder = {d} => s \in rows
    <3>1. {} # {d} /\ {c} # {d}
      BY <1>3
    <3> QED
      BY <2>1, <2>2, <2>4, <2>5, <3>1
  <2> QED
    BY <2>6 DEF ComeFrom
<1>4. ASSUME NEW r \in Held(c), Become(c, [r EXCEPT !.dispatched = TRUE])
      PROVE  \A d \in Slots : ComeFrom(d)
  <2>1. PICK s \in {[r EXCEPT !.dispatched = TRUE]} : TRUE
    OBVIOUS
  <2>2. r \in Mine(c) /\ r \in Row
    BY <1>1 DEF Held, Mine
  <2>3. s.sub = r.sub /\ s.holder = r.holder /\ s.dispatched
    BY <2>1, <2>2 DEF Row
  <2> QED
    BY <1>4, <2>1, <2>2, <2>3, BecomeComesFrom
<1>5. ASSUME NEW r \in Held(c), NEW status \in {"completed", "failed"}, NEW report \in GradedReport,
             Become(c, Ended(r, status, report))
      PROVE  \A d \in Slots : ComeFrom(d)
  <2>1. r \in Mine(c) /\ r \in Row
    BY <1>1 DEF Held, Mine
  <2>2. /\ Ended(r, status, report).sub = r.sub /\ Ended(r, status, report).holder = {}
        /\ Ended(r, status, report).dispatched = r.dispatched
    BY <2>1, EndOfRow
  <2> QED
    BY <1>5, <2>1, <2>2, BecomeComesFrom
<1>6. CASE Complete(c) \/ Terminate(c)
  <2>1. NoReport \in GradedReport /\ request[c].report \in GradedReport
    BY ServerFacts DEF NoReport, GradedReport, Texts
  <2> QED
    BY <1>2, <1>5, <1>6, <2>1 DEF Complete, Terminate
<1>7. CASE Start(c)
  BY <1>2, <1>4, <1>7 DEF Start
<1>8. CASE ReserveRefused(c) \/ HiddenTests(c) \/ Executed(c) \/ Ask(c) \/ GiveBack(c) \/ Die(c)
  BY <1>2, <1>8 DEF ReserveRefused, HiddenTests, Executed, Ask, GiveBack, Die
<1> QED
  BY <1>3, <1>6, <1>7, <1>8 DEF Report
\* The phase a handler goes to.
LEMMA PhaseOf ==
  ASSUME ServerInv, NEW c \in Slots, NEW phase,
         \/ Go(c, phase) \/ \E reply : Then(c, phase, reply)
         \/ \E report : request' = [request EXCEPT ![c].phase = phase, ![c].reply = "report",
                                      ![c].report = report]
  PROVE  request'[c].phase = phase
<1> DEFINE h == request[c]
<1>1. request \in [Slots -> Handler] /\ h \in Handler
  BY ServerFacts
<1>2. \/ request'[c] = [h EXCEPT !.phase = phase]
      \/ \E reply : request'[c] = [h EXCEPT !.phase = phase, !.reply = reply]
      \/ \E report : request'[c] = [h EXCEPT !.phase = phase, !.reply = "report", !.report = report]
  BY <1>1 DEF Go, Then
<1> HIDE DEF h
<1> QED
  BY <1>1, <1>2 DEF Handler

\* A handler owes once it has asked, and until it has answered.
LEMMA OwesSinceItAsked ==
  ASSUME ServerInv, NEW c \in Slots, Report(c), request'[c].phase \in Owes
  PROVE  Ask(c) \/ Complete(c)
<1>1. ~ Reserve(c)
  <2>1. ASSUME Reserve(c)
        PROVE  \/ Go(c, "testing") \/ Answer(c, "error")
               \/ \E report : request' = [request EXCEPT ![c].phase = "answered",
                                 ![c].reply = "report", ![c].report = report]
    BY <2>1 DEF Reserve
  <2>2. ASSUME Reserve(c) PROVE request'[c].phase \in {"testing", "answered"}
    BY <2>1, <2>2, PhaseOf DEF Answer
  <2> QED
    BY <2>2 DEF Owes
<1>2. ~ ReserveRefused(c) /\ ~ Die(c)
  BY PhaseOf DEF ReserveRefused, Die, Answer, Owes
<1>3. ~ HiddenTests(c) /\ ~ Executed(c)
  BY PhaseOf DEF HiddenTests, Executed, Owes
<1>4. ~ Start(c) /\ ~ Terminate(c) /\ ~ GiveBack(c)
  BY PhaseOf DEF Start, Terminate, GiveBack, Answer, Owes
<1> QED
  BY <1>1, <1>2, <1>3, <1>4 DEF Report

\* A step of a handler keeps the marks.
LEMMA ReportKeepsMarks ==
  ASSUME ServerInv, PaidRowIsMarked, NEW c \in Slots, Report(c)
  PROVE  PaidRowIsMarked'
<1>1. /\ request'[c].sub = request[c].sub /\ \A d \in Slots : d # c => request'[d] = request[d]
      /\ request \in [Slots -> Handler] /\ RowsOK
  BY ReportKeepsSubmission, ServerFacts
<1>2. CASE Ask(c) /\ request'[c].phase \in Owes
  <2>1. rows' = rows /\ At(c, "asking")
    BY <1>2 DEF Ask
  <2>2. PICK r \in rows : HoldsOrFailed(c, r)
    BY <2>1 DEF ServerInv, AskingHoldsRow
  <2>3. \A s \in Mine(c) : s = r
    BY <1>1, <2>2 DEF Mine, HoldsOrFailed, RowsOK, OneRowPerSession
  <2>4. \A d \in Slots : Mine(d)' = Mine(d)
    BY <1>1, <2>1 DEF Mine
  <2> QED
    BY <1>1, <2>2, <2>3, <2>4 DEF PaidRowIsMarked, HoldsOrFailed
<1>3. CASE request'[c].phase \in Owes => request[c].phase \in Owes /\ ~ Reserve(c)
  <2>1. \A d \in Slots : request'[d].phase \in Owes => ComeFrom(d)
    BY <1>1, <1>3, ReportComesFrom
  <2> QED
    BY <1>1, <1>3, <2>1, MarksAreKept DEF ComeFrom
<1>4. ASSUME Complete(c) PROVE request[c].phase \in Owes /\ ~ Reserve(c)
  BY <1>4 DEF Complete, Reserve, At, Owes
<1> QED
  BY <1>2, <1>3, <1>4, OwesSinceItAsked

\* The clock and the owner keep them too.
LEMMA OutsideKeepsMarks ==
  ASSUME ServerInv, PaidRowIsMarked, Expire \/ OwnerDeletes
  PROVE  PaidRowIsMarked'
<1>1. request' = request /\ request \in [Slots -> Handler] /\ rows \subseteq Row
  BY ServerFacts DEF Expire, OwnerDeletes
<1>2. \A s \in rows' : \E r \in rows : r.sub = s.sub /\ r.holder = s.holder /\ r.dispatched = s.dispatched
  <2>1. CASE rows' \subseteq rows
    BY <2>1
  <2>2. ASSUME NEW r \in rows, rows' = (rows \ {r}) \cup {[r EXCEPT !.live = FALSE]}
        PROVE  \A s \in rows' : \E q \in rows : /\ q.sub = s.sub /\ q.holder = s.holder
                                                /\ q.dispatched = s.dispatched
    <3>1. PICK s \in {[r EXCEPT !.live = FALSE]} : TRUE
      OBVIOUS
    <3>2. r.sub = s.sub /\ r.holder = s.holder /\ r.dispatched = s.dispatched
      BY <1>1, <3>1 DEF Row
    <3> QED
      BY <2>2, <3>1, <3>2
  <2> QED
    BY <2>1, <2>2 DEF Expire, OwnerDeletes
<1> QED
  BY <1>1, <1>2, MarksAreKept

\* Every step of the browser leaves rows and payments alone; it sends to an idle
\* handler, or hears one that has answered.
LEMMA BrowserIsPromised ==
  ASSUME SessionInv, PaidRowIsMarked,
         \/ \E t \in Tabs : Learner(t)
         \/ \E r \in runs : RunAnswered(r)
         \/ \E c \in Slots : ReportAnswered(c)
         \/ UNCHANGED vars
  PROVE  PaidRowIsMarked' /\ PromiseStep
<1>1. UNCHANGED <<rows, payments>>
  BY DEF Learner, Refresh, Reload, StartInterview, MoveToQuestion, RunCurrentCode, ResetInterview,
         UpdateAnswer, FinishInterview, RunAnswered, ReportAnswered, vars, serverVars
<1>2. request \in [Slots -> Handler]
  BY ServerFacts DEF SessionInv
<1>3. \A d \in Slots : request'[d].phase \in Owes => request'[d] = request[d]
  <2>1. ASSUME NEW t \in Tabs, NEW c \in Slots, FinishInterview(t, c)
        PROVE  \A d \in Slots : request'[d].phase \in Owes => request'[d] = request[d]
    <3>1. PICK sub : request' = [request EXCEPT ![c] = [Idle EXCEPT !.phase = "sent", !.sub = sub]]
      BY <2>1 DEF FinishInterview
    <3>2. [Idle EXCEPT !.phase = "sent", !.sub = sub].phase = "sent"
      BY DEF Idle
    <3> QED
      BY <1>2, <3>1, <3>2 DEF Owes
  <2>2. ASSUME NEW c \in Slots, ReportAnswered(c)
        PROVE  \A d \in Slots : request'[d].phase \in Owes => request'[d] = request[d]
    <3>1. request' = [request EXCEPT ![c] = Idle] /\ Idle.phase = "idle"
      BY <2>2 DEF ReportAnswered, Idle
    <3> QED
      BY <1>2, <3>1 DEF Owes
  <2>3. CASE request' = request
    BY <2>3
  <2> QED
    BY <2>1, <2>2, <2>3 DEF Learner, Refresh, Reload, StartInterview, MoveToQuestion,
       RunCurrentCode, ResetInterview, UpdateAnswer, RunAnswered, vars, serverVars
<1>4. PaidRowIsMarked'
  BY <1>1, <1>2, <1>3, MarksAreKept
<1> QED
  BY <1>1, <1>4, NothingTurns DEF Buyers

\* Every step of the server is one of PaidOnce.
LEMMA ServerIsPromised ==
  ASSUME SessionInv, ServerInv', PaidRowIsMarked, Server
  PROVE  PaidRowIsMarked' /\ PromiseStep
<1>1. ServerInv
  BY DEF SessionInv
<1>2. ASSUME NEW c \in Slots, Report(c) PROVE PromiseStep
  <2>1. CASE ReserveRefused(c) \/ HiddenTests(c) \/ Executed(c) \/ Die(c)
    BY <2>1, NothingTurns DEF ReserveRefused, HiddenTests, Executed, Die, Buyers
  <2> QED
    BY <1>1, <1>2, <2>1, ReserveIsPromised, StartIsPromised, AskIsPromised, CompleteIsPromised,
       TerminateIsPromised, GiveBackIsPromised DEF Report
<1> QED
  BY <1>1, <1>2, ReportKeepsMarks, OutsideKeepsMarks, ExpireIsPromised, OwnerDeletesIsPromised
     DEF Server

\* At the start every session is open, and nobody has paid.
LEMMA MockInitIsPromised ==
  ASSUME Init
  PROVE  PromiseInv /\ Promise!Init
<1>1. rows = {} /\ payments = {} /\ SessionInv
  BY SessionInit DEF Init, ServerInit
<1>2. PaidRowIsMarked
  BY <1>1 DEF PaidRowIsMarked, Mine
<1>3. Promise!PaidTypeOK
  BY <1>1, PromiseTypes DEF SessionInv
<1>4. \A e \in 0..MaxKeys : Buyers(e) = {}
  BY <1>1 DEF Buyers
<1> QED
  BY <1>1, <1>2, <1>3, <1>4 DEF Promise!Init, PromiseInv

\* The attempts of the sessions implement PaidOnce, payments being the payers: a
\* session is paid for only behind the mark of its row, the mark comes off only
\* if nobody paid, a report stays until the owner deletes it, and a lease that
\* ends once marked leaves the session unknown.
THEOREM ReportsImplementPaidOnce == Spec => Promise!Spec
<1>1. Init => PromiseInv /\ Promise!Init
  BY MockInitIsPromised
<1>2. PromiseInv /\ [Next]_vars => PromiseInv' /\ [Promise!Next]_(Promise!paidVars)
  <2>1. SUFFICES ASSUME PromiseInv, [Next]_vars
                 PROVE  PromiseInv' /\ PromiseStep
    BY DEF PromiseStep
  <2>2. SessionInv' /\ ServerInv'
    BY <2>1, SessionNext DEF PromiseInv, SessionInv
  <2>3. PaidRowIsMarked' /\ PromiseStep
    BY <2>1, <2>2, ServerIsPromised, BrowserIsPromised DEF PromiseInv, Next
  <2> QED
    BY <2>2, <2>3 DEF PromiseInv
<1> QED
  BY <1>1, <1>2, PTL DEF Spec, Promise!Spec
==============================================================================
