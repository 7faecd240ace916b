------------------------ MODULE CoachEvaluationProofs ------------------------
(***************************************************************************)
(* Proofs about the coach reservations, for any number of handlers, keys,  *)
(* fingerprints and attempts, any clock, any lateness of now() and of the  *)
(* messages.  A live lease is only its holder's.  Once the migration is    *)
(* there, an evaluation is paid for once, what a response says stays true, *)
(* and the reservations implement PaidOnce, deletions included.            *)
(*                                                                         *)
(* What makes the latter inductive: an identity has one row; a row's token *)
(* is of the request that leased it; whoever may still pay, or did, holds  *)
(* the sealed row of its identity or finds it ended, and is alone in that; *)
(* and a release is only ever on its way from a handler that owes nothing. *)
(***************************************************************************)
EXTENDS CoachEvaluation, FiniteSetTheorems, TLAPS

-----------------------------------------------------------------------------
(* Types.                                                                  *)

Row == [status : {"none", "running", "completed", "outcome_unknown"}, fp : Fingerprints,
        token : Authors, expires : Nat, dispatched : BOOLEAN, attempt : Slots, author : Authors]
Attempt == [id : Identities \cup {Nobody}, valid : BOOLEAN, author : Authors, at : Nat]
Ops == {"reserve", "dispatch", "complete", "unknown", "release"}
Places == Ops \cup {"idle", "budget", "invoke", "calling", "done", "dead"}
Statuses == {"none", "mismatch", "conflict", "busy", "running", "completed", "outcome_unknown",
             "error", "dispatched", "not_found", "released"}
Message == [from : Handlers, op : Ops, n : {1, 2}, key : Keys, fp : Fingerprints]

TablesOK ==
  /\ rows \in [Keys -> Row] /\ attempts \in [Slots -> Attempt]
  /\ clock \in Nat /\ migrated \in BOOLEAN

HandlersOK ==
  /\ req \in [Handlers -> Request] /\ pc \in [Handlers -> Places]
  /\ stage \in [Handlers -> {"openai", "gemini"}] /\ try \in [Handlers -> {1, 2}]
  /\ wire \subseteq Message
  /\ reply \in [Handlers -> [status : Statuses, author : Authors]]
  /\ provider \in [Handlers -> {"idle", "called", "billed", "refused"}]
  /\ response \in [Handlers -> {"none", "failed", "busy", "conflict", "result", "unknown", "locked"}]
  /\ shown \in [Handlers -> Authors] /\ forgiven \subseteq Handlers

CoachTypeOK == TablesOK /\ HandlersOK

-----------------------------------------------------------------------------
(* The inductive invariant.                                                *)

\* The migration is there from the start and the browsers send localized
\* fingerprints.
Localized == ~ Rollout /\ \A r \in Requests : r.fp \notin Legacy

Terminal == {"completed", "outcome_unknown"}

OneRowPerIdentity ==
  \A j, k \in Keys : Present(j) /\ Present(k) /\ Identity[rows[j].fp] = Identity[rows[k].fp] => j = k

\* A lease is under the key and fingerprint of the request that took it.
TokenIsOfRequest ==
  \A k \in Keys, h \in Handlers : rows[k].status = "running" /\ rows[k].token = h =>
    pc[h] # "idle" /\ req[h] = [key |-> k, fp |-> rows[k].fp]

\* No attempt answers two reservations.
OneLink ==
  \A j, k \in Keys :
    rows[j].status = "completed" /\ rows[k].status = "completed" /\ rows[j].attempt = rows[k].attempt
      => j = k

\* A message is its handler's request; a release comes from one that owes nothing.
Owing(h) == provider[h] \in {"called", "billed"}
MessageSound(m) ==
  /\ pc[m.from] # "idle" /\ req[m.from] = [key |-> m.key, fp |-> m.fp]
  /\ m.op = "reserve" => m.fp \notin Legacy
  /\ m.op = "release" => pc[m.from] \in {"release", "done", "dead"} /\ ~ Owing(m.from)

HandlerSound(h) ==
  /\ reply[h].status # "mismatch"
  /\ pc[h] \in {"idle", "reserve", "budget", "dispatch", "invoke", "release"} => ~ Owing(h)
  /\ response[h] # "none" => pc[h] \in {"release", "done", "dead"}
  /\ response[h] \in {"failed", "busy", "conflict"} => ~ Owing(h)

\* A handler that may pay, or did: it has heard that its lease is marked.
Entitled(h) ==
  \/ pc[h] = "dispatch" /\ reply[h].status = "dispatched"
  \/ pc[h] \in {"invoke", "calling", "complete", "unknown"}
  \/ Owing(h)

\* The row of its request keeps every other buyer out.
Sealed(h) ==
  LET row == rows[req[h].key]
  IN  /\ row.fp = req[h].fp
      /\ \/ row.status = "running" /\ row.token = h /\ row.dispatched
         \/ row.status \in Terminal

EntitledIsSealed == \A h \in Handlers \ forgiven : Entitled(h) => Sealed(h)
OneEntitled ==
  \A g, h \in Handlers \ forgiven : Entitled(g) /\ Entitled(h) /\ IdOf(g) = IdOf(h) => g = h

\* The history keeps an evaluation of this identity by this author.
Stored(id, author) ==
  \E k \in Keys : rows[k].status = "completed" /\ rows[k].author = author /\ Identity[rows[k].fp] = id

HeardIsStored ==
  \A h \in Handlers \ forgiven :
    pc[h] \in {"reserve", "complete", "unknown"} /\ reply[h].status = "completed"
      => Stored(IdOf(h), reply[h].author)
ShownIsStored ==
  \A h \in Handlers \ forgiven : response[h] = "result" => Stored(IdOf(h), shown[h])

RowsInv == OneRowPerIdentity /\ OneLink
HandlersInv ==
  /\ TokenIsOfRequest /\ (\A m \in wire : MessageSound(m)) /\ \A h \in Handlers : HandlerSound(h)
PaidInv == EntitledIsSealed /\ OneEntitled /\ HeardIsStored /\ ShownIsStored

CoachInv == CoachTypeOK /\ migrated /\ RowsInv /\ HandlersInv /\ PaidInv


-----------------------------------------------------------------------------
(* Records and functions.                                                  *)

\* The fingerprints of requests are fingerprints.
LEMMA Fingerprinted == NoFp \in Fingerprints /\ Requests \subseteq Request /\ Request # {}
<1>1. Fingerprints # {}
  BY CoachAssumption DEF Request
<1> QED
  BY <1>1, CoachAssumption DEF NoFp

\* The row of a key nobody reserved.
LEMMA NoRowIsRow == NoRow \in Row /\ NoRow.status = "none" /\ ~ NoRow.dispatched
BY Fingerprinted DEF NoRow, Row, Authors, Slots

\* The row of a lease.
LEMMA LeasedIsRow ==
  ASSUME NEW h \in Authors, NEW f \in Fingerprints, NEW now \in Nat
  PROVE  /\ Leased(h, f, now) \in Row
         /\ Leased(h, f, now).status = "running" /\ Leased(h, f, now).fp = f
         /\ Leased(h, f, now).token = h /\ ~ Leased(h, f, now).dispatched
<1>1. now + Lease \in Nat
  BY CoachAssumption
<1> QED
  BY <1>1, NoRowIsRow DEF Leased, Row

\* The row of an evaluation that ended.
LEMMA EndedIsRow ==
  ASSUME NEW row \in Row, NEW status \in Terminal, NEW slot \in Slots, NEW author \in Authors
  PROVE  LET end == Ended(row, status, slot, author)
         IN  /\ end \in Row /\ end.status = status /\ end.fp = row.fp
             /\ end.attempt = slot /\ end.author = author
BY DEF Ended, Row, Terminal, Authors

\* The row of an unknown outcome.
LEMMA UnknownIsRow ==
  ASSUME NEW row \in Row
  PROVE  /\ Unknown(row) \in Row /\ Unknown(row).status = "outcome_unknown"
         /\ Unknown(row).fp = row.fp
<1>1. "outcome_unknown" \in Terminal /\ Unkeyed \in Slots /\ Nobody \in Authors
  BY DEF Terminal, Slots, Authors
<1> QED
  BY <1>1, EndedIsRow DEF Unknown

\* No reply is of the type of replies.
LEMMA NoReplyIsReply == \A h \in Handlers : NoReply \in [status : Statuses, author : Authors]
                                            /\ NoReply.status = "none"
BY DEF NoReply, Reply, Statuses, Authors

-----------------------------------------------------------------------------
(* The row of an identity.                                                 *)

Of(m) == {j \in Keys : Present(j) /\ Identity[rows[j].fp] = Identity[m.fp]}

\* Unless its key is taken, a request finds the row of its identity.
LEMMA FoundIsOf ==
  ASSUME TablesOK, OneRowPerIdentity, NEW m, m.key \in Keys, m.fp \in Fingerprints,
         ~ KeyTaken(m), Present(m.key) \/ m.fp \notin Legacy
  PROVE  Found(m) = Of(m) /\ \A i, j \in Found(m) : i = j
<1>1. \A i, j \in Of(m) : i = j
  BY DEF Of, OneRowPerIdentity
<1>2. CASE Present(m.key)
  <2>1. m.key \in Of(m) /\ Found(m) = {m.key}
    BY <1>2 DEF Of, Found, RowOf, KeyTaken
  <2> QED
    BY <1>1, <2>1
<1>3. CASE ~ Present(m.key)
  <2> DEFINE exact  == {j \in Keys : Present(j) /\ rows[j].fp = m.fp}
             legacy == {j \in Keys : Present(j) /\ rows[j].fp \in Legacy
                                       /\ Identity[rows[j].fp] = Identity[m.fp]}
  <2>1. Found(m) = IF exact # {} THEN exact ELSE legacy
    BY <1>3 DEF Found, RowOf
  <2>2. exact \subseteq Of(m) /\ legacy \subseteq Of(m)
    BY DEF Of
  <2>3. \A j \in Of(m) : j \in exact \/ j \in legacy
    BY <1>3, CoachAssumption DEF Of, TablesOK, Row
  <2> QED
    BY <1>1, <2>1, <2>2, <2>3
<1> QED
  BY <1>2, <1>3

-----------------------------------------------------------------------------
(* A transaction.                                                          *)

\* Only rows of this identity change.
ChangesOnly(id) ==
  \A k \in Keys :
    \/ rows'[k] = rows[k]
    \/ (Present(k) => Identity[rows[k].fp] = id) /\ (Present(k)' => Identity[rows'[k].fp] = id)

\* What the transaction of request m may do to the tables: ended rows stay, a
\* running row is somebody's as before or the lease m asks for, a marked one
\* ends or is given back by its holder, and only a marked one ends unknown.
RowsKeep(m) ==
  /\ rows' \in [Keys -> Row] /\ attempts' \in [Slots -> Attempt]
  /\ RowsInv'
  /\ \A k \in Keys : rows[k].status \in Terminal => rows'[k] = rows[k]
  /\ \A k \in Keys : rows'[k].status = "running" =>
       \/ rows[k].status = "running" /\ rows'[k].token = rows[k].token /\ rows'[k].fp = rows[k].fp
       \/ m \in wire /\ k = m.key /\ rows'[k].fp = m.fp /\ rows'[k].token = m.from
  /\ \A k \in Keys : rows[k].status = "running" /\ rows[k].dispatched =>
       \/ /\ rows'[k].fp = rows[k].fp
          /\ \/ rows'[k].status \in Terminal
             \/ rows'[k].status = "running" /\ rows'[k].token = rows[k].token /\ rows'[k].dispatched
       \/ m \in wire /\ m.op = "release" /\ m.from = rows[k].token
  /\ \A k \in Keys : rows'[k].status = "outcome_unknown" /\ rows'[k] # rows[k] =>
       rows[k].status = "running" /\ rows[k].dispatched /\ rows'[k].fp = rows[k].fp
  /\ \E id \in Identities : ChangesOnly(id)

\* What its answer may say.
AnswerSound(m, status, author) ==
  /\ status \in Statuses \ {"mismatch"} /\ author \in Authors
  /\ status = "dispatched" =>
       /\ rows'[m.key].status = "running" /\ rows'[m.key].token = m.from
       /\ rows'[m.key].dispatched
  /\ status = "completed" /\ m.op \in {"reserve", "complete"} => Stored(Identity[m.fp], author)'
  /\ status = "completed" /\ m.op = "unknown" =>
       rows'[m.key].status = "completed" /\ rows'[m.key].author = author

Transaction(m) ==
  RowsKeep(m) /\ \E status, author : AnswerSound(m, status, author) /\ Answers(m, status, author)

Asked == [from : Authors, op : Ops, n : {1, 2}, key : Keys, fp : Fingerprints]

\* What is under way was asked.
LEMMA WireIsAsked == ASSUME CoachTypeOK PROVE wire \subseteq Asked
BY DEF CoachTypeOK, HandlersOK, Message, Asked, Authors

\* A transaction that leaves the tables alone.
LEMMA SameRowsKeep ==
  ASSUME CoachInv, NEW m, UNCHANGED <<rows, attempts>>
  PROVE  RowsKeep(m)
<1>1. RowsInv'
  BY DEF CoachInv, RowsInv, OneRowPerIdentity, OneLink, Present
<1>2. Identity[NoFp] \in Identities /\ ChangesOnly(Identity[NoFp])
  BY Fingerprinted DEF Identities, ChangesOnly
<1> QED
  BY <1>1, <1>2 DEF RowsKeep, CoachInv, CoachTypeOK, TablesOK

\* A transaction that marks or ends one running row.
LEMMA OneRowKeeps ==
  ASSUME CoachInv, NEW m, NEW k \in Keys, NEW row \in Row,
         rows' = [rows EXCEPT ![k] = row], attempts' \in [Slots -> Attempt],
         rows[k].status = "running", row.fp = rows[k].fp,
         row.status = "completed" => Linkable(row.attempt, k),
         row.status = "outcome_unknown" => rows[k].dispatched,
         \/ row.status \in Terminal
         \/ row.status = "running" /\ row.token = rows[k].token /\ row.dispatched
  PROVE  RowsKeep(m)
<1>1. rows \in [Keys -> Row] /\ OneRowPerIdentity /\ OneLink
  BY DEF CoachInv, CoachTypeOK, TablesOK, RowsInv
<1>2. /\ rows' \in [Keys -> Row] /\ rows'[k] = row
      /\ \A j \in Keys \ {k} : rows'[j] = rows[j]
  BY <1>1
<1>3. OneRowPerIdentity'
  BY <1>1, <1>2 DEF OneRowPerIdentity, Present
<1>4. OneLink'
  BY <1>1, <1>2 DEF OneLink, Linkable
<1>5. rows[k].fp \in Fingerprints /\ ChangesOnly(Identity[rows[k].fp])
  BY <1>1, <1>2 DEF Row, ChangesOnly
<1> QED
  BY <1>1, <1>2, <1>3, <1>4, <1>5 DEF RowsKeep, RowsInv, Terminal, Identities

\* Transactions keep the invariant: of the handlers, only one that waits for the
\* answer notices.
LEMMA TransactionKeeps ==
  ASSUME CoachInv, NEW m \in Asked, m \in wire \/ m.from = Nobody, Transaction(m)
  PROVE  CoachInv'
<1>1. PICK status, author : AnswerSound(m, status, author) /\ Answers(m, status, author)
  BY DEF Transaction
<1>2. /\ UNCHANGED <<clock, migrated, req, pc, stage, try, provider, response, shown, forgiven>>
      /\ wire' \subseteq wire
      /\ reply' = IF Awaited(m) THEN [reply EXCEPT ![m.from] = Reply(status, author)] ELSE reply
  BY <1>1 DEF Answers
<1>3. RowsKeep(m) /\ TablesOK /\ HandlersOK
  BY DEF Transaction, CoachInv, CoachTypeOK
<1>4. /\ rows \in [Keys -> Row] /\ rows' \in [Keys -> Row]
      /\ \A h \in Handlers : req[h] \in Request /\ req[h].key \in Keys /\ req[h].fp \in Fingerprints
  BY <1>3 DEF RowsKeep, TablesOK, HandlersOK, Request
<1>5. CoachTypeOK'
  <2>1. Reply(status, author) \in [status : Statuses, author : Authors]
    BY <1>1 DEF Reply, AnswerSound
  <2>2. reply' \in [Handlers -> [status : Statuses, author : Authors]]
    BY <1>2, <1>3, <2>1 DEF HandlersOK
  <2>3. TablesOK'
    BY <1>2, <1>3 DEF TablesOK, RowsKeep
  <2> QED
    BY <1>2, <1>3, <2>2, <2>3 DEF CoachTypeOK, HandlersOK
<1>6. \* Who hears it.
      \A h \in Handlers : reply'[h] # reply[h] =>
        /\ h = m.from /\ m \in wire /\ pc[h] = m.op /\ req[h] = [key |-> m.key, fp |-> m.fp]
        /\ reply'[h].status = status /\ reply'[h].author = author
  BY <1>2, <1>3 DEF HandlersOK, Awaited, Reply
<1>7. HandlersInv'
  <2>1. TokenIsOfRequest'
    BY <1>2, <1>3, <1>4 DEF TokenIsOfRequest, CoachInv, HandlersInv, RowsKeep, MessageSound
  <2>2. \A w \in wire : MessageSound(w)'
    BY <1>2 DEF CoachInv, HandlersInv, MessageSound, Owing
  <2>3. \A h \in Handlers : HandlerSound(h)'
    BY <1>1, <1>2, <1>6 DEF CoachInv, HandlersInv, HandlerSound, Owing, AnswerSound
  <2> QED
    BY <1>2, <2>1, <2>2, <2>3 DEF HandlersInv
<1>8. \* What is stored stays so.
      \A id, a : Stored(id, a) => Stored(id, a)'
  BY <1>3 DEF RowsKeep, Stored, Terminal
<1>9. \* A sealed row stays so, except for its holder's release.
      \A h \in Handlers : Entitled(h) /\ Sealed(h) => Sealed(h)'
  <2> SUFFICES ASSUME NEW h \in Handlers, Entitled(h), Sealed(h) PROVE Sealed(h)'
    OBVIOUS
  <2> DEFINE k == req[h].key
  <2>1. CASE rows[k].status \in Terminal
    BY <1>2, <1>3, <1>4, <2>1 DEF Sealed, RowsKeep
  <2>2. CASE rows[k].status \notin Terminal
    <3>1. rows[k].status = "running" /\ rows[k].dispatched /\ rows[k].token = h /\ rows[k].fp = req[h].fp
      BY <2>2 DEF Sealed
    <3>2. ~ (m \in wire /\ m.op = "release" /\ m.from = rows[k].token)
      BY <3>1 DEF CoachInv, HandlersInv, MessageSound, Entitled
    <3> QED
      BY <1>2, <1>3, <1>4, <3>1, <3>2 DEF Sealed, RowsKeep
  <2> QED
    BY <2>1, <2>2
<1>10. \* Who becomes entitled has just heard that its own lease is marked.
       \A h \in Handlers : Entitled(h)' =>
         \/ Entitled(h)
         \/ Sealed(h)' /\ rows'[req[h].key].status = "running" /\ rows'[req[h].key].token = h
  <2> SUFFICES ASSUME NEW h \in Handlers, Entitled(h)', ~ Entitled(h)
               PROVE  Sealed(h)' /\ rows'[req[h].key].status = "running" /\ rows'[req[h].key].token = h
    OBVIOUS
  <2>1. reply'[h] # reply[h] /\ reply'[h].status = "dispatched"
    BY <1>2 DEF Entitled, Owing
  <2>2. /\ h = m.from /\ req[h] = [key |-> m.key, fp |-> m.fp]
        /\ rows'[m.key].status = "running" /\ rows'[m.key].token = h /\ rows'[m.key].dispatched
    BY <1>1, <1>6, <2>1 DEF AnswerSound
  <2>3. req'[h] = [key |-> m.key, fp |-> rows'[m.key].fp]
    BY <1>4, <1>7, <2>2 DEF HandlersInv, TokenIsOfRequest, Asked
  <2> QED
    BY <1>2, <1>4, <2>2, <2>3, [key |-> m.key, fp |-> rows'[m.key].fp].fp = rows'[m.key].fp DEF Sealed
<1>11. EntitledIsSealed'
  BY <1>2, <1>9, <1>10 DEF CoachInv, PaidInv, EntitledIsSealed
<1>12. OneEntitled'
  <2> SUFFICES ASSUME NEW g \in Handlers \ forgiven, NEW h \in Handlers \ forgiven,
                      Entitled(g)', Entitled(h)', IdOf(g)' = IdOf(h)'
               PROVE  g = h
    BY <1>2 DEF OneEntitled
  <2>1. CASE Entitled(g) /\ Entitled(h)
    BY <1>2, <2>1 DEF CoachInv, PaidInv, OneEntitled, IdOf
  <2>2. CASE ~ (Entitled(g) /\ Entitled(h))
    <3>1. Sealed(g)' /\ Sealed(h)'
      BY <1>2, <1>11 DEF EntitledIsSealed
    <3>2. req[g].key = req[h].key
      BY <1>2, <1>3, <1>4, <3>1
         DEF Sealed, IdOf, RowsKeep, RowsInv, OneRowPerIdentity, Present, Terminal
    <3>3. /\ rows'[req[h].key].status = "running"
          /\ rows'[req[g].key].token = g \/ rows'[req[h].key].token = h
      BY <1>10, <2>2, <3>2
    <3> QED
      BY <1>2, <3>1, <3>2, <3>3 DEF Sealed, Terminal
  <2> QED
    BY <2>1, <2>2
<1>13. HeardIsStored'
  <2> SUFFICES ASSUME NEW h \in Handlers \ forgiven,
                      pc[h] \in {"reserve", "complete", "unknown"}, reply'[h].status = "completed"
               PROVE  Stored(IdOf(h), reply[h].author)'
    BY <1>2 DEF HeardIsStored
  <2>1. CASE reply'[h] = reply[h]
    BY <1>2, <1>8, <2>1 DEF CoachInv, PaidInv, HeardIsStored, IdOf
  <2>2. CASE reply'[h] # reply[h]
    <3>1. /\ h = m.from /\ pc[h] = m.op /\ req[h] = [key |-> m.key, fp |-> m.fp]
          /\ status = "completed" /\ reply'[h].author = author
      BY <1>6, <2>2
    <3>2. CASE m.op \in {"reserve", "complete"}
      BY <1>1, <1>2, <3>1, <3>2 DEF AnswerSound, IdOf
    <3>3. CASE m.op = "unknown"
      <4>1. Sealed(h)'
        BY <1>2, <1>11, <3>1, <3>3 DEF EntitledIsSealed, Entitled
      <4> QED
        BY <1>1, <1>2, <1>4, <3>1, <3>3, <4>1 DEF AnswerSound, Sealed, Stored, IdOf
    <3> QED
      BY <3>1, <3>2, <3>3
  <2> QED
    BY <2>1, <2>2
<1>14. ShownIsStored'
  BY <1>2, <1>8 DEF CoachInv, PaidInv, ShownIsStored, IdOf
<1> QED
  BY <1>2, <1>3, <1>5, <1>7, <1>11, <1>12, <1>13, <1>14 DEF CoachInv, PaidInv, RowsKeep

-----------------------------------------------------------------------------
(* reserve_coach_evaluation.                                               *)

\* A transaction that only answers.
LEMMA OnlyKeeps ==
  ASSUME CoachInv, NEW m \in Asked, NEW status \in Statuses \ {"mismatch", "dispatched"},
         NEW author \in Authors, Only(m, status, author),
         status = "completed" /\ m.op \in {"reserve", "complete"} => Stored(Identity[m.fp], author),
         status = "completed" /\ m.op = "unknown" =>
           rows[m.key].status = "completed" /\ rows[m.key].author = author
  PROVE  Transaction(m)
<1>1. UNCHANGED <<rows, attempts>> /\ Answers(m, status, author)
  BY DEF Only
<1>2. AnswerSound(m, status, author)
  BY <1>1 DEF AnswerSound, Stored
<1> QED
  BY <1>1, <1>2, SameRowsKeep DEF Transaction

\* A terminal row answers with what it stores.
LEMMA TerminalKeeps ==
  ASSUME CoachInv, NEW m \in Asked, NEW k \in Keys, AnswersTerminal(m, rows[k]),
         m.op \in {"reserve", "complete"} => Identity[rows[k].fp] = Identity[m.fp],
         m.op = "unknown" => k = m.key
  PROVE  Transaction(m)
<1>1. rows[k] \in Row
  BY DEF CoachInv, CoachTypeOK, TablesOK
<1>2. rows[k].status \in Terminal /\ rows[k].author \in Authors
  BY <1>1 DEF AnswersTerminal, Row, Terminal
<1>3. rows[k].status \in Statuses \ {"mismatch", "dispatched"}
  BY <1>2 DEF Statuses, Terminal
<1> QED
  BY <1>2, <1>3, OnlyKeeps DEF AnswersTerminal, Stored

\* Nobody is an author.
LEMMA NobodySaysNothing == Nobody \in Authors
BY DEF Authors

\* A reservation answered from the cache.
LEMMA CachedKeeps ==
  ASSUME CoachInv, NEW m \in Asked, m.op = "reserve", Present(m.key) \/ m.fp \notin Legacy,
         ReserveCached(m)
  PROVE  Transaction(m)
<1>1. PICK j \in Found(m) : AnswersTerminal(m, rows[j])
  BY DEF ReserveCached
<1>2. j \in Keys /\ Identity[rows[j].fp] = Identity[m.fp]
  BY <1>1, FoundIsOf DEF Asked, ReserveCached, Of, CoachInv, CoachTypeOK, RowsInv
<1> QED
  BY <1>1, <1>2, TerminalKeeps

\* One that an attempt already saved answers.
LEMMA PromotesKeeps ==
  ASSUME CoachInv, NEW m \in Asked, m.op = "reserve", Present(m.key) \/ m.fp \notin Legacy,
         ReservePromotes(m)
  PROVE  Transaction(m)
<1>1. PICK s \in Candidate(m) :
        /\ attempts[s].valid
        /\ \/ /\ \E j \in Found(m) : rows[j].fp # m.fp
              /\ Only(m, "conflict", Nobody)
           \/ \E k \in IF Found(m) = {} THEN {m.key} ELSE Found(m) :
                /\ Present(k) => rows[k].fp = m.fp
                /\ Linkable(s, k)
                /\ rows' = [rows EXCEPT ![k] =
                      Completed([@ EXCEPT !.fp = m.fp], s, attempts[s].author)]
                /\ UNCHANGED attempts
                /\ Answers(m, "completed", attempts[s].author)
  BY DEF ReservePromotes
<1>2. CASE Only(m, "conflict", Nobody)
  BY <1>2, OnlyKeeps, NobodySaysNothing DEF Statuses
<1>3. ASSUME NEW k \in IF Found(m) = {} THEN {m.key} ELSE Found(m),
             Present(k) => rows[k].fp = m.fp, Linkable(s, k),
             rows' = [rows EXCEPT ![k] =
               Completed([@ EXCEPT !.fp = m.fp], s, attempts[s].author)],
             UNCHANGED attempts, Answers(m, "completed", attempts[s].author)
      PROVE  Transaction(m)
  <2> DEFINE moved == [rows[k] EXCEPT !.fp = m.fp]
             row == Completed(moved, s, attempts[s].author)
  <2>1. /\ rows \in [Keys -> Row] /\ attempts \in [Slots -> Attempt]
        /\ m.key \in Keys /\ m.fp \in Fingerprints /\ m.key \in Slots
    BY DEF CoachInv, CoachTypeOK, TablesOK, Asked, Slots
  <2>2. Found(m) = Of(m) /\ Open(m) /\ OneRowPerIdentity /\ OneLink
    BY FoundIsOf DEF Asked, ReservePromotes, Open, CoachInv, CoachTypeOK, RowsInv
  <2>3. k \in Keys /\ s \in Slots /\ attempts[s].author \in Authors
    BY <2>1, <2>2 DEF Of, Candidate, AttemptOf, Attempt
  <2>4. moved \in Row /\ moved.fp = m.fp
    BY <2>1, <2>3 DEF Row
  <2> HIDE DEF moved
  <2>5. row \in Row /\ row.status = "completed" /\ row.fp = m.fp /\ row.attempt = s
        /\ row.author = attempts[s].author
    BY <2>3, <2>4, EndedIsRow DEF Completed, Terminal
  <2> HIDE DEF row
  <2>6. rows' = [rows EXCEPT ![k] = row]
    BY <1>3 DEF row, moved
  <2>7. RowsKeep(m)
    <3>1. CASE Present(k)
      <4>1. rows[k].status = "running" /\ row.fp = rows[k].fp /\ Linkable(row.attempt, k)
        BY <1>3, <2>2, <2>5, <3>1 DEF Open, Found, RowOf
      <4>2. attempts' \in [Slots -> Attempt] /\ row.status \in Terminal
        BY <1>3, <2>1, <2>5 DEF Terminal
      <4> QED
        BY <2>3, <2>5, <2>6, <4>1, <4>2, OneRowKeeps
    <3>2. CASE ~ Present(k)
      <4>1. k = m.key /\ Of(m) = {}
        BY <1>3, <2>2, <3>2 DEF Of
      <4>2. rows' \in [Keys -> Row] /\ rows'[k] = row /\ \A j \in Keys \ {k} : rows'[j] = rows[j]
        BY <2>1, <2>3, <2>5, <2>6
      <4>3. OneRowPerIdentity'
        BY <2>2, <2>5, <4>1, <4>2 DEF OneRowPerIdentity, Of, Present
      <4>4. OneLink'
        BY <1>3, <2>2, <2>5, <4>2 DEF OneLink, Linkable
      <4>5. Identity[m.fp] \in Identities /\ ChangesOnly(Identity[m.fp])
        BY <2>1, <2>5, <3>2, <4>2 DEF ChangesOnly, Identities
      <4> QED
        BY <1>3, <2>1, <2>5, <3>2, <4>2, <4>3, <4>4, <4>5 DEF RowsKeep, RowsInv, Present, Terminal
    <3> QED
      BY <3>1, <3>2
  <2>8. AnswerSound(m, "completed", attempts[s].author)
    <3>1. rows'[k] = row
      BY <2>1, <2>3, <2>6
    <3>2. Stored(Identity[m.fp], attempts[s].author)'
      BY <1>3, <2>3, <2>5, <3>1 DEF Stored
    <3> QED
      BY <2>3, <3>2 DEF AnswerSound, Statuses
  <2> QED
    BY <1>3, <2>7, <2>8 DEF Transaction
<1> QED
  BY <1>1, <1>2, <1>3

\* One that ends an expired row whose call may have begun.
LEMMA TerminalizesKeeps ==
  ASSUME CoachInv, NEW m \in Asked, Present(m.key) \/ m.fp \notin Legacy, NEW now,
         ReserveTerminalizes(m, now)
  PROVE  Transaction(m)
<1>1. PICK j \in Found(m) : rows' = [rows EXCEPT ![j] = Unknown(@)] /\ rows[j].dispatched
  BY DEF ReserveTerminalizes
<1>2. /\ UNCHANGED attempts /\ Answers(m, "outcome_unknown", Nobody)
      /\ Open(m) /\ rows \in [Keys -> Row] /\ attempts \in [Slots -> Attempt]
  BY DEF ReserveTerminalizes, Uncached, CoachInv, CoachTypeOK, TablesOK
<1>3. j \in Keys /\ rows[j].status = "running"
  BY <1>1, <1>2, FoundIsOf DEF Asked, Open, Of, CoachInv, CoachTypeOK, RowsInv
<1>4. /\ Unknown(rows[j]) \in Row /\ Unknown(rows[j]).status = "outcome_unknown"
      /\ Unknown(rows[j]).fp = rows[j].fp
  BY <1>2, <1>3, UnknownIsRow
<1>5. RowsKeep(m)
  BY <1>1, <1>2, <1>3, <1>4, OneRowKeeps DEF Terminal
<1>6. AnswerSound(m, "outcome_unknown", Nobody)
  BY NobodySaysNothing DEF AnswerSound, Statuses
<1> QED
  BY <1>2, <1>5, <1>6 DEF Transaction

\* One that takes the lease.
LEMMA LeasesKeeps ==
  ASSUME CoachInv, NEW m \in wire, m.op = "reserve", NEW now \in Nat, ReserveLeases(m, now)
  PROVE  Transaction(m)
<1> DEFINE row == Leased(m.from, m.fp, now)
<1>1. /\ rows \in [Keys -> Row] /\ attempts \in [Slots -> Attempt] /\ m \in Message
      /\ m.fp \notin Legacy /\ OneRowPerIdentity /\ OneLink
  BY DEF CoachInv, CoachTypeOK, TablesOK, HandlersOK, HandlersInv, MessageSound, RowsInv
<1>2. /\ m.from \in Handlers /\ m.from \in Authors /\ m.key \in Keys /\ m.fp \in Fingerprints
  BY <1>1 DEF Message, Authors
<1>3. /\ row \in Row /\ row.status = "running" /\ row.fp = m.fp /\ row.token = m.from
      /\ ~ row.dispatched
  BY <1>2, LeasedIsRow
<1> HIDE DEF row
<1>4. /\ Open(m) /\ UNCHANGED attempts /\ Answers(m, "running", Nobody)
      /\ \A j \in Found(m) : ~ rows[j].dispatched
      /\ rows' = [j \in Keys |-> IF j = m.key THEN row ELSE IF j \in Found(m) THEN NoRow ELSE rows[j]]
  BY DEF ReserveLeases, Uncached, row
<1>5. Found(m) = Of(m)
  BY <1>1, <1>2, <1>4, FoundIsOf DEF Open, CoachInv, CoachTypeOK
<1>6. /\ rows' \in [Keys -> Row] /\ rows'[m.key] = row
      /\ \A j \in Of(m) \ {m.key} : rows'[j] = NoRow
      /\ \A j \in Keys \ (Of(m) \cup {m.key}) : rows'[j] = rows[j]
  BY <1>1, <1>2, <1>3, <1>4, <1>5, NoRowIsRow DEF Of
<1>7. \* What gives way is the unmarked lease of this identity.
      /\ \A j \in Of(m) : rows[j].status = "running" /\ ~ rows[j].dispatched
      /\ Present(m.key) => m.key \in Of(m)
  BY <1>2, <1>4, <1>5 DEF Open, KeyTaken, Of
<1>8. OneRowPerIdentity'
  BY <1>1, <1>2, <1>3, <1>6, NoRowIsRow DEF OneRowPerIdentity, Of, Present
<1>9. OneLink'
  BY <1>1, <1>2, <1>3, <1>6, NoRowIsRow DEF OneLink
<1>10. RowsKeep(m)
  <2>1. \A k \in Keys : rows[k].status \in Terminal => rows'[k] = rows[k]
    BY <1>2, <1>6, <1>7 DEF Present, Terminal
  <2>2. \A k \in Keys : rows'[k].status = "running" =>
          \/ rows[k].status = "running" /\ rows'[k].token = rows[k].token /\ rows'[k].fp = rows[k].fp
          \/ m \in wire /\ k = m.key /\ rows'[k].fp = m.fp /\ rows'[k].token = m.from
    BY <1>2, <1>3, <1>6, NoRowIsRow
  <2>3. \A k \in Keys : rows[k].status = "running" /\ rows[k].dispatched => rows'[k] = rows[k]
    BY <1>2, <1>6, <1>7 DEF Present
  <2>4. \A k \in Keys : rows'[k].status = "outcome_unknown" => rows'[k] = rows[k]
    BY <1>2, <1>3, <1>6, NoRowIsRow
  <2>5. Identity[m.fp] \in Identities /\ ChangesOnly(Identity[m.fp])
    BY <1>2, <1>3, <1>6, <1>7, NoRowIsRow DEF ChangesOnly, Identities, Of, Present
  <2> QED
    BY <1>1, <1>4, <1>6, <1>8, <1>9, <2>1, <2>2, <2>3, <2>4, <2>5 DEF RowsKeep, RowsInv
<1>11. AnswerSound(m, "running", Nobody)
  BY NobodySaysNothing DEF AnswerSound, Statuses
<1> QED
  BY <1>4, <1>10, <1>11 DEF Transaction

\* Once the migration is there nothing is answered with a mismatch.
LEMMA ReserveKeeps ==
  ASSUME CoachInv, NEW m \in wire, m.op = "reserve", NEW now \in Nat, Reserve(m, now)
  PROVE  Transaction(m)
<1>1. m \in Asked /\ m.fp \notin Legacy /\ migrated
  BY WireIsAsked DEF CoachInv, HandlersInv, MessageSound
<1>2. CASE ReserveConflict(m) \/ ReserveBusy(m, now)
  BY <1>1, <1>2, OnlyKeeps, NobodySaysNothing DEF ReserveConflict, ReserveBusy, Statuses
<1> QED
  BY <1>1, <1>2, CachedKeeps, PromotesKeeps, TerminalizesKeeps, LeasesKeeps
     DEF Reserve, ReserveMismatch

-----------------------------------------------------------------------------
(* The RPCs of a lease holder.                                             *)

\* The two tables, as the invariant has them.
LEMMA Tables ==
  ASSUME CoachInv
  PROVE  /\ rows \in [Keys -> Row] /\ attempts \in [Slots -> Attempt]
         /\ clock \in Nat /\ OneRowPerIdentity /\ OneLink
BY DEF CoachInv, CoachTypeOK, TablesOK, RowsInv

\* A way out that reports an error, or that nothing was there.
LEMMA ErrorKeeps ==
  ASSUME CoachInv, NEW m \in Asked,
         Only(m, "error", Nobody) \/ Only(m, "not_found", Nobody) \/ Only(m, "conflict", Nobody)
  PROVE  Transaction(m)
BY OnlyKeeps, NobodySaysNothing DEF Statuses

\* The dispatch marker.
LEMMA DispatchKeeps ==
  ASSUME CoachInv, NEW m \in Asked, m.op = "dispatch", NEW now, MarkDispatched(m, now)
  PROVE  Transaction(m)
<1>1. m.key \in Keys
  BY DEF Asked
<1>2. CASE AnswersTerminal(m, rows[m.key])
  BY <1>1, <1>2, TerminalKeeps
<1>3. ASSUME Holds(m), rows' = [rows EXCEPT ![m.key] = [@ EXCEPT !.dispatched = TRUE]],
             UNCHANGED attempts, Answers(m, "dispatched", Nobody)
      PROVE  Transaction(m)
  <2> DEFINE row == [rows[m.key] EXCEPT !.dispatched = TRUE]
  <2>1. rows[m.key] \in Row /\ rows[m.key].status = "running" /\ rows[m.key].token = m.from
    BY <1>1, <1>3, Tables DEF Holds, Running
  <2>2. /\ row \in Row /\ row.status = "running" /\ row.fp = rows[m.key].fp
        /\ row.token = rows[m.key].token /\ row.dispatched
    BY <2>1 DEF Row
  <2>3. rows' = [rows EXCEPT ![m.key] = row] /\ rows'[m.key] = row
    BY <1>1, <1>3, Tables
  <2> HIDE DEF row
  <2>4. RowsKeep(m)
    BY <1>1, <1>3, <2>1, <2>2, <2>3, OneRowKeeps, Tables
  <2>5. AnswerSound(m, "dispatched", Nobody)
    BY <2>1, <2>2, <2>3, NobodySaysNothing DEF AnswerSound, Statuses
  <2> QED
    BY <1>3, <2>4, <2>5 DEF Transaction
<1> QED
  BY <1>2, <1>3, ErrorKeeps DEF MarkDispatched

\* The completion.
LEMMA CompleteKeeps ==
  ASSUME CoachInv, NEW m \in wire, m.op = "complete", NEW now \in Nat, Complete(m, now)
  PROVE  Transaction(m)
<1>1. /\ m \in Asked /\ m.key \in Keys /\ m.key \in Slots /\ m.fp \in Fingerprints
      /\ m.from \in Authors
  BY WireIsAsked DEF CoachInv, Asked, Slots
<1>2. CASE ~ KeyTaken(m) /\ AnswersTerminal(m, rows[m.key])
  <2>1. rows[m.key].fp = m.fp
    BY <1>2 DEF KeyTaken, Present, AnswersTerminal
  <2> QED
    BY <1>1, <1>2, <2>1, TerminalKeeps
<1>3. ASSUME Holds(m), ~ KeyTaken(m), Linkable(m.key, m.key),
             attempts' = [attempts EXCEPT ![m.key] =
               [id |-> Identity[m.fp], valid |-> TRUE, author |-> m.from, at |-> now]],
             rows' = [rows EXCEPT ![m.key] = Completed(@, m.key, m.from)],
             Answers(m, "completed", m.from)
      PROVE  Transaction(m)
  <2> DEFINE row == Completed(rows[m.key], m.key, m.from)
  <2>1. rows[m.key] \in Row /\ rows[m.key].status = "running" /\ rows[m.key].fp = m.fp
    BY <1>1, <1>3, Tables DEF Holds, Running, KeyTaken, Present
  <2>2. /\ row \in Row /\ row.status = "completed" /\ row.fp = rows[m.key].fp
        /\ row.attempt = m.key /\ row.author = m.from
    BY <1>1, <2>1, EndedIsRow DEF Completed, Terminal
  <2>3. rows' = [rows EXCEPT ![m.key] = row] /\ rows'[m.key] = row
    BY <1>1, <1>3, Tables
  <2> HIDE DEF row
  <2>4. [id |-> Identity[m.fp], valid |-> TRUE, author |-> m.from, at |-> now] \in Attempt
    BY <1>1, CoachAssumption DEF Attempt
  <2>5. attempts' \in [Slots -> Attempt]
    BY <1>1, <1>3, <2>4, Tables
  <2>6. Linkable(row.attempt, m.key) /\ row.status \in Terminal
    BY <1>3, <2>2 DEF Terminal
  <2>7. RowsKeep(m)
    BY <1>1, <2>1, <2>2, <2>3, <2>5, <2>6, OneRowKeeps
  <2>8. Stored(Identity[m.fp], m.from)'
    BY <1>1, <2>1, <2>2, <2>3 DEF Stored
  <2>9. AnswerSound(m, "completed", m.from)
    BY <1>1, <2>8, m.op # "unknown" DEF AnswerSound, Statuses
  <2> QED
    BY <1>3, <2>7, <2>9 DEF Transaction
<1> QED
  BY <1>1, <1>2, <1>3, ErrorKeeps DEF Complete

\* The unknown outcome.
LEMMA UnknownKeeps ==
  ASSUME CoachInv, NEW m \in Asked, m.op = "unknown", MarkUnknown(m)
  PROVE  Transaction(m)
<1>1. m.key \in Keys
  BY DEF Asked
<1>2. CASE AnswersTerminal(m, rows[m.key])
  BY <1>1, <1>2, TerminalKeeps
<1>3. ASSUME Holds(m), rows[m.key].dispatched, rows' = [rows EXCEPT ![m.key] = Unknown(@)],
             UNCHANGED attempts, Answers(m, "outcome_unknown", Nobody)
      PROVE  Transaction(m)
  <2>1. rows[m.key] \in Row /\ rows[m.key].status = "running"
    BY <1>1, <1>3, Tables DEF Holds, Running
  <2>2. /\ Unknown(rows[m.key]) \in Row /\ Unknown(rows[m.key]).status = "outcome_unknown"
        /\ Unknown(rows[m.key]).fp = rows[m.key].fp
    BY <2>1, UnknownIsRow
  <2>3. RowsKeep(m)
    BY <1>1, <1>3, <2>1, <2>2, OneRowKeeps, Tables DEF Terminal
  <2>4. AnswerSound(m, "outcome_unknown", Nobody)
    BY NobodySaysNothing DEF AnswerSound, Statuses
  <2> QED
    BY <1>3, <2>3, <2>4 DEF Transaction
<1> QED
  BY <1>2, <1>3, ErrorKeeps DEF MarkUnknown

\* The release.
LEMMA ReleaseKeeps ==
  ASSUME CoachInv, NEW m \in wire, m.op = "release", Release(m)
  PROVE  Transaction(m)
<1>1. m \in Asked /\ m.key \in Keys
  BY WireIsAsked DEF CoachInv, Asked
<1>2. CASE AnswersTerminal(m, rows[m.key])
  BY <1>1, <1>2, TerminalKeeps
<1>3. ASSUME Holds(m), rows' = [rows EXCEPT ![m.key] = NoRow], UNCHANGED attempts,
             Answers(m, "released", Nobody)
      PROVE  Transaction(m)
  <2>1. /\ rows' \in [Keys -> Row] /\ rows'[m.key].status = "none"
        /\ \A k \in Keys \ {m.key} : rows'[k] = rows[k]
    BY <1>1, <1>3, Tables, NoRowIsRow
  <2>2. OneRowPerIdentity' /\ OneLink'
    BY <2>1, Tables DEF OneRowPerIdentity, OneLink, Present
  <2>3. rows[m.key].status = "running" /\ rows[m.key].token = m.from
    BY <1>3 DEF Holds, Running
  <2>4. rows[m.key].fp \in Fingerprints /\ ChangesOnly(Identity[rows[m.key].fp])
    BY <1>1, <2>1, Tables DEF ChangesOnly, Present, Row
  <2>5. RowsKeep(m)
    BY <1>3, <2>1, <2>2, <2>3, <2>4, Tables DEF RowsKeep, RowsInv, Terminal, Identities
  <2>6. AnswerSound(m, "released", Nobody)
    BY NobodySaysNothing DEF AnswerSound, Statuses
  <2> QED
    BY <1>3, <2>5, <2>6 DEF Transaction
<1> QED
  BY <1>1, <1>2, <1>3, ErrorKeeps DEF Release

\* Every RPC, however late, is a transaction.
LEMMA ServeKeeps ==
  ASSUME CoachInv, NEW m \in wire, NEW now \in Nat, Serve(m, now)
  PROVE  Transaction(m)
BY WireIsAsked, ReserveKeeps, DispatchKeeps, CompleteKeeps, UnknownKeeps, ReleaseKeeps
   DEF Serve, CoachInv

\* Leases start at times that have passed.
LEMMA StartsAreTimes == ASSUME CoachTypeOK PROVE Starts \subseteq Nat /\ \A now \in Starts : now <= clock
BY DEF CoachTypeOK, TablesOK, Starts

\* What the browser's second question does is a transaction too.
LEMMA AskAgainKeeps ==
  ASSUME CoachInv, NEW now, AskAgain(now)
  PROVE  \E m \in Asked : m.from = Nobody /\ Transaction(m)
<1>1. PICK k \in Keys :
        LET m == [from |-> Nobody, op |-> "reserve", n |-> 1, key |-> k, fp |-> rows[k].fp]
        IN  Present(k) /\ (ReservePromotes(m) \/ ReserveTerminalizes(m, now))
  BY DEF AskAgain
<1> DEFINE m == [from |-> Nobody, op |-> "reserve", n |-> 1, key |-> k, fp |-> rows[k].fp]
<1>2. m \in Asked /\ m.from = Nobody /\ m.op = "reserve" /\ m.key = k
  BY Tables DEF Asked, Authors, Ops, Row
<1>3. Present(m.key) /\ (ReservePromotes(m) \/ ReserveTerminalizes(m, now))
  BY <1>1
<1> HIDE DEF m
<1> QED
  BY <1>2, <1>3, PromotesKeeps, TerminalizesKeeps

-----------------------------------------------------------------------------
(* The environment.                                                        *)

\* A step that leaves alone all that the invariant reads, attempts and clock
\* apart, and at most loses requests.
LEMMA OutsideKeeps ==
  ASSUME CoachInv, TablesOK', migrated', wire' \subseteq wire,
         UNCHANGED <<rows, req, pc, stage, try, reply, provider, response, shown, forgiven>>
  PROVE  CoachInv'
<1>1. CoachTypeOK' /\ RowsInv'
  BY DEF CoachInv, CoachTypeOK, HandlersOK, RowsInv, OneRowPerIdentity, OneLink, Present
<1>2. HandlersInv'
  BY DEF CoachInv, HandlersInv, TokenIsOfRequest, MessageSound, HandlerSound, Owing
<1>3. EntitledIsSealed' /\ OneEntitled'
  BY DEF CoachInv, PaidInv, EntitledIsSealed, OneEntitled, Entitled, Sealed, Owing, IdOf
<1>4. HeardIsStored' /\ ShownIsStored'
  BY DEF CoachInv, PaidInv, HeardIsStored, ShownIsStored, Stored, IdOf
<1> QED
  BY <1>1, <1>2, <1>3, <1>4 DEF CoachInv, PaidInv

\* Another instance saves an attempt.
LEMMA SavesKeeps == ASSUME CoachInv, OtherInstanceSaves PROVE CoachInv'
<1>1. PICK o \in OldAttempts :
        attempts' = [attempts EXCEPT ![o.slot] =
          [id |-> o.id, valid |-> o.valid, author |-> Nobody, at |-> clock]]
  BY DEF OtherInstanceSaves
<1>2. [id |-> o.id, valid |-> o.valid, author |-> Nobody, at |-> clock] \in Attempt
  BY CoachAssumption, Tables, NobodySaysNothing DEF Attempt
<1>3. attempts' \in [Slots -> Attempt]
  BY <1>1, <1>2, CoachAssumption, Tables
<1> QED
  BY <1>3, OutsideKeeps DEF OtherInstanceSaves, handlerVars, CoachInv, CoachTypeOK, TablesOK

\* Deleting an attempt forgives every handler whose evaluation goes with it.
LEMMA DeleteKeeps == ASSUME CoachInv, DeleteAttempt PROVE CoachInv'
<1>1. PICK s \in Slots :
        LET gone == {k \in Keys : rows[k].status = "completed" /\ rows[k].attempt = s}
        IN  /\ attempts' = [attempts EXCEPT ![s] = NoAttempt]
            /\ rows' = [k \in Keys |-> IF k \in gone THEN NoRow ELSE rows[k]]
            /\ forgiven' = forgiven \cup
                 {h \in Handlers :
                    /\ pc[h] \notin {"idle", "reserve"} \/ reply[h] # NoReply
                    /\ \E k \in gone : Identity[req[h].fp] = Identity[rows[k].fp]}
  BY DEF DeleteAttempt
<1> DEFINE gone == {k \in Keys : rows[k].status = "completed" /\ rows[k].attempt = s}
<1>2. /\ UNCHANGED <<clock, migrated, req, pc, stage, try, wire, reply, provider, response, shown>>
      /\ TablesOK /\ HandlersOK
  BY DEF DeleteAttempt, handlerVars, CoachInv, CoachTypeOK
<1>3. /\ rows' \in [Keys -> Row] /\ (\A k \in gone : rows'[k].status = "none")
      /\ \A k \in Keys \ gone : rows'[k] = rows[k]
  BY <1>1, Tables, NoRowIsRow
<1>4. \A h \in Handlers \ forgiven' :
        /\ h \notin forgiven
        /\ pc[h] \notin {"idle", "reserve"} \/ reply[h] # NoReply =>
             \A k \in Keys : Identity[rows[k].fp] = IdOf(h) => rows'[k] = rows[k]
  BY <1>1, <1>3 DEF IdOf
<1>5. \A k \in gone : rows[k].status = "completed"
  OBVIOUS
<1> HIDE DEF gone
<1>6. CoachTypeOK'
  <2>1. NoAttempt \in Attempt
    BY NobodySaysNothing DEF NoAttempt, Attempt
  <2>2. attempts' \in [Slots -> Attempt] /\ forgiven' \subseteq Handlers
    BY <1>1, <1>2, <2>1, Tables DEF HandlersOK
  <2> QED
    BY <1>2, <1>3, <2>2 DEF CoachTypeOK, TablesOK, HandlersOK
<1>7. RowsInv'
  BY <1>3, Tables DEF RowsInv, OneRowPerIdentity, OneLink, Present
<1>8. HandlersInv'
  <2>1. TokenIsOfRequest'
    BY <1>2, <1>3 DEF CoachInv, HandlersInv, TokenIsOfRequest
  <2>2. (\A m \in wire : MessageSound(m)') /\ (\A h \in Handlers : HandlerSound(h)')
    BY <1>2 DEF CoachInv, HandlersInv, MessageSound, HandlerSound, Owing
  <2> QED
    BY <1>2, <2>1, <2>2 DEF HandlersInv
<1>9. \A h \in Handlers : (Entitled(h)' <=> Entitled(h)) /\ IdOf(h)' = IdOf(h)
  BY <1>2 DEF Entitled, Owing, IdOf
<1>10. EntitledIsSealed'
  <2> SUFFICES ASSUME NEW h \in Handlers \ forgiven', Entitled(h) PROVE Sealed(h)'
    BY <1>9 DEF EntitledIsSealed
  <2>1. Sealed(h) /\ pc[h] \notin {"idle", "reserve"}
    BY <1>4 DEF CoachInv, PaidInv, EntitledIsSealed, HandlersInv, HandlerSound, Entitled
  <2>2. req[h].key \in Keys
    BY <1>2 DEF HandlersOK, Request
  <2> QED
    BY <1>2, <1>4, <2>1, <2>2 DEF Sealed, IdOf
<1>11. OneEntitled'
  BY <1>4, <1>9 DEF CoachInv, PaidInv, OneEntitled
<1>12. \A h \in Handlers \ forgiven' : \A a :
         (pc[h] \notin {"idle", "reserve"} \/ reply[h] # NoReply) /\ Stored(IdOf(h), a)
           => Stored(IdOf(h), a)'
  BY <1>3, <1>4, <1>9 DEF Stored
<1>13. HeardIsStored'
  BY <1>2, <1>4, <1>9, <1>12, NoReplyIsReply DEF CoachInv, PaidInv, HeardIsStored
<1>14. ShownIsStored'
  BY <1>2, <1>4, <1>9, <1>12
     DEF CoachInv, PaidInv, ShownIsStored, HandlersInv, HandlerSound
<1> QED
  BY <1>2, <1>6, <1>7, <1>8, <1>10, <1>11, <1>13, <1>14 DEF CoachInv, PaidInv

\* The provider decides about a handler that has called it.
LEMMA DecidesKeeps == ASSUME CoachInv, NEW h \in Handlers, Decides(h) PROVE CoachInv'
<1>1. PICK what \in {"billed", "refused"} : provider' = [provider EXCEPT ![h] = what]
  BY DEF Decides
<1>2. /\ UNCHANGED <<dbVars, req, pc, stage, try, wire, reply, response, shown, forgiven>>
      /\ provider[h] = "called" /\ HandlersOK /\ TablesOK
  BY DEF Decides, CoachInv, CoachTypeOK
<1>3. /\ \A g \in Handlers : Owing(g)' => Owing(g)
      /\ provider' \in [Handlers -> {"idle", "called", "billed", "refused"}]
  BY <1>1, <1>2 DEF Owing, HandlersOK
<1>4. CoachTypeOK' /\ RowsInv'
  BY <1>2, <1>3 DEF dbVars, CoachTypeOK, TablesOK, HandlersOK, CoachInv, RowsInv,
     OneRowPerIdentity, OneLink, Present
<1>5. HandlersInv'
  BY <1>2, <1>3 DEF dbVars, CoachInv, HandlersInv, TokenIsOfRequest, MessageSound, HandlerSound,
     HandlersOK, Message
<1>6. \A g \in Handlers : Entitled(g)' => Entitled(g)
  BY <1>2, <1>3 DEF Entitled
<1>7. EntitledIsSealed' /\ OneEntitled'
  BY <1>2, <1>6 DEF dbVars, CoachInv, PaidInv, EntitledIsSealed, OneEntitled, Sealed, IdOf
<1>8. HeardIsStored' /\ ShownIsStored'
  BY <1>2 DEF dbVars, CoachInv, PaidInv, HeardIsStored, ShownIsStored, Stored, IdOf
<1> QED
  BY <1>2, <1>4, <1>5, <1>7, <1>8 DEF dbVars, CoachInv, PaidInv

-----------------------------------------------------------------------------
(* The handlers.                                                           *)

Responses == {"none", "failed", "busy", "conflict", "result", "unknown", "locked"}

\* A step of h alone: nobody is told, nothing becomes payable, and what is sent
\* is h's own request.
LocalStep(h) ==
  /\ Locally /\ HandlersOK'
  /\ \A g \in Handlers \ {h} :
       /\ pc'[g] = pc[g] /\ req'[g] = req[g] /\ reply'[g] = reply[g]
       /\ provider'[g] = provider[g] /\ response'[g] = response[g] /\ shown'[g] = shown[g]
  /\ pc'[h] # "idle" /\ (pc[h] = "idle" \/ req'[h] = req[h])
  /\ \A m \in wire' \ wire : m.from = h /\ MessageSound(m)'
  /\ pc[h] \in {"release", "done", "dead"} /\ ~ Owing(h) =>
       pc'[h] \in {"release", "done", "dead"} /\ ~ Owing(h)'
  /\ HandlerSound(h)'
  /\ Entitled(h)' => Entitled(h)
  /\ reply'[h].status # "completed"
  /\ response'[h] = "result" =>
       \/ response[h] = "result" /\ shown'[h] = shown[h]
       \/ h \in forgiven
       \/ pc[h] # "idle" /\ Stored(IdOf(h), shown'[h])

\* A handler moves, and neither the tables nor the wire do.
LEMMA LocalStepKeeps ==
  ASSUME CoachInv, NEW h \in Handlers, LocalStep(h)
  PROVE  CoachInv'
<1>1. /\ UNCHANGED <<rows, attempts, clock, migrated, forgiven>> /\ HandlersOK'
      /\ \A g \in Handlers \ {h} :
           /\ pc'[g] = pc[g] /\ req'[g] = req[g] /\ reply'[g] = reply[g]
           /\ provider'[g] = provider[g] /\ response'[g] = response[g] /\ shown'[g] = shown[g]
      /\ pc'[h] # "idle" /\ (pc[h] = "idle" \/ req'[h] = req[h])
      /\ HandlersOK
  BY DEF LocalStep, Locally, dbVars, CoachInv, CoachTypeOK
<1>2. CoachTypeOK' /\ RowsInv'
  BY <1>1 DEF CoachInv, CoachTypeOK, TablesOK, RowsInv, OneRowPerIdentity, OneLink, Present
<1>3. \A m \in wire : MessageSound(m)'
  <2> SUFFICES ASSUME NEW m \in wire PROVE MessageSound(m)'
    OBVIOUS
  <2>1. MessageSound(m) /\ m.from \in Handlers
    BY <1>1 DEF CoachInv, HandlersInv, HandlersOK, Message
  <2>2. CASE m.from = h
    BY <1>1, <2>1, <2>2 DEF MessageSound, LocalStep
  <2>3. CASE m.from # h
    BY <1>1, <2>1, <2>3 DEF MessageSound, Owing
  <2> QED
    BY <2>2, <2>3
<1>4. HandlersInv'
  <2>1. TokenIsOfRequest'
    BY <1>1 DEF CoachInv, HandlersInv, TokenIsOfRequest
  <2>2. \A m \in wire' : MessageSound(m)'
    BY <1>3 DEF LocalStep
  <2>3. \A g \in Handlers : HandlerSound(g)'
    BY <1>1 DEF LocalStep, CoachInv, HandlersInv, HandlerSound, Owing
  <2> QED
    BY <2>1, <2>2, <2>3 DEF HandlersInv
<1>5. \A g \in Handlers : Entitled(g)' => Entitled(g) /\ req'[g] = req[g]
  <2>1. pc[h] = "idle" => ~ Entitled(h)
    BY DEF CoachInv, HandlersInv, HandlerSound, Entitled
  <2>2. \A g \in Handlers \ {h} : Entitled(g)' => Entitled(g)
    BY <1>1 DEF Entitled, Owing
  <2> QED
    BY <1>1, <2>1, <2>2 DEF LocalStep
<1>6. EntitledIsSealed' /\ OneEntitled'
  BY <1>1, <1>5 DEF CoachInv, PaidInv, EntitledIsSealed, OneEntitled, Sealed, IdOf
<1>7. \A id, a : Stored(id, a)' <=> Stored(id, a)
  BY <1>1 DEF Stored
<1>8. HeardIsStored'
  BY <1>1, <1>7 DEF LocalStep, CoachInv, PaidInv, HeardIsStored, IdOf
<1>9. ShownIsStored'
  <2> SUFFICES ASSUME NEW g \in Handlers \ forgiven, response'[g] = "result"
               PROVE  Stored(IdOf(g)', shown'[g])
    BY <1>1, <1>7 DEF ShownIsStored, Stored
  <2>1. CASE g # h
    BY <1>1, <2>1 DEF CoachInv, PaidInv, ShownIsStored, IdOf
  <2>2. CASE g = h
    <3>1. response[h] = "result" => pc[h] # "idle"
      BY DEF CoachInv, HandlersInv, HandlerSound
    <3> QED
      BY <1>1, <2>2, <3>1 DEF LocalStep, CoachInv, PaidInv, ShownIsStored, IdOf
  <2> QED
    BY <2>1, <2>2
<1> QED
  BY <1>1, <1>2, <1>4, <1>6, <1>8, <1>9 DEF CoachInv, PaidInv

\* The sending of an RPC by a handler that has not answered yet.
LEMMA SendKeeps ==
  ASSUME CoachInv, NEW h \in Handlers, NEW op \in Ops, NEW n \in {1, 2}, NEW r \in Request,
         Send(h, op, n, r), Locally, UNCHANGED <<provider, shown>>,
         UNCHANGED stage \/ stage' = [stage EXCEPT ![h] = "gemini"],
         \/ op # "release" /\ UNCHANGED response
         \/ op = "release" /\ response' = [response EXCEPT ![h] = "failed"],
         pc[h] \notin {"release", "done", "dead"}, pc[h] = "idle" \/ r = req[h],
         op = "reserve" => r.fp \notin Legacy,
         IF op \in {"complete", "unknown"} THEN Entitled(h) ELSE ~ Owing(h)
  PROVE  CoachInv'
<1> DEFINE sent == [from |-> h, op |-> op, n |-> n, key |-> r.key, fp |-> r.fp]
<1>1. HandlersOK /\ response[h] = "none" /\ NoReply.status = "none"
  BY NoReplyIsReply DEF CoachInv, CoachTypeOK, HandlersInv, HandlerSound
<1>2. sent \in Message /\ sent.from = h /\ sent.op = op /\ r = [key |-> sent.key, fp |-> sent.fp]
  BY DEF Message, Request
<1> HIDE DEF sent
<1>3. /\ pc' = [pc EXCEPT ![h] = op] /\ req' = [req EXCEPT ![h] = r]
      /\ try' = [try EXCEPT ![h] = n]
      /\ reply' = [reply EXCEPT ![h] = NoReply] /\ wire' = wire \cup {sent}
  BY DEF Send, sent
<1>4. HandlersOK'
  <2>1. op \in Places
    BY DEF Places
  <2>2. stage' \in [Handlers -> {"openai", "gemini"}] /\ response' \in [Handlers -> Responses]
    BY <1>1 DEF HandlersOK, Responses
  <2>3. wire' \subseteq Message /\ UNCHANGED <<provider, shown, forgiven>>
    BY <1>1, <1>2, <1>3 DEF HandlersOK, Locally
  <2>4. /\ pc' \in [Handlers -> Places] /\ req' \in [Handlers -> Request]
        /\ try' \in [Handlers -> {1, 2}]
        /\ reply' \in [Handlers -> [status : Statuses, author : Authors]]
    BY <1>1, <1>3, <2>1, NoReplyIsReply DEF HandlersOK
  <2> QED
    BY <1>1, <2>2, <2>3, <2>4 DEF HandlersOK, Responses
<1>5. /\ pc'[h] = op /\ req'[h] = r /\ reply'[h] = NoReply
      /\ response'[h] = IF op = "release" THEN "failed" ELSE "none"
      /\ \A g \in Handlers \ {h} :
           /\ pc'[g] = pc[g] /\ req'[g] = req[g] /\ reply'[g] = reply[g]
           /\ provider'[g] = provider[g] /\ response'[g] = response[g] /\ shown'[g] = shown[g]
  BY <1>1, <1>3 DEF HandlersOK
<1>6. HandlerSound(h)'
  BY <1>1, <1>5 DEF HandlerSound, Owing, Ops
<1>7. MessageSound(sent)'
  BY <1>2, <1>5 DEF MessageSound, Owing, Ops
<1>8. Entitled(h)' => Entitled(h)
  BY <1>1, <1>5 DEF Entitled, Owing, Ops
<1> QED
  BY <1>1, <1>2, <1>3, <1>4, <1>5, <1>6, <1>7, <1>8, LocalStepKeeps DEF LocalStep, Ops

\* The answer to the browser.
LEMMA RespondKeeps ==
  ASSUME CoachInv, NEW h \in Handlers, NEW what \in Responses \ {"none"}, NEW author \in Authors,
         Respond(h, what, author), Locally, UNCHANGED <<stage, provider>>,
         pc[h] \notin {"idle", "release", "done", "dead"},
         what \in {"failed", "busy", "conflict"} => ~ Owing(h),
         what = "result" => h \in forgiven \/ Stored(IdOf(h), author)
  PROVE  CoachInv'
<1>1. HandlersOK /\ NoReply.status = "none"
  BY NoReplyIsReply DEF CoachInv, CoachTypeOK
<1>2. /\ pc' = [pc EXCEPT ![h] = "done"] /\ reply' = [reply EXCEPT ![h] = NoReply]
      /\ UNCHANGED <<try, req, wire, forgiven>>
      /\ response' = [response EXCEPT ![h] = what] /\ shown' = [shown EXCEPT ![h] = author]
  BY DEF Respond, Goto, Locally
<1>3. HandlersOK'
  <2>1. "done" \in Places
    BY DEF Places
  <2> QED
    BY <1>1, <1>2, <2>1, NoReplyIsReply DEF HandlersOK, Responses
<1>4. /\ pc'[h] = "done" /\ reply'[h] = NoReply /\ response'[h] = what /\ shown'[h] = author
      /\ \A g \in Handlers \ {h} :
           /\ pc'[g] = pc[g] /\ req'[g] = req[g] /\ reply'[g] = reply[g]
           /\ provider'[g] = provider[g] /\ response'[g] = response[g] /\ shown'[g] = shown[g]
  BY <1>1, <1>2 DEF HandlersOK
<1>5. HandlerSound(h)' /\ (Entitled(h)' => Entitled(h))
  BY <1>1, <1>4 DEF HandlerSound, Entitled, Owing
<1> QED
  BY <1>1, <1>2, <1>3, <1>4, <1>5, LocalStepKeeps DEF LocalStep

\* A handler goes on without sending anything; it calls the provider only when
\* it was entitled to.
LEMMA GotoKeeps ==
  ASSUME CoachInv, NEW h \in Handlers, NEW label \in Places \ (Ops \cup {"idle"}),
         Goto(h, label), Locally, Quietly, UNCHANGED stage, pc[h] # "idle",
         \/ UNCHANGED provider
         \/ label = "calling" /\ provider' = [provider EXCEPT ![h] = "called"] /\ Entitled(h),
         label = "budget" => ~ Owing(h),
         label = "invoke" => Entitled(h) /\ ~ Owing(h), label = "calling" => Entitled(h),
         label \in {"done", "dead"} \/ pc[h] \notin {"release", "done", "dead"}
  PROVE  CoachInv'
<1>1. HandlersOK /\ NoReply.status = "none" /\ HandlerSound(h)
  BY NoReplyIsReply DEF CoachInv, CoachTypeOK, HandlersInv
<1>2. /\ pc' = [pc EXCEPT ![h] = label] /\ reply' = [reply EXCEPT ![h] = NoReply]
      /\ UNCHANGED <<try, req, wire, forgiven, response, shown>>
  BY DEF Goto, Locally, Quietly
<1>3. HandlersOK'
  BY <1>1, <1>2, NoReplyIsReply DEF HandlersOK
<1>4. /\ pc'[h] = label /\ reply'[h] = NoReply
      /\ provider'[h] = IF provider' = provider THEN provider[h] ELSE "called"
      /\ \A g \in Handlers \ {h} :
           /\ pc'[g] = pc[g] /\ req'[g] = req[g] /\ reply'[g] = reply[g]
           /\ provider'[g] = provider[g] /\ response'[g] = response[g] /\ shown'[g] = shown[g]
  BY <1>1, <1>2 DEF HandlersOK
<1>5. label = "calling" \/ (Owing(h)' <=> Owing(h))
  BY <1>4 DEF Owing
<1>6. label \in {"budget", "invoke", "calling", "done", "dead"}
  BY DEF Places
<1>7. HandlerSound(h)'
  BY <1>1, <1>2, <1>4, <1>5, <1>6 DEF HandlerSound
<1>8. Entitled(h)' => Entitled(h)
  BY <1>1, <1>4, <1>5, <1>6 DEF Entitled
<1> QED
  BY <1>1, <1>2, <1>3, <1>4, <1>5, <1>6, <1>7, <1>8, LocalStepKeeps DEF LocalStep

\* What a handler's place says of it.
LEMMA AtPlace ==
  ASSUME CoachInv, NEW h \in Handlers
  PROVE  /\ req[h] \in Request /\ reply[h].status \in Statuses \ {"mismatch"}
         /\ reply[h].author \in Authors /\ provider \in [Handlers -> {"idle", "called", "billed", "refused"}]
         /\ pc[h] \in {"idle", "reserve", "budget", "dispatch", "invoke", "release"} => ~ Owing(h)
         /\ pc[h] \in {"invoke", "calling", "complete", "unknown"} => Entitled(h)
         /\ pc[h] \in {"reserve", "complete", "unknown"} /\ reply[h].status = "completed" =>
              h \in forgiven \/ Stored(IdOf(h), reply[h].author)
<1>1. HandlerSound(h) /\ HandlersOK
  BY DEF CoachInv, CoachTypeOK, HandlersInv
<1>2. /\ req[h] \in Request /\ reply[h] \in [status : Statuses, author : Authors]
      /\ provider \in [Handlers -> {"idle", "called", "billed", "refused"}]
  BY <1>1 DEF HandlersOK
<1> QED
  BY <1>1, <1>2 DEF HandlerSound, Entitled, CoachInv, PaidInv, HeardIsStored

\* The catch block gives back a lease that nobody was charged for.
LEMMA FailKeeps ==
  ASSUME CoachInv, NEW h \in Handlers, ReleaseAndFail(h), Locally, UNCHANGED <<stage, provider>>,
         pc[h] \notin {"idle", "release", "done", "dead"}, ~ Owing(h)
  PROVE  CoachInv'
<1>1. /\ Send(h, "release", 1, req[h]) /\ response' = [response EXCEPT ![h] = "failed"]
      /\ UNCHANGED shown
  BY DEF ReleaseAndFail
<1>2. req[h] \in Request
  BY AtPlace
<1>3. "release" \in Ops /\ "release" \notin {"complete", "unknown", "reserve"}
  BY DEF Ops
<1> QED
  BY <1>1, <1>2, <1>3, SendKeeps

\* A handler turns to Gemini.
LEMMA GeminiKeeps ==
  ASSUME CoachInv, NEW h \in Handlers, TurnToGemini(h), Locally, UNCHANGED provider,
         pc[h] \notin {"idle", "release", "done", "dead"}, ~ Owing(h)
  PROVE  CoachInv'
<1>1. /\ Send(h, "dispatch", 2, req[h]) /\ stage' = [stage EXCEPT ![h] = "gemini"]
      /\ UNCHANGED <<response, shown>>
  BY DEF TurnToGemini, Quietly
<1>2. req[h] \in Request
  BY AtPlace
<1>3. "dispatch" \in Ops /\ "dispatch" \notin {"complete", "unknown", "reserve", "release"}
  BY DEF Ops
<1> QED
  BY <1>1, <1>2, <1>3, SendKeeps

\* An RPC of a handler that has paid, or may have.
LEMMA ClosingKeeps ==
  ASSUME CoachInv, NEW h \in Handlers, NEW op \in {"complete", "unknown"}, NEW n \in {1, 2},
         Send(h, op, n, req[h]), Locally, Quietly, UNCHANGED <<stage, provider>>, Entitled(h),
         pc[h] \notin {"idle", "release", "done", "dead"}
  PROVE  CoachInv'
<1>1. op \in Ops /\ op \notin {"reserve", "release"} /\ req[h] \in Request
  BY AtPlace DEF Ops
<1> QED
  BY <1>1, SendKeeps DEF Quietly

\* A handler asks for the completion again, or reports that nobody knows.
LEMMA AgainKeeps ==
  ASSUME CoachInv, NEW h \in Handlers, CompleteAgain(h), Locally, Quietly,
         UNCHANGED <<stage, provider>>, pc[h] = "complete"
  PROVE  CoachInv'
BY AtPlace, ClosingKeeps DEF CompleteAgain

\* A request arrives.
LEMMA ArriveKeeps ==
  ASSUME Localized, CoachInv, NEW h \in Handlers, Arrive(h)
  PROVE  CoachInv'
<1>1. PICK r \in Requests : Send(h, "reserve", 1, r)
  BY DEF Arrive
<1>2. r \in Request /\ r.fp \notin Legacy
  BY Fingerprinted DEF Localized
<1>3. "reserve" \in Ops /\ "reserve" \notin {"complete", "unknown", "release"}
  BY DEF Ops
<1>4. pc[h] = "idle" /\ ~ Owing(h)
  BY AtPlace DEF Arrive
<1> QED
  BY <1>1, <1>2, <1>3, <1>4, SendKeeps DEF Arrive, Quietly

\* A handler hears of its reservation.
LEMMA HearReserveKeeps ==
  ASSUME CoachInv, NEW h \in Handlers, HearReserve(h)
  PROVE  CoachInv'
<1>1. pc[h] = "reserve" /\ Locally /\ UNCHANGED <<stage, provider>> /\ ~ Owing(h)
  BY AtPlace DEF HearReserve, Answered
<1>2. CASE Goto(h, "budget") /\ Quietly
  <2>1. "budget" \in Places \ (Ops \cup {"idle"})
    BY DEF Places, Ops
  <2> QED
    BY <1>1, <1>2, <2>1, GotoKeeps
<1>3. ASSUME NEW what \in {"failed", "unknown", "busy", "conflict"}, Respond(h, what, Nobody)
      PROVE  CoachInv'
  BY <1>1, <1>3, RespondKeeps, NobodySaysNothing DEF Responses
<1>4. CASE reply[h].status = "completed" /\ Respond(h, "result", reply[h].author)
  BY <1>1, <1>4, AtPlace, RespondKeeps DEF Responses
<1> QED
  BY <1>2, <1>3, <1>4, AtPlace DEF HearReserve, Answered

\* The budget is asked for, and answers.
LEMMA BudgetKeeps == ASSUME CoachInv, NEW h \in Handlers, Budget(h) PROVE CoachInv'
<1>1. pc[h] = "budget" /\ Locally /\ UNCHANGED provider /\ ~ Owing(h) /\ req[h] \in Request
  BY AtPlace DEF Budget
<1>2. CASE Send(h, "dispatch", 1, req[h]) /\ Quietly /\ UNCHANGED stage
  <2>1. "dispatch" \in Ops /\ "dispatch" \notin {"complete", "unknown", "reserve", "release"}
    BY DEF Ops
  <2> QED
    BY <1>1, <1>2, <2>1, SendKeeps DEF Quietly
<1> QED
  BY <1>1, <1>2, GeminiKeeps, FailKeeps DEF Budget

\* A handler hears of its marker.
LEMMA HearDispatchKeeps == ASSUME CoachInv, NEW h \in Handlers, HearDispatch(h) PROVE CoachInv'
<1>1. pc[h] = "dispatch" /\ Locally /\ UNCHANGED <<stage, provider>> /\ ~ Owing(h)
  BY AtPlace DEF HearDispatch, Answered
<1>2. CASE Answered(h, "dispatch", {"dispatched"}) /\ Goto(h, "invoke") /\ Quietly
  <2>1. "invoke" \in Places \ (Ops \cup {"idle"}) /\ Entitled(h)
    BY <1>2 DEF Places, Ops, Entitled, Answered
  <2> QED
    BY <1>1, <1>2, <2>1, GotoKeeps
<1> QED
  BY <1>1, <1>2, FailKeeps DEF HearDispatch

\* The provider is called, and answers or does not.
LEMMA CallKeeps ==
  ASSUME CoachInv, NEW h \in Handlers,
         Invoke(h) \/ NotStarted(h) \/ Evaluated(h) \/ Refused(h) \/ Unclear(h)
  PROVE  CoachInv'
<1>1. CASE Invoke(h)
  <2>1. "calling" \in Places \ (Ops \cup {"idle"})
    BY DEF Places, Ops
  <2> QED
    BY <1>1, <2>1, AtPlace, GotoKeeps DEF Invoke
<1>2. CASE NotStarted(h)
  BY <1>2, AtPlace, FailKeeps DEF NotStarted
<1>3. CASE Evaluated(h)
  BY <1>3, AtPlace, ClosingKeeps DEF Evaluated
<1>4. CASE Refused(h)
  BY <1>4, GeminiKeeps, FailKeeps DEF Refused, Owing
<1>5. CASE Unclear(h)
  BY <1>5, AtPlace, ClosingKeeps DEF Unclear
<1> QED
  BY <1>1, <1>2, <1>3, <1>4, <1>5

\* A handler hears of its completion, unknown outcome or release.
LEMMA HearClosingKeeps ==
  ASSUME CoachInv, NEW h \in Handlers, HearComplete(h) \/ HearUnknown(h) \/ HearRelease(h)
  PROVE  CoachInv'
<1>1. Locally /\ UNCHANGED <<stage, provider>>
  BY DEF HearComplete, HearUnknown, HearRelease
<1>2. ASSUME pc[h] \in {"complete", "unknown"}, reply[h].status = "completed",
             Respond(h, "result", reply[h].author)
      PROVE  CoachInv'
  BY <1>1, <1>2, AtPlace, RespondKeeps DEF Responses
<1>3. ASSUME pc[h] = "unknown", NEW what \in {"unknown", "locked"}, Respond(h, what, Nobody)
      PROVE  CoachInv'
  BY <1>1, <1>3, NobodySaysNothing, RespondKeeps DEF Responses
<1>4. CASE HearComplete(h)
  BY <1>1, <1>2, <1>4, AgainKeeps DEF HearComplete, Answered
<1>5. CASE HearUnknown(h)
  BY <1>2, <1>3, <1>5 DEF HearUnknown, Answered
<1>6. CASE HearRelease(h)
  <2>1. "done" \in Places \ (Ops \cup {"idle"})
    BY DEF Places, Ops
  <2> QED
    BY <1>6, <2>1, GotoKeeps DEF HearRelease
<1> QED
  BY <1>4, <1>5, <1>6

\* A call fails, or the handler dies.
LEMMA FailuresKeep ==
  ASSUME CoachInv, NEW h \in Handlers, RpcFails(h) \/ Crash(h)
  PROVE  CoachInv'
<1>1. Locally /\ UNCHANGED <<stage, provider>>
  BY DEF RpcFails, Crash
<1>2. \A label \in {"done", "dead"} : label \in Places \ (Ops \cup {"idle"})
  BY DEF Places, Ops
<1>3. CASE pc[h] \in {"reserve", "unknown"} /\ \E what \in {"failed", "locked"} :
        Respond(h, what, Nobody) /\ (what = "failed" => pc[h] = "reserve")
  BY <1>1, <1>3, AtPlace, NobodySaysNothing, RespondKeeps DEF Responses
<1>4. CASE pc[h] = "release" /\ Goto(h, "done") /\ Quietly
  BY <1>1, <1>2, <1>4, GotoKeeps
<1>5. CASE Crash(h)
  BY <1>1, <1>2, <1>5, GotoKeeps DEF Crash
<1> QED
  BY <1>1, <1>3, <1>4, <1>5, AtPlace, FailKeeps, AgainKeeps DEF RpcFails

\* Every step of a handler keeps the invariant.
LEMMA HandlerKeeps ==
  ASSUME Localized, CoachInv, NEW h \in Handlers, Handler(h) \/ Crash(h) \/ Decides(h)
  PROVE  CoachInv'
BY ArriveKeeps, HearReserveKeeps, BudgetKeeps, HearDispatchKeeps, CallKeeps, HearClosingKeeps,
   FailuresKeep, DecidesKeeps DEF Handler

-----------------------------------------------------------------------------
(* The inductive invariant.                                                *)

\* Requests r and no handler, or a lone one in its provider call, at the start.
Begins(r, some) ==
  /\ \A g, h \in some : g = h
  /\ req = [h \in Handlers |-> r]
  /\ pc = [h \in Handlers |-> IF h \in some THEN "calling" ELSE "idle"]
  /\ provider = [h \in Handlers |-> IF h \in some THEN "called" ELSE "idle"]
  /\ rows \in [Keys -> Row]
  /\ \A k \in Keys :
       \/ rows[k].status = "none"
       \/ k = r.key /\ rows[k].status = "running" /\ rows[k].fp = r.fp /\ rows[k].token \in some
  /\ \A h \in some :
       /\ rows[r.key].status = "running" /\ rows[r.key].token = h
       /\ rows[r.key].fp = r.fp /\ rows[r.key].dispatched

\* Nothing is asked yet.
LEMMA CoachInit == ASSUME Localized, Init PROVE CoachInv
<1> DEFINE default == CHOOSE r \in Requests : TRUE
<1>1. default \in Request
  BY Fingerprinted, CoachAssumption DEF Request
<1> HIDE DEF default
<1>2. PICK r \in Request, some \in SUBSET Handlers : Begins(r, some)
  <2>1. CASE Fresh
    <3>1. /\ req = [h \in Handlers |-> default]
          /\ pc = [h \in Handlers |-> IF h \in {} THEN "calling" ELSE "idle"]
          /\ provider = [h \in Handlers |-> IF h \in {} THEN "called" ELSE "idle"]
          /\ rows \in [Keys -> Row] /\ \A k \in Keys : rows[k].status = "none"
      BY <2>1, NoRowIsRow DEF Fresh, default
    <3>2. Begins(default, {})
      BY <3>1 DEF Begins
    <3> QED
      BY <1>1, <3>2
  <2>2. CASE ~ Fresh
    <3>1. PICK h \in Handlers, q \in Requests : InFlight(h, LegacyPair[q])
      BY <2>2 DEF Init
    <3> DEFINE r == LegacyPair[q]
               row == [Leased(h, r.fp, 0) EXCEPT !.dispatched = TRUE]
    <3>2. r \in Request /\ r.key \in Keys /\ r.fp \in Fingerprints /\ h \in Authors
      BY CoachAssumption DEF Request, Authors
    <3> HIDE DEF r
    <3>3. Leased(h, r.fp, 0) \in Row /\ Leased(h, r.fp, 0).status = "running"
          /\ Leased(h, r.fp, 0).fp = r.fp /\ Leased(h, r.fp, 0).token = h
      BY <3>2, LeasedIsRow
    <3>4. row \in Row /\ row.status = "running" /\ row.fp = r.fp /\ row.token = h /\ row.dispatched
      BY <3>3 DEF Row
    <3> HIDE DEF row
    <3>5. /\ rows = [k \in Keys |-> IF k = r.key THEN row ELSE NoRow]
          /\ req = [i \in Handlers |-> r]
          /\ pc = [i \in Handlers |-> IF i \in {h} THEN "calling" ELSE "idle"]
          /\ provider = [i \in Handlers |-> IF i \in {h} THEN "called" ELSE "idle"]
      BY <3>1 DEF InFlight, row, r
    <3>6. rows \in [Keys -> Row]
      BY <3>2, <3>4, <3>5, NoRowIsRow
    <3>7. Begins(r, {h})
      BY <3>2, <3>4, <3>5, <3>6, NoRowIsRow DEF Begins
    <3> QED
      BY <3>2, <3>7
  <2> QED
    BY <2>1, <2>2
<1>3. /\ migrated = TRUE /\ attempts = [s \in Slots |-> NoAttempt] /\ clock = 0
      /\ stage = [h \in Handlers |-> "openai"] /\ try = [h \in Handlers |-> 1] /\ wire = {}
      /\ reply = [h \in Handlers |-> NoReply] /\ response = [h \in Handlers |-> "none"]
      /\ shown = [h \in Handlers |-> Nobody] /\ forgiven = {}
  BY DEF Init, Localized
<1>4. CoachTypeOK
  <2>1. NoAttempt \in Attempt
    BY NobodySaysNothing DEF NoAttempt, Attempt
  <2>2. TablesOK
    BY <1>2, <1>3, <2>1 DEF Begins, TablesOK
  <2>3. HandlersOK
    BY <1>2, <1>3, NoReplyIsReply, NobodySaysNothing DEF Begins, HandlersOK, Places
  <2> QED
    BY <2>2, <2>3 DEF CoachTypeOK
<1>5. RowsInv
  BY <1>2 DEF Begins, RowsInv, OneRowPerIdentity, OneLink, Present
<1>6. HandlersInv
  <2>1. TokenIsOfRequest
    BY <1>2 DEF Begins, TokenIsOfRequest, Request
  <2>2. \A h \in Handlers : HandlerSound(h)
    BY <1>2, <1>3, NoReplyIsReply DEF Begins, HandlerSound, Owing
  <2> QED
    BY <1>3, <2>1, <2>2 DEF HandlersInv
<1>7. PaidInv
  <2>1. \A h \in Handlers : Entitled(h) => h \in some
    BY <1>2, <1>3, NoReplyIsReply DEF Begins, Entitled, Owing
  <2>2. EntitledIsSealed /\ OneEntitled
    BY <1>2, <2>1 DEF Begins, EntitledIsSealed, OneEntitled, Sealed
  <2>3. HeardIsStored /\ ShownIsStored
    BY <1>3, NoReplyIsReply DEF HeardIsStored, ShownIsStored
  <2> QED
    BY <2>2, <2>3 DEF PaidInv
<1> QED
  BY <1>3, <1>4, <1>5, <1>6, <1>7 DEF CoachInv

\* Every step keeps it.
LEMMA CoachNext == ASSUME Localized, CoachInv, [Next]_vars PROVE CoachInv'
<1>1. CASE \E h \in Handlers : Handler(h) \/ Crash(h) \/ Decides(h)
  BY <1>1, HandlerKeeps
<1>2. CASE \E m \in wire : Lose(m)
  BY <1>2, OutsideKeeps DEF Lose, dbVars, CoachInv, CoachTypeOK, TablesOK
<1>3. CASE \E now \in Starts : AskAgain(now) \/ \E m \in wire : Serve(m, now)
  <2>1. Starts \subseteq Nat /\ wire \subseteq Asked
    BY StartsAreTimes, WireIsAsked DEF CoachInv
  <2> QED
    BY <1>3, <2>1, AskAgainKeeps, ServeKeeps, TransactionKeeps
<1>4. CASE Tick
  BY <1>4, OutsideKeeps DEF Tick, handlerVars, CoachInv, CoachTypeOK, TablesOK
<1>5. CASE UNCHANGED vars
  BY <1>5, OutsideKeeps DEF vars, dbVars, handlerVars, CoachInv, CoachTypeOK, TablesOK
<1>6. CASE Migrate
  BY <1>6 DEF Migrate, CoachInv
<1> QED
  BY <1>1, <1>2, <1>3, <1>4, <1>5, <1>6, SavesKeeps, DeleteKeeps DEF Next

-----------------------------------------------------------------------------
(* Live leases.                                                            *)

\* A cached attempt completes the row it changes.
LEMMA PromotionCompletes ==
  ASSUME CoachInv, NEW m \in Asked, ReservePromotes(m), NEW k \in Keys, rows'[k] # rows[k]
  PROVE  rows'[k].status = "completed"
<1>1. PICK s \in Candidate(m), j \in IF Found(m) = {} THEN {m.key} ELSE Found(m) :
        rows' = [rows EXCEPT ![j] = Completed([@ EXCEPT !.fp = m.fp], s, attempts[s].author)]
  <2>1. ~ UNCHANGED rows
    OBVIOUS
  <2> QED
    BY <2>1 DEF ReservePromotes, Only
<1> DEFINE moved == [rows[j] EXCEPT !.fp = m.fp]
<1>2. s \in Slots /\ j \in Keys /\ m.fp \in Fingerprints
  BY DEF Candidate, AttemptOf, Found, RowOf, Slots, Asked
<1>3. moved \in Row /\ attempts[s].author \in Authors
  BY <1>2, Tables DEF Row, Attempt
<1>4. rows' = [rows EXCEPT ![j] = Completed(moved, s, attempts[s].author)]
  BY <1>1
<1> HIDE DEF moved
<1>5. Completed(moved, s, attempts[s].author).status = "completed"
  BY <1>2, <1>3, EndedIsRow DEF Completed, Terminal
<1> QED
  BY <1>2, <1>4, <1>5, Tables

\* What a reservation takes from a running row has expired.
LEMMA ReserveTakesExpired ==
  ASSUME CoachInv, NEW m \in Asked, NEW now \in Starts, NEW k \in Keys,
         rows[k].status = "running", rows[k].expires > clock, rows'[k] # rows[k]
  PROVE  ~ ReserveTerminalizes(m, now) /\ ~ ReserveLeases(m, now)
<1>1. rows[k].expires \in Nat /\ now \in Nat /\ clock \in Nat /\ now <= clock
  BY Tables, StartsAreTimes DEF CoachInv, Row
<1>2. Present(m.key) => m.key \in Found(m)
  BY DEF Found, RowOf
<1>3. ~ ReserveTerminalizes(m, now)
  BY <1>1, Tables DEF ReserveTerminalizes
<1>4. ~ ReserveLeases(m, now)
  <2> SUFFICES ASSUME ReserveLeases(m, now) PROVE FALSE
    OBVIOUS
  <2>1. k = m.key \/ k \in Found(m)
    BY DEF ReserveLeases
  <2>2. k \in Found(m)
    BY <1>2, <2>1 DEF Present
  <2> QED
    BY <1>1, <2>2 DEF ReserveLeases
<1> QED
  BY <1>3, <1>4

\* A lease holder's RPC changes that holder's row, and is then gone.
LEMMA HolderIsSender ==
  ASSUME CoachInv, NEW m \in wire, NEW now, NEW k \in Keys, rows[k].status = "running",
         rows'[k] # rows[k],
         MarkDispatched(m, now) \/ Complete(m, now) \/ MarkUnknown(m) \/ Release(m)
  PROVE  m \in wire \ wire' /\ m.from = rows[k].token
<1>1. m.key \in Keys
  BY WireIsAsked DEF Asked, CoachInv
<1>2. ~ UNCHANGED rows /\ \A status, author : ~ Only(m, status, author)
  BY DEF Only
<1>3. /\ Holds(m) /\ \A j \in Keys \ {m.key} : rows'[j] = rows[j]
      /\ \E status, author : Answers(m, status, author)
  BY <1>1, <1>2, Tables DEF MarkDispatched, Complete, MarkUnknown, Release, AnswersTerminal
<1> QED
  BY <1>3 DEF Holds, Answers

\* No step takes a live lease away.
LEMMA LeaseNext == ASSUME CoachInv, Next PROVE KeepsLiveLease
<1> SUFFICES ASSUME NEW k \in Keys, rows[k].status = "running", rows[k].expires > clock,
                    rows'[k] # rows[k]
             PROVE  rows'[k].status = "completed" \/ \E m \in wire \ wire' : m.from = rows[k].token
  BY DEF KeepsLiveLease
<1>1. ~ UNCHANGED rows
  OBVIOUS
<1>2. ASSUME NEW now \in Starts, AskAgain(now) PROVE rows'[k].status = "completed"
  <2>1. PICK j \in Keys :
          LET m == [from |-> Nobody, op |-> "reserve", n |-> 1, key |-> j, fp |-> rows[j].fp]
          IN  ReservePromotes(m) \/ ReserveTerminalizes(m, now)
    BY <1>2 DEF AskAgain
  <2> DEFINE m == [from |-> Nobody, op |-> "reserve", n |-> 1, key |-> j, fp |-> rows[j].fp]
  <2>2. m \in Asked
    BY Tables DEF Asked, Authors, Ops, Row
  <2>3. ReservePromotes(m) \/ ReserveTerminalizes(m, now)
    BY <2>1
  <2> HIDE DEF m
  <2> QED
    BY <2>2, <2>3, PromotionCompletes, ReserveTakesExpired
<1>3. ASSUME NEW now \in Starts, NEW m \in wire, Serve(m, now)
      PROVE  rows'[k].status = "completed" \/ \E w \in wire \ wire' : w.from = rows[k].token
  <2>1. m \in Asked
    BY WireIsAsked DEF CoachInv
  <2>2. CASE Reserve(m, now)
    BY <1>1, <2>1, <2>2, PromotionCompletes, ReserveTakesExpired
       DEF Reserve, ReserveMismatch, ReserveConflict, ReserveCached, AnswersTerminal, ReserveBusy, Only
  <2> QED
    BY <1>3, <2>2, HolderIsSender DEF Serve
<1>4. CASE DeleteAttempt
  BY <1>4, Tables DEF DeleteAttempt
<1>5. DeleteAttempt \/ \E now \in Starts : AskAgain(now) \/ \E m \in wire : Serve(m, now)
  BY <1>1 DEF Next, Handler, Arrive, HearReserve, Budget, HearDispatch, Invoke, NotStarted,
     Evaluated, Refused, Unclear, HearComplete, HearUnknown, HearRelease, RpcFails, Crash,
     Decides, Lose, Tick, Migrate, OtherInstanceSaves, Locally, dbVars
<1> QED
  BY <1>2, <1>3, <1>4, <1>5

-----------------------------------------------------------------------------
(* The refinement.                                                         *)

PromiseStep == UNCHANGED Promise!paidVars \/ Promise!Next

VerdictOf(row) ==
  IF row.status = "completed" THEN "stored"
  ELSE IF row.status = "outcome_unknown" THEN "unknown"
  ELSE IF row.status = "running" /\ row.dispatched THEN "sealed" ELSE "open"

\* The verdict on an identity is that of its row.
LEMMA VerdictIsOfRow ==
  ASSUME OneRowPerIdentity, NEW id
  PROVE  /\ \A k \in Keys : Present(k) /\ Identity[rows[k].fp] = id => Verdict(id) = VerdictOf(rows[k])
         /\ (\A k \in Keys : Present(k) => Identity[rows[k].fp] # id) => Verdict(id) = "open"
BY DEF OneRowPerIdentity, Verdict, RowsOf, VerdictOf

\* The verdict after a step is that of the row, if there is one.
LEMMA VerdictIsOfRowNext ==
  ASSUME OneRowPerIdentity', NEW id
  PROVE  /\ \A k \in Keys : Present(k)' /\ Identity[rows'[k].fp] = id =>
              Verdict(id)' = VerdictOf(rows'[k])
         /\ (\A k \in Keys : Present(k)' => Identity[rows'[k].fp] # id) => Verdict(id)' = "open"
BY DEF OneRowPerIdentity, Present, Verdict, RowsOf, VerdictOf

\* Where only one identity's rows change, the others keep their verdicts.
LEMMA OtherVerdictsStay ==
  ASSUME NEW id, ChangesOnly(id)
  PROVE  \A other \in Identities \ {id} : Verdict(other)' = Verdict(other)
<1> SUFFICES ASSUME NEW other \in Identities \ {id} PROVE Verdict(other)' = Verdict(other)
  OBVIOUS
<1>1. RowsOf(other)' = RowsOf(other) /\ \A k \in RowsOf(other) : rows'[k] = rows[k]
  BY DEF ChangesOnly, RowsOf, Present
<1> QED
  BY <1>1 DEF Verdict

\* A buyer's identity has the row that keeps others out.
LEMMA BuyersAreSealed ==
  ASSUME CoachInv, NEW id, NEW h \in Buyers(id)
  PROVE  /\ Sealed(h) /\ Owing(h) /\ IdOf(h) = id /\ h \in Handlers \ forgiven
         /\ req[h].key \in Keys /\ Present(req[h].key) /\ Identity[rows[req[h].key].fp] = id
         /\ Buyers(id) = {h}
<1>1. h \in Handlers \ forgiven /\ Owing(h) /\ IdOf(h) = id
  BY DEF Buyers, Owing
<1>2. Sealed(h)
  BY <1>1 DEF CoachInv, PaidInv, EntitledIsSealed, Entitled
<1>3. req[h].key \in Keys
  BY <1>1 DEF CoachInv, CoachTypeOK, HandlersOK, Request
<1>4. \A g \in Buyers(id) : g = h
  BY <1>1 DEF CoachInv, PaidInv, OneEntitled, Entitled, Buyers, Owing
<1> QED
  BY <1>1, <1>2, <1>3, <1>4 DEF Sealed, Present, Terminal, IdOf

\* The moves of a verdict while the buyers stay.
LEMMA VerdictMoves ==
  ASSUME NEW id \in Identities, ChangesOnly(id), \A i \in Identities : Buyers(i)' = Buyers(i),
         \/ Verdict(id)' = Verdict(id)
         \/ Verdict(id) = "open" /\ Verdict(id)' = "sealed"
         \/ Verdict(id) = "sealed" /\ Verdict(id)' = "open" /\ Buyers(id) = {}
         \/ Verdict(id) \in {"open", "sealed"} /\ Verdict(id)' = "stored"
         \/ Verdict(id) = "sealed" /\ Verdict(id)' = "unknown"
  PROVE  PromiseStep
<1> DEFINE verdict == [i \in Identities |-> Verdict(i)]
           bought  == [i \in Identities |-> Buyers(i)]
<1>1. bought' = bought
  OBVIOUS
<1>2. verdict' = [verdict EXCEPT ![id] = Verdict(id)']
  BY OtherVerdictsStay
<1>3. CASE Verdict(id)' = Verdict(id)
  <2>1. verdict' = verdict
    BY <1>3, OtherVerdictsStay
  <2> QED
    BY <1>1, <2>1 DEF PromiseStep, Promise!paidVars
<1>4. verdict[id] = Verdict(id) /\ bought[id] = Buyers(id)
  OBVIOUS
<1>5. CASE Verdict(id)' # Verdict(id)
  <2>1. CASE Verdict(id)' # "unknown"
    <3>1. Promise!Seal(id) \/ Promise!Unseal(id) \/ Promise!Store(id)
      BY <1>1, <1>2, <1>4, <1>5, <2>1
         DEF Promise!Seal, Promise!Unseal, Promise!Store, Promise!Become
    <3> QED
      BY <3>1 DEF PromiseStep, Promise!Next
  <2>2. CASE Verdict(id) = "sealed" /\ Verdict(id)' = "unknown"
    <3>1. verdict' = [i \in Identities |-> IF i \in {id} THEN "unknown" ELSE verdict[i]]
      BY <2>2, OtherVerdictsStay
    <3>2. Promise!GiveUp({id})
      BY <1>1, <1>4, <2>2, <3>1 DEF Promise!GiveUp
    <3> QED
      BY <3>2 DEF PromiseStep, Promise!Next
  <2> QED
    BY <1>5, <2>1, <2>2
<1> QED
  BY <1>3, <1>5

\* A transaction moves at most one verdict, and as PaidOnce allows.
LEMMA TransactionMoves ==
  ASSUME CoachInv, NEW m \in Asked, m \in wire \/ m.from = Nobody, Transaction(m)
  PROVE  PromiseStep
<1>1. /\ RowsKeep(m) /\ UNCHANGED <<req, provider, forgiven>>
      /\ OneRowPerIdentity /\ OneRowPerIdentity' /\ rows \in [Keys -> Row] /\ rows' \in [Keys -> Row]
  BY Tables DEF Transaction, Answers, RowsKeep, RowsInv
<1>2. PICK id \in Identities : ChangesOnly(id)
  BY <1>1 DEF RowsKeep
<1>3. \A i \in Identities : Buyers(i)' = Buyers(i)
  BY <1>1 DEF Buyers, IdOf
<1>4. CASE \A k \in Keys : Present(k) => Identity[rows[k].fp] # id
  <2>1. Verdict(id) = "open"
    BY <1>1, <1>4, VerdictIsOfRow
  <2>2. Verdict(id)' # "unknown"
    <3> SUFFICES ASSUME Verdict(id)' = "unknown" PROVE FALSE
      OBVIOUS
    <3>1. PICK k \in Keys : /\ Present(k)' /\ Identity[rows'[k].fp] = id
                            /\ rows'[k].status = "outcome_unknown"
      BY <1>1, VerdictIsOfRowNext DEF VerdictOf
    <3> QED
      BY <1>1, <1>4, <3>1 DEF RowsKeep, Present
  <2>3. Verdict(id)' \in {"open", "sealed", "stored", "unknown"}
    BY DEF Verdict
  <2> QED
    BY <1>2, <1>3, <2>1, <2>2, <2>3, VerdictMoves
<1>5. ASSUME NEW k \in Keys, Present(k), Identity[rows[k].fp] = id
      PROVE  PromiseStep
  <2>1. Verdict(id) = VerdictOf(rows[k]) /\ rows[k].status \in {"running"} \cup Terminal
    BY <1>1, <1>5, VerdictIsOfRow DEF Present, Row, Terminal
  <2>2. rows'[k].fp = rows[k].fp /\ rows'[k].status # "none" => Verdict(id)' = VerdictOf(rows'[k])
    BY <1>1, <1>5, VerdictIsOfRowNext DEF Present
  <2>3. Verdict(id)' \in {"open", "sealed", "stored", "unknown"}
    BY DEF Verdict
  <2>4. Verdict(id)' = "unknown" => \E j \in Keys :
          /\ rows'[j].status = "outcome_unknown" /\ Identity[rows'[j].fp] = id
    BY <1>1, VerdictIsOfRowNext DEF VerdictOf
  <2>5. \A j \in Keys : Present(j) /\ Identity[rows[j].fp] = id => j = k
    BY <1>1, <1>5 DEF OneRowPerIdentity
  <2>6. CASE rows[k].status \in Terminal
    <3>1. rows'[k] = rows[k]
      BY <1>1, <2>6 DEF RowsKeep
    <3>2. Verdict(id)' = Verdict(id)
      BY <2>1, <2>2, <2>6, <3>1 DEF Terminal
    <3> QED
      BY <1>2, <1>3, <3>2, VerdictMoves
  <2>7. CASE rows[k].status = "running" /\ ~ rows[k].dispatched
    <3>1. Verdict(id) = "open"
      BY <2>1, <2>7 DEF VerdictOf
    <3>2. Verdict(id)' # "unknown"
      BY <1>1, <2>4, <2>5, <2>7 DEF RowsKeep, Present
    <3> QED
      BY <1>2, <1>3, <2>3, <3>1, <3>2, VerdictMoves
  <2>8. CASE rows[k].status = "running" /\ rows[k].dispatched
    <3>1. Verdict(id) = "sealed"
      BY <2>1, <2>8 DEF VerdictOf
    <3>2. CASE m \in wire /\ m.op = "release" /\ m.from = rows[k].token
      \* Its holder owes nothing, and nobody else may.
      <4>1. Buyers(id) = {}
        <5> SUFFICES ASSUME NEW h \in Buyers(id) PROVE FALSE
          OBVIOUS
        <5>1. Sealed(h) /\ Owing(h) /\ req[h].key = k
          BY <2>5, BuyersAreSealed
        <5>2. rows[k].token = h
          BY <2>8, <5>1 DEF Sealed, Terminal
        <5>3. MessageSound(m) /\ m.from = h
          BY <3>2, <5>2 DEF CoachInv, HandlersInv
        <5> QED
          BY <3>2, <5>1, <5>3 DEF MessageSound
      <4> QED
        BY <1>2, <1>3, <2>3, <3>1, <4>1, VerdictMoves
    <3>3. CASE ~ (m \in wire /\ m.op = "release" /\ m.from = rows[k].token)
      <4>1. /\ rows'[k].fp = rows[k].fp
            /\ rows'[k].status \in Terminal \/ (rows'[k].status = "running" /\ rows'[k].dispatched)
        BY <1>1, <2>8, <3>3 DEF RowsKeep
      <4>2. Verdict(id)' \in {"sealed", "stored", "unknown"}
        BY <2>2, <4>1 DEF VerdictOf, Terminal
      <4> QED
        BY <1>2, <1>3, <3>1, <4>2, VerdictMoves
    <3> QED
      BY <3>2, <3>3
  <2> QED
    BY <2>1, <2>6, <2>7, <2>8
<1> QED
  BY <1>4, <1>5

\* A step that changes neither rows, requests, provider calls nor forgiveness
\* changes nothing of the promise.
LEMMA NothingPromised ==
  ASSUME UNCHANGED <<rows, provider, forgiven>>, \A h \in Handlers : Owing(h) => req'[h] = req[h]
  PROVE  PromiseStep
<1>1. \A id \in Identities : Verdict(id)' = Verdict(id)
  BY DEF Verdict, RowsOf, Present
<1>2. \A id \in Identities : Buyers(id)' = Buyers(id)
  BY DEF Buyers, IdOf, Owing
<1> QED
  BY <1>1, <1>2 DEF PromiseStep, Promise!paidVars

\* A handler calls the provider behind its own seal, as the only one.
LEMMA InvokeBuys == ASSUME CoachInv, NEW h \in Handlers, Invoke(h) PROVE PromiseStep
<1> DEFINE verdict == [i \in Identities |-> Verdict(i)]
           bought  == [i \in Identities |-> Buyers(i)]
<1>1. /\ UNCHANGED <<rows, req, forgiven>> /\ provider' = [provider EXCEPT ![h] = "called"]
      /\ pc[h] = "invoke" /\ ~ Owing(h) /\ Entitled(h)
      /\ provider \in [Handlers -> {"idle", "called", "billed", "refused"}]
      /\ req[h] \in Request
  BY AtPlace DEF Invoke, Goto, Locally, dbVars
<1>2. PICK id \in Identities : id = IdOf(h)
  BY <1>1 DEF IdOf, Request, Identities
<1>3. verdict' = verdict
  BY <1>1 DEF Verdict, RowsOf, Present
<1>4. CASE h \in forgiven
  <2>1. \A i \in Identities : Buyers(i)' = Buyers(i)
    BY <1>1, <1>4 DEF Buyers, IdOf
  <2> QED
    BY <1>3, <2>1 DEF PromiseStep, Promise!paidVars
<1>5. CASE h \notin forgiven
  <2>1. Buyers(id) = {}
    BY <1>1, <1>2, <1>5 DEF Buyers, CoachInv, PaidInv, OneEntitled, Entitled, Owing
  <2>2. Buyers(id)' = {h} /\ \A i \in Identities \ {id} : Buyers(i)' = Buyers(i)
    BY <1>1, <1>2, <1>5, <2>1 DEF Buyers, IdOf
  <2>3. bought' = [bought EXCEPT ![id] = {h}] /\ bought[id] = {}
    BY <1>2, <2>1, <2>2
  <2>4. verdict[id] # "open"
    <3>1. Sealed(h)
      BY <1>1, <1>5 DEF CoachInv, PaidInv, EntitledIsSealed
    <3>2. /\ req[h].key \in Keys /\ Present(req[h].key)
          /\ Identity[rows[req[h].key].fp] = id
          /\ VerdictOf(rows[req[h].key]) # "open"
      BY <1>1, <1>2, <3>1 DEF Sealed, Request, Present, Terminal, VerdictOf, IdOf
    <3> QED
      BY <1>2, <3>2, VerdictIsOfRow, Tables
  <2>5. Promise!Buy(id, h)
    BY <1>3, <2>3, <2>4 DEF Promise!Buy
  <2> QED
    BY <1>2, <2>5 DEF PromiseStep, Promise!Next
<1> QED
  BY <1>4, <1>5

\* A refusal takes the buyer back.
LEMMA DecisionRefunds == ASSUME CoachInv, NEW h \in Handlers, Decides(h) PROVE PromiseStep
<1> DEFINE verdict == [i \in Identities |-> Verdict(i)]
           bought  == [i \in Identities |-> Buyers(i)]
<1>1. /\ UNCHANGED <<rows, req, forgiven>> /\ provider[h] = "called"
      /\ provider \in [Handlers -> {"idle", "called", "billed", "refused"}]
      /\ req[h] \in Request
  BY AtPlace DEF Decides, dbVars
<1>2. PICK what \in {"billed", "refused"} : provider' = [provider EXCEPT ![h] = what]
  BY DEF Decides
<1>3. verdict' = verdict
  BY <1>1 DEF Verdict, RowsOf, Present
<1>4. PICK id \in Identities : id = IdOf(h)
  BY <1>1 DEF IdOf, Request, Identities
<1>5. CASE h \in forgiven \/ what = "billed"
  <2>1. \A i \in Identities : Buyers(i)' = Buyers(i)
    BY <1>1, <1>2, <1>5 DEF Buyers, IdOf
  <2> QED
    BY <1>3, <2>1 DEF PromiseStep, Promise!paidVars
<1>6. CASE h \notin forgiven /\ what = "refused"
  <2>1. h \in Buyers(id)
    BY <1>1, <1>4, <1>6 DEF Buyers
  <2>2. Buyers(id) = {h}
    BY <2>1, BuyersAreSealed
  <2>3. Buyers(id)' = {} /\ \A i \in Identities \ {id} : Buyers(i)' = Buyers(i)
    BY <1>1, <1>2, <1>4, <1>6, <2>2 DEF Buyers, IdOf
  <2>4. bought' = [bought EXCEPT ![id] = {}] /\ bought[id] = {h}
    BY <1>4, <2>2, <2>3
  <2>5. Promise!Refund(id, h)
    BY <1>3, <2>4 DEF Promise!Refund
  <2> QED
    BY <1>4, <2>5 DEF PromiseStep, Promise!Next
<1> QED
  BY <1>5, <1>6

\* A deleted attempt is forgotten, with whoever bought it.
LEMMA DeletionForgets == ASSUME CoachInv, CoachInv', DeleteAttempt PROVE PromiseStep
<1>1. PICK s \in Slots :
        LET gone == {k \in Keys : rows[k].status = "completed" /\ rows[k].attempt = s}
        IN  /\ rows' = [k \in Keys |-> IF k \in gone THEN NoRow ELSE rows[k]]
            /\ forgiven' = forgiven \cup
                 {h \in Handlers :
                    /\ pc[h] \notin {"idle", "reserve"} \/ reply[h] # NoReply
                    /\ \E k \in gone : Identity[req[h].fp] = Identity[rows[k].fp]}
  BY DEF DeleteAttempt
<1> DEFINE gone == {k \in Keys : rows[k].status = "completed" /\ rows[k].attempt = s}
<1>2. UNCHANGED <<req, provider, pc, reply>> /\ \A j, k \in gone : j = k
  BY Tables DEF DeleteAttempt, handlerVars, OneLink
<1>3. CASE gone = {}
  <2>1. rows' = rows /\ forgiven' = forgiven
    BY <1>1, <1>3, Tables
  <2> QED
    BY <1>2, <2>1, NothingPromised
<1>4. ASSUME NEW k \in gone PROVE PromiseStep
  <2> DEFINE verdict == [i \in Identities |-> Verdict(i)]
             bought  == [i \in Identities |-> Buyers(i)]
  <2>1. gone = {k} /\ k \in Keys /\ rows[k].status = "completed"
    BY <1>2, <1>4
  <2>2. PICK id \in Identities : id = Identity[rows[k].fp]
    BY <2>1, Tables DEF Identities, Row
  <2> HIDE DEF gone
  <2>3. /\ rows'[k] = NoRow /\ \A j \in Keys \ {k} : rows'[j] = rows[j]
        /\ forgiven' = forgiven \cup {h \in Handlers :
             (pc[h] \notin {"idle", "reserve"} \/ reply[h] # NoReply) /\ IdOf(h) = id}
    BY <1>1, <2>2, <2>1, Tables DEF gone, IdOf
  <2>4. Verdict(id) = "stored" /\ Verdict(id)' = "open"
    <3>1. \A j \in Keys : Present(j)' => Identity[rows'[j].fp] # id
      BY <2>2, <2>1, <2>3, NoRowIsRow, Tables DEF OneRowPerIdentity, Present
    <3> QED
      BY <2>2, <2>1, <3>1, VerdictIsOfRow, VerdictIsOfRowNext, Tables
         DEF CoachInv, RowsInv, Present, VerdictOf
  <2>5. \A i \in Identities \ {id} : Verdict(i)' = Verdict(i)
    <3>1. ChangesOnly(id)
      BY <2>2, <2>1, <2>3, NoRowIsRow DEF ChangesOnly, Present
    <3> QED
      BY <3>1, OtherVerdictsStay
  <2>6. Buyers(id)' = {}
    <3>1. \A h \in Handlers : Owing(h) => pc[h] \notin {"idle", "reserve"}
      BY DEF CoachInv, HandlersInv, HandlerSound
    <3> QED
      BY <1>2, <2>3, <3>1 DEF Buyers, Owing, IdOf
  <2>7. \A i \in Identities \ {id} : Buyers(i)' = Buyers(i)
    BY <1>2, <2>3 DEF Buyers, IdOf
  <2>8. /\ verdict' = [verdict EXCEPT ![id] = "open"] /\ verdict[id] = "stored"
        /\ bought' = [bought EXCEPT ![id] = {}]
    BY <2>3, <2>4, <2>5, <2>6, <2>7
  <2>9. Promise!Forget(id)
    BY <2>8 DEF Promise!Forget, Promise!Become
  <2> QED
    BY <2>2, <2>9 DEF PromiseStep, Promise!Next
<1> QED
  BY <1>3, <1>4

\* Every step of the reservations is a step of PaidOnce, or none.
LEMMA PromiseNext == ASSUME CoachInv, CoachInv', [Next]_vars PROVE PromiseStep
<1>1. CASE \E h \in Handlers : Invoke(h) \/ Decides(h)
  BY <1>1, InvokeBuys, DecisionRefunds
<1>2. ASSUME NEW h \in Handlers, Handler(h) \/ Crash(h), ~ Invoke(h)
      PROVE  PromiseStep
  <2>1. UNCHANGED <<rows, provider, forgiven>>
    BY <1>2 DEF Handler, Crash, Arrive, HearReserve, Budget, HearDispatch, NotStarted,
       Evaluated, Refused, Unclear, HearComplete, HearUnknown, HearRelease, RpcFails, Locally, dbVars
  <2>2. \A g \in Handlers : Owing(g) => req'[g] = req[g]
    <3>1. CASE Arrive(h)
      <4>1. PICK r : req' = [req EXCEPT ![h] = r]
        BY <3>1 DEF Arrive, Send
      <4>2. ~ Owing(h) /\ req \in [Handlers -> Request]
        BY <3>1, AtPlace DEF Arrive, CoachInv, CoachTypeOK, HandlersOK
      <4> QED
        BY <4>1, <4>2
    <3>2. CASE ~ Arrive(h)
      <4>1. req' = [req EXCEPT ![h] = req[h]] \/ UNCHANGED req
        BY <1>2, <3>2, AtPlace DEF Handler, Crash, HearReserve, Budget, HearDispatch, NotStarted,
           Evaluated, Refused, Unclear, HearComplete, HearUnknown, HearRelease, RpcFails, Send, Goto,
           Respond, ReleaseAndFail, TurnToGemini, CompleteAgain, Answered
      <4>2. req \in [Handlers -> Request]
        BY DEF CoachInv, CoachTypeOK, HandlersOK
      <4> QED
        BY <4>1, <4>2
    <3> QED
      BY <3>1, <3>2
  <2> QED
    BY <2>1, <2>2, NothingPromised
<1>3. CASE \E now \in Starts : AskAgain(now) \/ \E m \in wire : Serve(m, now)
  <2>1. Starts \subseteq Nat /\ wire \subseteq Asked
    BY StartsAreTimes, WireIsAsked DEF CoachInv
  <2> QED
    BY <1>3, <2>1, AskAgainKeeps, ServeKeeps, TransactionMoves
<1>4. CASE DeleteAttempt
  BY <1>4, DeletionForgets
<1>5. CASE \/ \E m \in wire : Lose(m)
           \/ Tick \/ Migrate \/ OtherInstanceSaves \/ UNCHANGED vars
  BY <1>5, NothingPromised
     DEF Lose, Tick, Migrate, OtherInstanceSaves, vars, dbVars, handlerVars
<1> QED
  BY <1>1, <1>2, <1>3, <1>4, <1>5 DEF Next, Handler

\* A handler found in its provider call has its seal.
LEMMA PromiseInit == ASSUME CoachInv PROVE Promise!Init
<1>1. Promise!PaidTypeOK
  BY DEF Promise!PaidTypeOK, Verdict, Buyers
<1>2. ASSUME NEW id \in Identities, NEW h \in Buyers(id)
      PROVE  Verdict(id) # "open" /\ h \in Handlers /\ Buyers(id) = {h}
  <2>1. /\ Sealed(h) /\ req[h].key \in Keys /\ Present(req[h].key) /\ h \in Handlers
        /\ Identity[rows[req[h].key].fp] = id /\ Buyers(id) = {h}
    BY BuyersAreSealed
  <2>2. Verdict(id) = VerdictOf(rows[req[h].key])
    BY <2>1, VerdictIsOfRow, Tables
  <2> QED
    BY <2>1, <2>2 DEF Sealed, VerdictOf, Terminal
<1>3. \A id \in Identities :
        Buyers(id) = {} \/ (Verdict(id) # "open" /\ \E h \in Handlers : Buyers(id) = {h})
  BY <1>2
<1> QED
  BY <1>1, <1>3 DEF Promise!Init

-----------------------------------------------------------------------------
(* The theorems.                                                           *)

\* The inductive invariant holds throughout.
THEOREM CoachSound == ASSUME Localized PROVE Spec => []CoachInv
BY CoachInit, CoachNext, PTL DEF Spec

\* Tables, messages and handlers keep their types.
THEOREM CoachTypes == ASSUME Localized PROVE Spec => []CoachTypeOK
<1>1. CoachInv => CoachTypeOK
  BY DEF CoachInv
<1> QED
  BY <1>1, CoachSound, PTL

\* One evaluation is paid for at most once until its stored attempt is deleted,
\* however handlers, retries, keys, tabs and expiries interleave.
THEOREM EvaluationPaidOnce == ASSUME Localized PROVE Spec => []OnePaidEvaluation
<1>1. CoachInv => OnePaidEvaluation
  <2> SUFFICES ASSUME CoachInv, NEW id \in Identities PROVE Cardinality(Buyers(id)) <= 1
    BY DEF OnePaidEvaluation
  <2>1. \A g, h \in Buyers(id) : g = h
    BY DEF Buyers, CoachInv, PaidInv, OneEntitled, Entitled, Owing
  <2>2. CASE Buyers(id) = {}
    BY <2>2, FS_EmptySet
  <2>3. ASSUME NEW h \in Buyers(id) PROVE Cardinality(Buyers(id)) <= 1
    <3>1. Buyers(id) = {h}
      BY <2>1, <2>3
    <3> QED
      BY <3>1, FS_Singleton
  <2> QED
    BY <2>2, <2>3
<1> QED
  BY <1>1, CoachSound, PTL

\* What a response says stays true: a shown evaluation is the one the history
\* keeps, and an answer that lets the browser ask again was not paid for.
THEOREM AnswersStayTrue == ASSUME Localized PROVE Spec => []KeepsWhatItSaid
<1>1. CoachInv => KeepsWhatItSaid
  <2> SUFFICES ASSUME CoachInv PROVE KeepsWhatItSaid
    OBVIOUS
  <2>1. ShownIsStored /\ HandlersOK /\ \A h \in Handlers : HandlerSound(h)
    BY DEF CoachInv, CoachTypeOK, PaidInv, HandlersInv
  <2> QED
    BY <2>1 DEF ShownIsStored, Stored, HandlersOK, HandlerSound, Owing, KeepsWhatItSaid
<1> QED
  BY <1>1, CoachSound, PTL

\* While a lease is live only its holder's own requests change it, however late
\* another holder's arrive; a cached attempt may complete it.
THEOREM LiveLeaseIsHolders == ASSUME Localized PROVE Spec => LiveLeaseIsKept
<1>1. CoachInv /\ [Next]_vars => [KeepsLiveLease]_vars
  BY LeaseNext
<1> QED
  BY <1>1, CoachSound, PTL DEF Spec, LiveLeaseIsKept

\* The reservations and their handlers implement PaidOnce: an evaluation is
\* bought only behind a seal, the seal comes off only if nothing was bought, and
\* an answer stays until its attempt is deleted.
THEOREM CoachImplementsPaidOnce == ASSUME Localized PROVE Spec => KeepsPromise
<1>1. Init => CoachInv
  BY CoachInit
<1>2. CoachInv => Promise!Init
  BY PromiseInit
<1>3. CoachInv /\ CoachInv' /\ [Next]_vars =>
        [\/ UNCHANGED <<rows, req, provider, forgiven>>
         \/ UNCHANGED Promise!paidVars \/ Promise!Next]_vars
  BY PromiseNext DEF PromiseStep
<1> QED
  BY <1>1, <1>2, <1>3, CoachSound, PTL DEF Spec, KeepsPromise

\* The same in PaidOnce's own words: every behaviour of the reservations and
\* handlers is one of the abstract specification, under the mapping of Promise.
THEOREM CoachImplementsSpec == ASSUME Localized PROVE Spec => Promise!Spec
<1>1. Init => CoachInv
  BY CoachInit
<1>2. CoachInv => Promise!Init
  BY PromiseInit
<1>3. CoachInv /\ CoachInv' /\ [Next]_vars => [Promise!Next]_(Promise!paidVars)
  BY PromiseNext DEF PromiseStep
<1> QED
  BY <1>1, <1>2, <1>3, CoachSound, PTL DEF Spec, Promise!Spec
=============================================================================
