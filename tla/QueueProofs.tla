----------------------------- MODULE QueueProofs -----------------------------
(***************************************************************************)
(* Proofs about the parts of the server that lease a row to one of many    *)
(* handlers: the assistants (AssistantLease), the sample runs              *)
(* (CodeExecution), the mistake cards (MistakeCards) and the jobs that     *)
(* draft questions (GenerationJobs).  They are four of the Parts, and a     *)
(* theorem is about one part's specification and its variables alone.      *)
(***************************************************************************)
EXTENDS Parts, FiniteSetTheorems, TLAPS

------------------------------------------------------------------------------
(***************************************************************************)
(* The assistants' leases: a request is paid once, for any number of       *)
(* handlers, keys and requests.                                            *)
(***************************************************************************)

Past == {"complete", "again", "unknown", "done", "gone"}

Places == {"idle", "reserve", "mark", "markFree", "call", "callFree", "release", "releaseUnsent"}
          \cup Past

Rows == [status : {"none", "running"} \cup Terminal, print : Prints \cup {None},
         token : Handlers \cup {None}, dispatched : BOOLEAN, expired : BOOLEAN,
         answer : Handlers \cup {None}]

States == [pc : Places, key : Keys \cup {None}, print : Prints \cup {None}, alive : BOOLEAN]

\* Rows, handlers and bills keep their types.
LeaseTypeOK ==
  /\ row \in [Keys -> Rows] /\ handler \in [Handlers -> States] /\ billed \subseteq Handlers

\* A call under way, or one that may have been paid.
Sent(h) == handler[h].pc = "call" \/ h \in billed

\* A request has one row.
OneRow(rows) ==
  \A j, k \in Keys :
    rows[j].status # "none" /\ rows[k].status # "none" /\ rows[j].print = rows[k].print => j = k

\* A lease is held by the handler that asked for it.
Held(rows) ==
  \A k \in Keys : rows[k].status = "running" =>
    /\ rows[k].token \in Handlers
    /\ handler[rows[k].token].pc # "idle"
    /\ handler[rows[k].token].key = k
    /\ handler[rows[k].token].print = rows[k].print

\* The row of a sent call is marked, and its handler's while it runs.
Secure(rows, h) ==
  LET k == handler[h].key
  IN /\ k \in Keys /\ rows[k].status # "none" /\ rows[k].print = handler[h].print
     /\ rows[k].dispatched /\ (rows[k].status = "running" => rows[k].token = h)

RowsOK(rows) ==
  /\ rows \in [Keys -> Rows] /\ OneRow(rows) /\ Held(rows)
  /\ \A h \in Handlers : Sent(h) => Secure(rows, h)

\* Past its arrival a handler knows its key and its request; past its call it
\* neither marks nor releases; of one request one call is sent.
HandlersOK ==
  /\ \A h \in Handlers : handler[h].pc # "idle" => handler[h].key \in Keys /\ handler[h].print \in Prints
  /\ \A h \in billed : handler[h].pc \in Past
  /\ \A g, h \in Handlers : Sent(g) /\ Sent(h) /\ handler[g].print = handler[h].print => g = h

LeaseInv == LeaseTypeOK /\ RowsOK(row) /\ HandlersOK

------------------------------------------------------------------------------
(* Where a handler goes.                                                   *)

Moves(h, p) ==
  /\ handler' \in [Handlers -> States]
  /\ \A g \in Handlers \ {h} : handler'[g] = handler[g]
  /\ handler'[h].pc = p /\ handler'[h].key = handler[h].key /\ handler'[h].print = handler[h].print

\* A step of a living handler goes where it says, of a dead one nowhere.
LEMMA GoMoves ==
  ASSUME LeaseTypeOK, NEW h \in Handlers, NEW pc \in Places, Go(h, pc)
  PROVE  Moves(h, pc) \/ Moves(h, "gone")
  BY DEF LeaseTypeOK, Go, Moves, States, Places, Past

\* A response ends the handler.
LEMMA RespondMoves ==
  ASSUME LeaseTypeOK, NEW h \in Handlers, NEW what, Respond(h, what)
  PROVE  Moves(h, "done") \/ Moves(h, "gone")
  BY GoMoves DEF Respond, Places, Past

\* A move that sends nothing new keeps the invariant, over sound rows.
LEMMA MoveKeeps ==
  ASSUME LeaseInv, NEW h \in Handlers, NEW p \in Places, Moves(h, p),
         handler[h].pc # "idle", p # "idle",
         billed' \subseteq billed \cup {h},
         p = "call" \/ h \in billed' => Sent(h),
         h \in billed' => p \in Past,
         RowsOK(row')
  PROVE  LeaseInv'
<1>1. \A g \in Handlers : Sent(g)' => Sent(g)
  BY DEF Sent, Moves
<1>2. \A g \in Handlers : handler'[g].key = handler[g].key /\ handler'[g].print = handler[g].print
  BY DEF Moves
<1>3. LeaseTypeOK'
  BY DEF LeaseInv, LeaseTypeOK, RowsOK, Moves
<1>4. RowsOK(row)'
  <2>1. (row \in [Keys -> Rows])' /\ OneRow(row)'
    BY DEF RowsOK, OneRow
  <2>2. Held(row)'
    BY <1>2 DEF RowsOK, Held, Moves
  <2>3. \A g \in Handlers : Sent(g)' => Secure(row, g)'
    BY <1>1, <1>2 DEF RowsOK, Secure
  <2> QED BY <2>1, <2>2, <2>3 DEF RowsOK
<1>5. HandlersOK'
  <2>1. \A g \in Handlers : handler'[g].pc # "idle" => handler'[g].key \in Keys /\ handler'[g].print \in Prints
    BY <1>2 DEF LeaseInv, HandlersOK, Moves
  <2>2. \A g \in billed' : handler'[g].pc \in Past
    BY DEF LeaseInv, LeaseTypeOK, HandlersOK, Moves
  <2>3. \A f, g \in Handlers : Sent(f)' /\ Sent(g)' /\ handler'[f].print = handler'[g].print => f = g
    BY <1>1, <1>2 DEF LeaseInv, HandlersOK
  <2> QED BY <2>1, <2>2, <2>3 DEF HandlersOK
<1> QED BY <1>3, <1>4, <1>5 DEF LeaseInv

------------------------------------------------------------------------------
(* What the RPCs leave.                                                    *)

\* Ending a row, by its holder or by the next reserve, keeps the rows sound.
LEMMA EndedOK ==
  ASSUME LeaseInv, NEW k \in Keys, row[k].status # "none",
         NEW status \in Terminal, NEW answer \in Handlers \cup {None}
  PROVE  RowsOK(Ended(k, status, answer))
<1> DEFINE R == Ended(k, status, answer)
<1>0. row \in [Keys -> Rows]
  BY DEF LeaseInv, LeaseTypeOK
<1>a. R = [row EXCEPT ![k] = [row[k] EXCEPT !.status = status, !.answer = answer, !.token = None]]
  BY <1>0 DEF Ended
<1>b. /\ [row[k] EXCEPT !.status = status, !.answer = answer, !.token = None] \in Rows
      /\ [row[k] EXCEPT !.status = status, !.answer = answer, !.token = None].status = status
      /\ [row[k] EXCEPT !.status = status, !.answer = answer, !.token = None].print = row[k].print
      /\ [row[k] EXCEPT !.status = status, !.answer = answer, !.token = None].dispatched = row[k].dispatched
  <2>1. row[k] \in Rows
    BY <1>0
  <2> QED BY <2>1 DEF Rows
<1> HIDE DEF R
<1>1. R \in [Keys -> Rows] /\ \A j \in Keys : R[j].print = row[j].print /\ R[j].dispatched = row[j].dispatched
  BY <1>0, <1>a, <1>b
<1>2. R[k].status \in Terminal /\ \A j \in Keys \ {k} : R[j] = row[j]
  BY <1>0, <1>a, <1>b
<1> USE DEF R
<1>3. \A j \in Keys : (R[j].status # "none" <=> row[j].status # "none")
  BY <1>2 DEF Terminal
<1> HIDE DEF R
<1>4. OneRow(R)
  BY <1>1, <1>3 DEF LeaseInv, RowsOK, OneRow
<1>5. Held(R)
  BY <1>2 DEF LeaseInv, RowsOK, Held, Terminal
<1>6. \A h \in Handlers : Sent(h) => Secure(R, h)
  BY <1>1, <1>2, <1>3 DEF LeaseInv, RowsOK, Secure, Terminal
<1>7. RowsOK(R)
  BY <1>1, <1>4, <1>5, <1>6 DEF RowsOK
<1> QED BY <1>7 DEF R

\* A row taken away was of no sent call.
LEMMA FreedOK ==
  ASSUME LeaseInv, NEW k \in Keys, \A h \in Handlers : Sent(h) => handler[h].key # k
  PROVE  RowsOK([row EXCEPT ![k] = NoRow])
<1> DEFINE R == [row EXCEPT ![k] = NoRow]
<1>1. R \in [Keys -> Rows]
  BY DEF NoRow, LeaseInv, LeaseTypeOK, Rows
<1>2. R[k].status = "none" /\ \A j \in Keys \ {k} : R[j] = row[j]
  BY DEF NoRow, LeaseInv, LeaseTypeOK
<1> HIDE DEF R
<1>3. OneRow(R) /\ Held(R)
  BY <1>2 DEF LeaseInv, RowsOK, OneRow, Held
<1>4. \A h \in Handlers : Sent(h) => Secure(R, h)
  BY <1>2 DEF LeaseInv, RowsOK, Secure
<1>5. RowsOK(R)
  BY <1>1, <1>3, <1>4 DEF RowsOK
<1> QED BY <1>5 DEF R

\* A lease given where the request has no row.
LEMMA LeasedOK ==
  ASSUME LeaseInv, NEW h \in Handlers, handler[h].pc # "idle", NEW rows, RowsOK(rows),
         rows[handler[h].key].status = "none",
         \A k \in Keys : rows[k].status # "none" => rows[k].print # handler[h].print
  PROVE  RowsOK(Leased(rows, handler[h].key, handler[h].print, h))
<1> DEFINE key == handler[h].key
           R == Leased(rows, key, handler[h].print, h)
<1>0. key \in Keys /\ handler[h].print \in Prints
  BY DEF LeaseInv, HandlersOK
<1>1. R \in [Keys -> Rows]
  BY <1>0 DEF Leased, NoRow, RowsOK, Rows
<1>2. /\ R[key].status = "running" /\ R[key].print = handler[h].print /\ R[key].token = h
      /\ \A j \in Keys \ {key} : R[j] = rows[j]
  BY <1>0 DEF Leased, NoRow, RowsOK
<1> HIDE DEF R
<1>3. OneRow(R)
  BY <1>2 DEF RowsOK, OneRow
<1>4. Held(R)
  BY <1>0, <1>2 DEF RowsOK, Held
<1>5. \A g \in Handlers : Sent(g) => Secure(R, g)
  BY <1>2 DEF RowsOK, Secure
<1>6. RowsOK(R)
  BY <1>1, <1>3, <1>4, <1>5 DEF RowsOK
<1> QED BY <1>6 DEF R

\* reserve_...: it leases, ends what was sent and has expired, or changes nothing.
LEMMA ReserveOK ==
  ASSUME LeaseInv, NEW h \in Handlers, handler[h].pc # "idle"
  PROVE  RowsOK(Reserve(handler[h].key, handler[h].print, h).row)
<1> DEFINE key == handler[h].key
           print == handler[h].print
           k == CHOOSE x \in Found(key, print) : TRUE
<1>0. key \in Keys /\ print \in Prints /\ RowsOK(row)
  BY DEF LeaseInv, HandlersOK
<1>1. CASE Found(key, print) = {}
  <2>1. row[key].status = "none" /\ \A j \in Keys : row[j].status # "none" => row[j].print # print
    BY <1>1 DEF Found
  <2>2. Reserve(key, print, h).row = Leased(row, key, print, h)
    BY <1>1 DEF Reserve, Reply
  <2> QED BY <1>0, <2>1, <2>2, LeasedOK
<1>2. CASE Found(key, print) # {}
  <2>1. k \in Keys /\ row[k].status # "none"
    BY <1>0, <1>2 DEF Found
  <2>2. k # key => row[key].status = "none"
    BY <1>2 DEF Found
  <2> HIDE DEF k
  <2>3. CASE row[k].print = print /\ row[k].status = "running" /\ Takeover(k)
    <3> DEFINE R == [row EXCEPT ![k] = NoRow]
    <3>1. \A g \in Handlers : Sent(g) => handler[g].key # k
      BY <2>3 DEF LeaseInv, RowsOK, Secure, Takeover
    <3>2. RowsOK(R)
      BY <2>1, <3>1, FreedOK
    <3>3. /\ R[key].status = "none"
          /\ \A j \in Keys : R[j].status # "none" => R[j].print # print
      BY <1>0, <2>1, <2>2, <2>3 DEF NoRow, RowsOK, OneRow
    <3>4. Reserve(key, print, h).row = Leased(R, key, print, h)
      BY <1>2, <2>3 DEF Reserve, Reply, k, Terminal
    <3> HIDE DEF R
    <3> QED BY <3>2, <3>3, <3>4, LeasedOK
  <2>4. CASE row[k].print = print /\ row[k].status = "running" /\ row[k].expired /\ ~Takeover(k)
    <3>1. Reserve(key, print, h).row = Ended(k, "outcome_unknown", None)
      BY <1>2, <2>4 DEF Reserve, Reply, k, Terminal
    <3> QED BY <2>1, <3>1, EndedOK DEF Terminal
  <2>5. CASE /\ ~(row[k].print = print /\ row[k].status = "running" /\ Takeover(k))
             /\ ~(row[k].print = print /\ row[k].status = "running" /\ row[k].expired /\ ~Takeover(k))
    <3>1. Reserve(key, print, h).row = row
      BY <1>2, <2>5 DEF Reserve, Reply, k, Terminal
    <3> QED BY <1>0, <3>1
  <2> QED BY <2>3, <2>4, <2>5
<1> QED BY <1>1, <1>2

\* mark_..._dispatched.
LEMMA DispatchOK ==
  ASSUME LeaseInv, NEW h \in Handlers, handler[h].pc # "idle"
  PROVE  RowsOK(Dispatch(handler[h].key, h).row)
<1> DEFINE key == handler[h].key
           R == [row EXCEPT ![key].dispatched = TRUE]
<1>0. key \in Keys /\ RowsOK(row)
  BY DEF LeaseInv, HandlersOK
<1>1. R \in [Keys -> Rows]
  BY <1>0 DEF RowsOK, Rows
<1>2. \A j \in Keys : /\ R[j].status = row[j].status /\ R[j].print = row[j].print
                      /\ R[j].token = row[j].token /\ (row[j].dispatched => R[j].dispatched)
  BY <1>0 DEF RowsOK, Rows
<1> HIDE DEF R
<1>3. OneRow(R) /\ Held(R)
  BY <1>0, <1>2 DEF RowsOK, OneRow, Held
<1>4. \A g \in Handlers : Sent(g) => Secure(R, g)
  BY <1>0, <1>2 DEF RowsOK, Secure
<1>5. RowsOK(R)
  BY <1>1, <1>3, <1>4 DEF RowsOK
<1> QED BY <1>0, <1>5 DEF Dispatch, Reply, R

\* complete_... and mark_..._outcome_unknown.
LEMMA EndOK ==
  ASSUME LeaseInv, NEW h \in Handlers, handler[h].pc # "idle",
         NEW status \in Terminal, NEW answer \in Handlers \cup {None}
  PROVE  RowsOK(End(handler[h].key, handler[h].print, h, status, answer).row)
<1> DEFINE R == End(handler[h].key, handler[h].print, h, status, answer).row
<1>0. handler[h].key \in Keys /\ RowsOK(row)
  BY DEF LeaseInv, HandlersOK
<1>1. row[handler[h].key].status \in {"none", "running"} \cup Terminal
  BY <1>0 DEF RowsOK, Rows
<1>2. R = row \/ (row[handler[h].key].status # "none" /\ R = Ended(handler[h].key, status, answer))
  BY <1>1 DEF End, Reply, Terminal
<1> QED BY <1>0, <1>2, EndedOK

\* release_...: the holder has sent nothing.
LEMMA ReleaseOK ==
  ASSUME LeaseInv, NEW h \in Handlers, handler[h].pc # "idle", ~Sent(h)
  PROVE  RowsOK(Release(handler[h].key, h).row)
<1> DEFINE key == handler[h].key
<1>0. key \in Keys /\ RowsOK(row)
  BY DEF LeaseInv, HandlersOK
<1>1. CASE row[key].status = "running" /\ row[key].token = h
  <2>1. \A g \in Handlers : Sent(g) => handler[g].key # key
    BY <1>0, <1>1 DEF RowsOK, Secure
  <2> QED BY <1>0, <1>1, <2>1, FreedOK DEF Release, Reply
<1>2. CASE ~(row[key].status = "running" /\ row[key].token = h)
  BY <1>0, <1>2 DEF Release, Reply
<1> QED BY <1>1, <1>2
------------------------------------------------------------------------------
(* The steps.                                                              *)

\* Nobody holds a lease.
LEMMA InitInv == Init => LeaseInv
  BY DEF Init, NoRow, Idle, LeaseInv, LeaseTypeOK, RowsOK, OneRow, Held, HandlersOK, Sent, Rows, States,
         Places, Past, Terminal

\* Nothing changes.
LEMMA StutterInv ==
  ASSUME LeaseInv, UNCHANGED vars
  PROVE  LeaseInv'
  BY DEF vars, LeaseInv, LeaseTypeOK, RowsOK, OneRow, Held, HandlersOK, Sent, Secure

\* A lease ends.
LEMMA ExpireInv ==
  ASSUME LeaseInv, NEW k \in Keys, Expire(k)
  PROVE  LeaseInv'
<1>0. /\ row \in [Keys -> Rows]
      /\ row' = [row EXCEPT ![k] = [row[k] EXCEPT !.expired = TRUE]]
  BY DEF Expire, LeaseInv, LeaseTypeOK
<1>1. row' \in [Keys -> Rows]
  <2>1. row[k] \in Rows
    BY <1>0
  <2>2. [row[k] EXCEPT !.expired = TRUE] \in Rows
    BY <2>1 DEF Rows
  <2> QED BY <1>0, <2>2
<1>2. \A j \in Keys : /\ row'[j].status = row[j].status /\ row'[j].print = row[j].print
                      /\ row'[j].token = row[j].token /\ row'[j].dispatched = row[j].dispatched
  BY DEF Expire, LeaseInv, LeaseTypeOK, Rows
<1>3. UNCHANGED <<handler, billed>>
  BY DEF Expire
<1>4. OneRow(row)'
  BY <1>2 DEF LeaseInv, RowsOK, OneRow
<1>5. Held(row)'
  BY <1>2, <1>3 DEF LeaseInv, RowsOK, Held
<1>6. \A h \in Handlers : Sent(h)' => Secure(row, h)'
  BY <1>2, <1>3 DEF LeaseInv, RowsOK, Secure, Sent
<1>7. HandlersOK'
  BY <1>3 DEF LeaseInv, HandlersOK, Sent
<1> QED BY <1>1, <1>3, <1>4, <1>5, <1>6, <1>7 DEF LeaseInv, LeaseTypeOK, RowsOK

\* A request arrives.
LEMMA ArriveInv ==
  ASSUME LeaseInv, NEW h \in Handlers, NEW key \in Keys, NEW print \in Prints, Arrive(h, key, print)
  PROVE  LeaseInv'
<1>1. handler' \in [Handlers -> States]
  BY DEF Arrive, LeaseInv, LeaseTypeOK, States, Places
<1>2. /\ handler'[h].pc = "reserve" /\ handler'[h].key = key /\ handler'[h].print = print
      /\ \A g \in Handlers \ {h} : handler'[g] = handler[g]
  BY DEF Arrive, LeaseInv, LeaseTypeOK
<1>3. UNCHANGED <<row, billed>> /\ handler[h].pc = "idle"
  BY DEF Arrive
<1>4. h \notin billed /\ ~Sent(h)' /\ \A g \in Handlers \ {h} : Sent(g)' <=> Sent(g)
  BY <1>2, <1>3 DEF LeaseInv, HandlersOK, Sent, Past
<1>5. Held(row)'
  BY <1>2, <1>3 DEF LeaseInv, RowsOK, Held
<1>6. \A g \in Handlers : Sent(g)' => Secure(row, g)'
  BY <1>2, <1>3, <1>4 DEF LeaseInv, RowsOK, Secure
<1>7. RowsOK(row)'
  BY <1>3, <1>5, <1>6 DEF LeaseInv, RowsOK, OneRow
<1>8. HandlersOK'
  BY <1>2, <1>3, <1>4 DEF LeaseInv, LeaseTypeOK, HandlersOK
<1> QED BY <1>1, <1>3, <1>7, <1>8 DEF LeaseInv, LeaseTypeOK

\* A handler asks for the lease, and takes it or is refused.
LEMMA ReservesInv ==
  ASSUME LeaseInv, NEW h \in Handlers, Reserves(h)
  PROVE  LeaseInv'
<1>1. /\ handler[h].pc = "reserve" /\ billed' = billed
      /\ row' = Reserve(handler[h].key, handler[h].print, h).row
  BY DEF Reserves
<1>2. (\E what : Respond(h, what)) \/ Go(h, "mark")
  BY DEF Reserves
<1>3. PICK p \in {"mark", "done", "gone"} : Moves(h, p)
  BY <1>2, GoMoves, RespondMoves DEF LeaseInv, Places
<1>4. RowsOK(row')
  BY <1>1, ReserveOK
<1>5. h \notin billed
  BY <1>1 DEF LeaseInv, HandlersOK, Past
<1> QED BY <1>1, <1>3, <1>4, <1>5, MoveKeeps DEF Places, Past

\* Of one request one handler may go on to the call: it holds the one row.
LEMMA MarksInv ==
  ASSUME LeaseInv, NEW h \in Handlers, Marks(h)
  PROVE  LeaseInv'
<1> DEFINE key == handler[h].key
<1>1. /\ handler[h].pc \in {"mark", "markFree"} /\ billed' = billed
      /\ row' = Dispatch(key, h).row
  BY DEF Marks
<1>2. RowsOK(row') /\ key \in Keys /\ h \notin billed /\ ~Sent(h)
  BY <1>1, DispatchOK DEF LeaseInv, HandlersOK, Past, Sent
<1>3. CASE Moves(h, "call") /\ Dispatch(key, h).is = "dispatched"
  <2>1. /\ row[key].status = "running" /\ row[key].token = h
        /\ row' = [row EXCEPT ![key].dispatched = TRUE]
    BY <1>1, <1>3 DEF Dispatch, Reply
  <2>a. OneRow(row) /\ Held(row) /\ \A g \in Handlers : Sent(g) => Secure(row, g)
    BY DEF LeaseInv, RowsOK
  <2>2. row[key].print = handler[h].print
    BY <1>2, <2>1, <2>a DEF Held
  <2>3. \A g \in Handlers \ {h} : Sent(g) => handler[g].print # handler[h].print
    <3> SUFFICES ASSUME NEW g \in Handlers \ {h}, Sent(g), handler[g].print = handler[h].print
                 PROVE  FALSE
      OBVIOUS
    <3>1. /\ handler[g].key \in Keys /\ row[handler[g].key].status # "none"
          /\ row[handler[g].key].print = handler[h].print
          /\ row[handler[g].key].status = "running" => row[handler[g].key].token = g
      BY <2>a DEF Secure
    <3>2. handler[g].key = key
      BY <1>2, <2>1, <2>2, <2>a, <3>1 DEF OneRow
    <3> QED BY <2>1, <3>1, <3>2
  <2>4. /\ row'[key].status = "running" /\ row'[key].token = h /\ row'[key].dispatched
        /\ row'[key].print = handler[h].print
    BY <1>2, <2>1, <2>2 DEF LeaseInv, LeaseTypeOK, Rows
  <2>5. \A g \in Handlers : handler'[g].key = handler[g].key /\ handler'[g].print = handler[g].print
    BY <1>3 DEF Moves
  <2>6. \A g \in Handlers \ {h} : Sent(g)' <=> Sent(g)
    BY <1>1, <1>3 DEF Sent, Moves
  <2>7. \A g \in Handlers : Sent(g)' => Secure(row, g)'
    BY <1>2, <2>4, <2>5, <2>6 DEF RowsOK, Secure
  <2>8. Held(row)'
    BY <1>2, <1>3, <2>5 DEF RowsOK, Held, Moves
  <2>9. RowsOK(row)'
    BY <1>2, <2>7, <2>8 DEF RowsOK, OneRow
  <2>10. HandlersOK'
    <3>1. \A g \in Handlers : handler'[g].pc # "idle" => handler'[g].key \in Keys /\ handler'[g].print \in Prints
      BY <1>1, <1>3, <2>5 DEF LeaseInv, HandlersOK, Moves
    <3>2. \A g \in billed' : handler'[g].pc \in Past
      BY <1>1, <1>2, <1>3 DEF LeaseInv, LeaseTypeOK, HandlersOK, Moves
    <3>3. \A f, g \in Handlers : Sent(f)' /\ Sent(g)' /\ handler'[f].print = handler'[g].print => f = g
      BY <2>3, <2>5, <2>6 DEF LeaseInv, HandlersOK
    <3> QED BY <3>1, <3>2, <3>3 DEF HandlersOK
  <2> QED BY <1>1, <1>3, <2>9, <2>10 DEF LeaseInv, LeaseTypeOK, RowsOK, Moves
<1>4. CASE \E p \in {"releaseUnsent", "callFree", "gone"} : Moves(h, p)
  BY <1>1, <1>2, <1>4, MoveKeeps DEF Places, Past
<1>5. \/ Moves(h, "call") /\ Dispatch(key, h).is = "dispatched"
      \/ \E p \in {"releaseUnsent", "callFree", "gone"} : Moves(h, p)
  BY GoMoves DEF Marks, LeaseInv, Places
<1> QED BY <1>3, <1>4, <1>5

\* The provider is asked for money.
LEMMA CallsInv ==
  ASSUME LeaseInv, NEW h \in Handlers, Calls(h)
  PROVE  LeaseInv'
<1>1. handler[h].pc = "call" /\ handler[h].alive /\ row' = row /\ Sent(h) /\ h \notin billed
  BY DEF Calls, Sent, LeaseInv, HandlersOK, Past
<1>2. \/ (Go(h, "complete") \/ Go(h, "unknown")) /\ billed' = billed \cup {h}
      \/ (Go(h, "release") \/ Go(h, "markFree")) /\ billed' = billed
  BY DEF Calls
<1>3. \/ (Moves(h, "complete") \/ Moves(h, "unknown") \/ Moves(h, "gone")) /\ billed' = billed \cup {h}
      \/ (Moves(h, "release") \/ Moves(h, "markFree") \/ Moves(h, "gone")) /\ billed' = billed
  BY <1>2, GoMoves DEF LeaseInv, Places, Past
<1>4. RowsOK(row')
  BY <1>1 DEF LeaseInv
<1> QED BY <1>1, <1>3, <1>4, MoveKeeps DEF Places, Past

\* The free provider is asked.
LEMMA CallsFreeInv ==
  ASSUME LeaseInv, NEW h \in Handlers, CallsFree(h)
  PROVE  LeaseInv'
<1>1. handler[h].pc = "callFree" /\ row' = row /\ billed' = billed /\ h \notin billed
  BY DEF CallsFree, LeaseInv, HandlersOK, Past
<1>2. Moves(h, "complete") \/ Moves(h, "release") \/ Moves(h, "unknown") \/ Moves(h, "gone")
  BY GoMoves DEF CallsFree, LeaseInv, Places, Past
<1>3. RowsOK(row')
  BY <1>1 DEF LeaseInv
<1> QED BY <1>1, <1>2, <1>3, MoveKeeps DEF Places, Past

\* An answer is recorded.
LEMMA CompletesInv ==
  ASSUME LeaseInv, NEW h \in Handlers, Completes(h)
  PROVE  LeaseInv'
<1>1. /\ handler[h].pc \in {"complete", "again"} /\ billed' = billed
      /\ row' = End(handler[h].key, handler[h].print, h, "completed", h).row
  BY DEF Completes
<1>2. (\E what : Respond(h, what)) \/ Go(h, "again") \/ Go(h, "unknown")
  BY DEF Completes
<1>3. Moves(h, "done") \/ Moves(h, "again") \/ Moves(h, "unknown") \/ Moves(h, "gone")
  BY <1>2, GoMoves, RespondMoves DEF LeaseInv, Places, Past
<1>4. RowsOK(row')
  BY <1>1, EndOK DEF Terminal
<1> QED BY <1>1, <1>3, <1>4, MoveKeeps DEF Places, Past, Sent

\* An outcome nobody knows is recorded.
LEMMA MarksUnknownInv ==
  ASSUME LeaseInv, NEW h \in Handlers, MarksUnknown(h)
  PROVE  LeaseInv'
<1>1. /\ handler[h].pc = "unknown" /\ billed' = billed
      /\ row' = End(handler[h].key, handler[h].print, h, "outcome_unknown", None).row
  BY DEF MarksUnknown
<1>2. \E what : Respond(h, what)
  BY DEF MarksUnknown
<1>3. Moves(h, "done") \/ Moves(h, "gone")
  BY <1>2, RespondMoves DEF LeaseInv
<1>4. RowsOK(row')
  BY <1>1, EndOK DEF Terminal
<1> QED BY <1>1, <1>3, <1>4, MoveKeeps DEF Places, Past, Sent

\* A lease is given back.
LEMMA ReleasesInv ==
  ASSUME LeaseInv, NEW h \in Handlers, Releases(h)
  PROVE  LeaseInv'
<1>1. /\ handler[h].pc \in {"release", "releaseUnsent"} /\ billed' = billed /\ ~Sent(h)
      /\ row' = Release(handler[h].key, h).row
  BY DEF Releases, Sent, LeaseInv, HandlersOK, Past
<1>2. \E what : Respond(h, what)
  BY DEF Releases
<1>3. Moves(h, "done") \/ Moves(h, "gone")
  BY <1>2, RespondMoves DEF LeaseInv
<1>4. RowsOK(row')
  BY <1>1, ReleaseOK
<1> QED BY <1>1, <1>3, <1>4, MoveKeeps DEF Places, Past, Sent

\* An RPC whose answer is lost has run as the same RPC does, or not at all.
LEMMA BreaksInv ==
  ASSUME LeaseInv, NEW h \in Handlers, Breaks(h)
  PROVE  LeaseInv'
<1>1. /\ handler[h].pc \in {"reserve", "mark", "markFree", "complete", "again", "unknown", "release",
                            "releaseUnsent"}
      /\ billed' = billed /\ (row' = row \/ row' = Ran(h))
  BY DEF Breaks
<1>2. RowsOK(row)
  BY DEF LeaseInv
<1>3. RowsOK(Ran(h))
  <2>1. CASE handler[h].pc = "reserve"
    BY <2>1, ReserveOK DEF Ran
  <2>2. CASE handler[h].pc \in {"mark", "markFree"}
    BY <2>2, DispatchOK DEF Ran
  <2>3. CASE handler[h].pc \in {"complete", "again"}
    BY <2>3, EndOK DEF Ran, Terminal
  <2>4. CASE handler[h].pc = "unknown"
    BY <2>4, EndOK DEF Ran, Terminal
  <2>5. CASE handler[h].pc \in {"release", "releaseUnsent"}
    <3>1. ~Sent(h)
      BY <2>5 DEF Sent, LeaseInv, HandlersOK, Past
    <3> QED BY <2>5, <3>1, ReleaseOK DEF Ran
  <2> QED BY <1>1, <2>1, <2>2, <2>3, <2>4, <2>5
<1>4. CASE handler[h].pc \in {"mark", "markFree"}
  <2>1. Moves(h, "releaseUnsent") \/ Moves(h, "gone")
    BY <1>4, GoMoves DEF Breaks, LeaseInv, Places, Past
  <2>2. h \notin billed
    BY <1>4 DEF LeaseInv, HandlersOK, Past
  <2> QED BY <1>1, <1>2, <1>3, <1>4, <2>1, <2>2, MoveKeeps DEF Places, Past
<1>5. CASE handler[h].pc \notin {"mark", "markFree"}
  <2>1. Go(h, "again") \/ Go(h, "unknown") \/ (\E what : Respond(h, what))
    BY <1>5 DEF Breaks
  <2>2. Moves(h, "again") \/ Moves(h, "unknown") \/ Moves(h, "done") \/ Moves(h, "gone")
    BY <2>1, GoMoves, RespondMoves DEF LeaseInv, Places, Past
  <2> QED BY <1>1, <1>2, <1>3, <2>2, MoveKeeps DEF Places, Past, Sent
<1> QED BY <1>4, <1>5

\* A handler dies.
LEMMA DieInv ==
  ASSUME LeaseInv, NEW h \in Handlers, Die(h)
  PROVE  LeaseInv'
<1> DEFINE p == IF handler[h].pc \in {"call", "callFree"} THEN "gone" ELSE handler[h].pc
<1>1. handler[h].alive /\ row' = row /\ p \in Places
  BY DEF Die, LeaseInv, LeaseTypeOK, States, Places, Past
<1>2. Moves(h, p)
  BY <1>1 DEF Die, Moves, LeaseInv, LeaseTypeOK, States
<1>3. CASE handler[h].pc = "idle"
  <2>1. UNCHANGED <<row, billed>> /\ h \notin billed
    BY <1>3 DEF Die, LeaseInv, HandlersOK, Past
  <2>2. \A g \in Handlers : /\ handler'[g].pc = handler[g].pc /\ handler'[g].key = handler[g].key
                            /\ handler'[g].print = handler[g].print
    BY <1>2, <1>3 DEF Moves
  <2>3. \A g \in Handlers : Sent(g)' <=> Sent(g)
    BY <2>1, <2>2 DEF Sent
  <2>4. Held(row)'
    BY <2>1, <2>2 DEF LeaseInv, RowsOK, Held
  <2>5. \A g \in Handlers : Sent(g)' => Secure(row, g)'
    BY <2>1, <2>2, <2>3 DEF LeaseInv, RowsOK, Secure
  <2>6. RowsOK(row)'
    BY <2>1, <2>4, <2>5 DEF LeaseInv, RowsOK, OneRow
  <2>7. HandlersOK'
    BY <2>1, <2>2, <2>3 DEF LeaseInv, LeaseTypeOK, HandlersOK
  <2> QED BY <1>2, <2>1, <2>6, <2>7 DEF LeaseInv, LeaseTypeOK, Moves
<1>4. CASE handler[h].pc # "idle"
  <2>1. RowsOK(row') /\ billed' \subseteq billed \cup {h}
    BY <1>1 DEF LeaseInv, Die
  <2>2. /\ p # "idle" /\ p # "call"
        /\ (h \in billed' => Sent(h)) /\ (h \in billed' => p \in Past)
    BY <1>4 DEF Die, Sent, LeaseInv, HandlersOK, Past
  <2> HIDE DEF p
  <2> QED BY <1>1, <1>2, <1>4, <2>1, <2>2, MoveKeeps
<1> QED BY <1>3, <1>4

\* Every step keeps the invariant.
LEMMA NextInv == LeaseInv /\ [Next]_vars => LeaseInv'
<1> SUFFICES ASSUME LeaseInv, [Next]_vars
             PROVE  LeaseInv'
  OBVIOUS
<1>1. ASSUME NEW k \in Keys, Expire(k) PROVE LeaseInv'
  BY <1>1, ExpireInv
<1>2. ASSUME NEW h \in Handlers, NEW k \in Keys, NEW p \in Prints, Arrive(h, k, p) PROVE LeaseInv'
  BY <1>2, ArriveInv
<1>3. ASSUME NEW h \in Handlers,
             Reserves(h) \/ Marks(h) \/ Calls(h) \/ CallsFree(h) \/ Completes(h) \/ MarksUnknown(h)
             \/ Releases(h) \/ Breaks(h) \/ Die(h)
      PROVE  LeaseInv'
  BY <1>3, ReservesInv, MarksInv, CallsInv, CallsFreeInv, CompletesInv, MarksUnknownInv, ReleasesInv,
     BreaksInv, DieInv
<1>4. CASE UNCHANGED vars
  BY <1>4, StutterInv
<1> QED BY <1>1, <1>2, <1>3, <1>4 DEF Next

------------------------------------------------------------------------------
(* What was said stays true: a row that has ended stays as it is, and who   *)
(* responds is done.                                                        *)

Words == {None, "locked", "later", "unsent"}

\* Every ended row of today is there in rows.
EndedStay(rows) ==
  \A k \in Keys : row[k].status \in Terminal =>
    rows[k].status = row[k].status /\ rows[k].print = row[k].print /\ rows[k].answer = row[k].answer

\* KeepsWhatItSaid, of one handler.
Told(h) ==
  /\ said[h] \in Handlers =>
       \E k \in Keys : /\ row[k].status = "completed" /\ row[k].answer = said[h]
                       /\ row[k].print = handler[h].print
  /\ said[h] = "locked" =>
       \E k \in Keys : row[k].status = "outcome_unknown" /\ row[k].print = handler[h].print
  /\ said[h] = "unsent" => h \notin billed

SaidInv ==
  /\ said \in [Handlers -> Handlers \cup Words]
  /\ \A h \in Handlers : (said[h] # None => handler[h].pc = "done") /\ Told(h)

\* No RPC changes a row that has ended.
LEMMA ReserveStays ==
  ASSUME LeaseInv, NEW h \in Handlers, handler[h].pc # "idle"
  PROVE  EndedStay(Reserve(handler[h].key, handler[h].print, h).row)
<1> DEFINE key == handler[h].key
           print == handler[h].print
           k == CHOOSE x \in Found(key, print) : TRUE
           R == Reserve(key, print, h).row
<1>0. key \in Keys /\ print \in Prints /\ row \in [Keys -> Rows]
  BY DEF LeaseInv, LeaseTypeOK, HandlersOK
<1>1. CASE Found(key, print) = {}
  <2>1. row[key].status = "none" /\ R = Leased(row, key, print, h)
    BY <1>1 DEF Found, Reserve, Reply
  <2> QED BY <1>0, <2>1 DEF EndedStay, Leased, Terminal
<1>2. CASE Found(key, print) # {}
  <2>1. k \in Keys /\ row[k].status # "none" /\ (k # key => row[key].status = "none")
    BY <1>0, <1>2 DEF Found
  <2>2. \/ R = row
        \/ row[k].status = "running" /\ R = Leased([row EXCEPT ![k] = NoRow], key, print, h)
        \/ row[k].status = "running" /\ R = Ended(k, "outcome_unknown", None)
    <3>1. CASE row[k].print = print /\ row[k].status = "running" /\ Takeover(k)
      BY <1>2, <3>1 DEF Reserve, Reply, Terminal
    <3>2. CASE row[k].print = print /\ row[k].status = "running" /\ ~Takeover(k)
      BY <1>2, <3>2 DEF Reserve, Reply, Terminal
    <3>3. CASE ~(row[k].print = print /\ row[k].status = "running")
      BY <1>2, <3>3 DEF Reserve, Reply
    <3> QED BY <3>1, <3>2, <3>3
  <2> HIDE DEF k, R
  <2>3. EndedStay(R)
    BY <1>0, <2>1, <2>2 DEF EndedStay, Leased, Ended, Terminal
  <2> QED BY <2>3 DEF R
<1> QED BY <1>1, <1>2

\* A dispatch leaves what has ended.
LEMMA DispatchStays ==
  ASSUME LeaseInv, NEW h \in Handlers, handler[h].pc # "idle"
  PROVE  EndedStay(Dispatch(handler[h].key, h).row)
  BY DEF LeaseInv, LeaseTypeOK, HandlersOK, EndedStay, Dispatch, Reply, Terminal, Rows

\* So does an end.
LEMMA EndStays ==
  ASSUME LeaseInv, NEW h \in Handlers, handler[h].pc # "idle", NEW status, NEW answer
  PROVE  EndedStay(End(handler[h].key, handler[h].print, h, status, answer).row)
<1> DEFINE key == handler[h].key
           R == End(key, handler[h].print, h, status, answer).row
<1>0. key \in Keys /\ row \in [Keys -> Rows]
  BY DEF LeaseInv, LeaseTypeOK, HandlersOK
<1>1. row[key].status \in {"none", "running"} \cup Terminal
  BY <1>0 DEF Rows
<1>2. R = row \/ (row[key].status = "running" /\ R = Ended(key, status, answer))
  BY <1>1 DEF End, Reply, Terminal
<1> HIDE DEF R
<1>3. EndedStay(R)
  BY <1>0, <1>2 DEF EndedStay, Ended, Terminal
<1> QED BY <1>3 DEF R

\* And a lease given back.
LEMMA ReleaseStays ==
  ASSUME LeaseInv, NEW h \in Handlers, handler[h].pc # "idle"
  PROVE  EndedStay(Release(handler[h].key, h).row)
  BY DEF LeaseInv, LeaseTypeOK, HandlersOK, EndedStay, Release, Reply, Terminal

\* A handler that is not done takes a step: what the others said stays true.
LEMMA SaidKept ==
  ASSUME LeaseInv, SaidInv, NEW h \in Handlers, handler[h].pc # "done",
         \A g \in Handlers \ {h} : handler'[g] = handler[g],
         EndedStay(row'), billed' \subseteq billed \cup {h},
         said' \in [Handlers -> Handlers \cup Words],
         \A g \in Handlers \ {h} : said'[g] = said[g],
         said'[h] # None => handler'[h].pc = "done" /\ Told(h)'
  PROVE  SaidInv'
<1>1. said[h] = None
  BY DEF SaidInv
<1>2. Told(h)'
  BY WordsAssumption DEF Told
<1>3. \A g \in Handlers \ {h} : (said[g] # None => handler[g].pc = "done")' /\ Told(g)'
  BY DEF SaidInv, Told, EndedStay, Terminal
<1> QED BY <1>2, <1>3 DEF SaidInv

\* A step that says nothing.
LEMMA SilentKept ==
  ASSUME LeaseInv, SaidInv, NEW h \in Handlers, handler[h].pc # "done",
         \A g \in Handlers \ {h} : handler'[g] = handler[g],
         EndedStay(row'), billed' \subseteq billed \cup {h}, said' = said
  PROVE  SaidInv'
<1>1. said[h] = None /\ said' \in [Handlers -> Handlers \cup Words]
  BY DEF SaidInv
<1> QED BY <1>1, SaidKept

\* A response of a living handler is what it says.
LEMMA RespondKept ==
  ASSUME LeaseInv, SaidInv, NEW h \in Handlers, handler[h].pc # "done",
         NEW what \in Handlers \cup Words, Respond(h, what),
         EndedStay(row'), billed' = billed,
         what \in Handlers =>
           \E k \in Keys : /\ row'[k].status = "completed" /\ row'[k].answer = what
                           /\ row'[k].print = handler[h].print,
         what = "locked" =>
           \E k \in Keys : row'[k].status = "outcome_unknown" /\ row'[k].print = handler[h].print,
         what = "unsent" => h \notin billed
  PROVE  SaidInv'
<1>1. /\ handler \in [Handlers -> States] /\ said \in [Handlers -> Handlers \cup Words]
      /\ None \in Words
  BY DEF LeaseInv, LeaseTypeOK, SaidInv, Words
<1>2. /\ handler' = [handler EXCEPT ![h].pc = IF handler[h].alive THEN "done" ELSE "gone"]
      /\ said' = [said EXCEPT ![h] = IF handler[h].alive THEN what ELSE None]
  BY DEF Respond, Go
<1>3. /\ handler'[h].print = handler[h].print
      /\ handler[h].alive => handler'[h].pc = "done" /\ said'[h] = what
      /\ ~handler[h].alive => said'[h] = None
      /\ \A g \in Handlers \ {h} : handler'[g] = handler[g] /\ said'[g] = said[g]
      /\ said' \in [Handlers -> Handlers \cup Words]
  BY <1>1, <1>2 DEF States
<1>4. said'[h] # None => handler'[h].pc = "done" /\ Told(h)'
  BY <1>3 DEF Told
<1> QED BY <1>3, <1>4, SaidKept

\* An answer said at a reserve is the one stored under the request.
LEMMA ReservesSaid ==
  ASSUME LeaseInv, SaidInv, NEW h \in Handlers, Reserves(h)
  PROVE  SaidInv'
<1> DEFINE key == handler[h].key
           print == handler[h].print
           k == CHOOSE x \in Found(key, print) : TRUE
           R == Reserve(key, print, h)
<1>1. /\ handler[h].pc = "reserve" /\ row' = R.row /\ billed' = billed
      /\ handler \in [Handlers -> States] /\ EndedStay(row')
  BY ReserveStays DEF Reserves, LeaseInv, LeaseTypeOK
<1>2. key \in Keys /\ print \in Prints /\ row \in [Keys -> Rows]
  BY <1>1 DEF LeaseInv, LeaseTypeOK, HandlersOK
<1>3. CASE R.is = "new"
  <2>1. Go(h, "mark") /\ said' = said
    BY <1>3 DEF Reserves
  <2> QED BY <1>1, <2>1, SilentKept DEF Go
<1>4. CASE R.is \in {"completed", "outcome_unknown"}
  <2>1. Found(key, print) # {}
    BY <1>4 DEF Reserve, Reply
  <2>2. k \in Keys /\ row[k].status # "none"
    BY <1>2, <2>1 DEF Found
  <2>3. /\ row[k].print = print
        /\ \/ row[k].status = R.is /\ R.row = row
           \/ R.is = "outcome_unknown" /\ R.row = Ended(k, "outcome_unknown", None)
    <3>1. row[k].print = print
      BY <1>4, <2>1 DEF Reserve, Reply
    <3>2. CASE row[k].status \in Terminal
      BY <2>1, <3>1, <3>2 DEF Reserve, Reply, Terminal
    <3>3. CASE row[k].status = "running" /\ Takeover(k)
      BY <1>4, <2>1, <3>1, <3>3 DEF Reserve, Reply, Terminal
    <3>4. CASE row[k].status = "running" /\ ~Takeover(k)
      BY <1>4, <2>1, <3>1, <3>4 DEF Reserve, Reply, Terminal
    <3>5. row[k].status \in Terminal \cup {"running"}
      BY <1>2, <2>2 DEF Rows
    <3> QED BY <3>1, <3>2, <3>3, <3>4, <3>5
  <2> HIDE DEF k
  <2>4. row'[k].status = R.is /\ row'[k].print = print
    <3>1. CASE R.row = row /\ row[k].status = R.is
      BY <1>1, <2>3, <3>1
    <3>2. CASE R.is = "outcome_unknown" /\ R.row = Ended(k, "outcome_unknown", None)
      <4>1. Ended(k, "outcome_unknown", None)[k] =
              [row[k] EXCEPT !.status = "outcome_unknown", !.answer = None, !.token = None]
        BY <1>2, <2>2 DEF Ended
      <4>2. row[k] \in Rows
        BY <1>2, <2>2
      <4> QED BY <1>1, <2>3, <3>2, <4>1, <4>2 DEF Rows
    <3> QED BY <2>3, <3>1, <3>2
  <2>5. CASE R.is = "completed"
    <3> DEFINE j == CHOOSE x \in Keys : row'[x].print = print /\ row'[x].status = "completed"
               what == row'[j].answer
    <3>1. j \in Keys /\ row'[j].print = print /\ row'[j].status = "completed"
      BY <2>2, <2>4, <2>5
    <3>2. Respond(h, what)
      BY <1>1, <2>5 DEF Reserves, Stored
    <3> HIDE DEF j
    <3>3. what \in Handlers \cup {None}
      <4>1. row' = row
        BY <1>1, <2>3, <2>5
      <4> QED BY <1>2, <3>1, <4>1 DEF Rows
    <3> HIDE DEF what
    <3>4. what \in Handlers => \E x \in Keys : /\ row'[x].status = "completed" /\ row'[x].answer = what
                                               /\ row'[x].print = print
      BY <3>1 DEF what
    <3>5. what \in Handlers \cup Words /\ what # "locked" /\ what # "unsent"
      BY <3>3, WordsAssumption DEF Words
    <3> QED BY <1>1, <3>2, <3>4, <3>5, RespondKept
  <2>6. CASE R.is = "outcome_unknown"
    <3>1. Respond(h, "locked")
      BY <2>6 DEF Reserves
    <3> QED BY <1>1, <2>2, <2>4, <2>6, <3>1, RespondKept, WordsAssumption DEF Words
  <2> QED BY <1>4, <2>5, <2>6
<1>5. CASE R.is \notin {"new", "completed", "outcome_unknown"}
  <2>1. Respond(h, "later")
    BY <1>5 DEF Reserves
  <2> QED BY <1>1, <2>1, RespondKept, WordsAssumption DEF Words
<1> QED BY <1>3, <1>4, <1>5

\* An ending that says so has left its row as it says.
LEMMA EndSays ==
  ASSUME LeaseInv, NEW h \in Handlers, handler[h].pc # "idle",
         NEW status \in Terminal, NEW answer \in Handlers \cup {None},
         NEW end, end = End(handler[h].key, handler[h].print, h, status, answer),
         end.is \in Terminal
  PROVE  LET k == handler[h].key IN
         /\ k \in Keys /\ end.row[k].status = end.is /\ end.row[k].print = handler[h].print
         /\ end.row[k].answer \in Handlers \cup {None}
<1> DEFINE key == handler[h].key
<1>0. key \in Keys /\ row \in [Keys -> Rows]
  BY DEF LeaseInv, LeaseTypeOK, HandlersOK
<1>1. row[key].print = handler[h].print /\ row[key].status # "none"
  BY DEF End, Reply, Terminal
<1>2. CASE row[key].status \in Terminal
  <2>1. end = Reply(row[key].status, row)
    BY <1>1, <1>2 DEF End, Terminal
  <2> QED BY <1>0, <1>1, <2>1 DEF Reply, Rows
<1>3. CASE row[key].status = "running"
  <2>1. end = Reply(status, Ended(key, status, answer))
    BY <1>1, <1>3 DEF End, Reply, Terminal
  <2>2. Ended(key, status, answer)[key] = [row[key] EXCEPT !.status = status, !.answer = answer, !.token = None]
    BY <1>0 DEF Ended
  <2>3. row[key] \in Rows /\ end.is = status /\ end.row = Ended(key, status, answer)
    BY <1>0, <2>1 DEF Reply
  <2>4. /\ [row[key] EXCEPT !.status = status, !.answer = answer, !.token = None].status = status
        /\ [row[key] EXCEPT !.status = status, !.answer = answer, !.token = None].print = row[key].print
        /\ [row[key] EXCEPT !.status = status, !.answer = answer, !.token = None].answer = answer
    BY <2>3 DEF Rows
  <2>5. /\ end.row[key].status = end.is /\ end.row[key].print = row[key].print
        /\ end.row[key].answer = answer
    BY <2>2, <2>3, <2>4
  <2> QED BY <1>0, <1>1, <2>5
<1> QED BY <1>0, <1>1, <1>2, <1>3 DEF Rows

\* A completion that is heard of says what is recorded.
LEMMA CompletesSaid ==
  ASSUME LeaseInv, SaidInv, NEW h \in Handlers, Completes(h)
  PROVE  SaidInv'
<1> DEFINE key == handler[h].key
           R == End(key, handler[h].print, h, "completed", h)
<1>1. /\ handler[h].pc \in {"complete", "again"} /\ row' = R.row /\ billed' = billed
      /\ handler \in [Handlers -> States] /\ EndedStay(row')
  BY EndStays DEF Completes, LeaseInv, LeaseTypeOK
<1>2. CASE R.is = "completed"
  <2> DEFINE what == row'[key].answer
  <2>1. /\ key \in Keys /\ row'[key].status = "completed" /\ row'[key].print = handler[h].print
        /\ what \in Handlers \cup {None}
    BY <1>1, <1>2, EndSays DEF Terminal
  <2>2. Respond(h, what)
    BY <1>1, <1>2 DEF Completes
  <2>3. what \in Handlers \cup Words /\ what # "locked" /\ what # "unsent"
    BY <2>1, WordsAssumption DEF Words
  <2>4. what \in Handlers => \E x \in Keys : /\ row'[x].status = "completed" /\ row'[x].answer = what
                                             /\ row'[x].print = handler[h].print
    BY <2>1
  <2> HIDE DEF what
  <2> QED BY <1>1, <2>2, <2>3, <2>4, RespondKept
<1>3. CASE R.is # "completed"
  <2>1. said' = said /\ \A g \in Handlers \ {h} : handler'[g] = handler[g]
    BY <1>1, <1>3 DEF Completes, Go
  <2> QED BY <1>1, <2>1, SilentKept
<1> QED BY <1>2, <1>3

\* So does an unknown outcome.
LEMMA MarksUnknownSaid ==
  ASSUME LeaseInv, SaidInv, NEW h \in Handlers, MarksUnknown(h)
  PROVE  SaidInv'
<1> DEFINE key == handler[h].key
           R == End(key, handler[h].print, h, "outcome_unknown", None)
<1>1. /\ handler[h].pc = "unknown" /\ row' = R.row /\ billed' = billed
      /\ EndedStay(row')
  BY EndStays DEF MarksUnknown
<1>2. R.is \in Terminal => /\ key \in Keys /\ row'[key].status = R.is /\ row'[key].print = handler[h].print
                           /\ row'[key].answer \in Handlers \cup {None}
  BY <1>1, EndSays DEF Terminal
<1>3. CASE R.is = "completed"
  <2> DEFINE what == row'[key].answer
  <2>1. Respond(h, what)
    BY <1>1, <1>3 DEF MarksUnknown
  <2>2. what \in Handlers \cup Words /\ what # "locked" /\ what # "unsent"
    BY <1>2, <1>3, WordsAssumption DEF Words, Terminal
  <2>3. what \in Handlers => \E x \in Keys : /\ row'[x].status = "completed" /\ row'[x].answer = what
                                             /\ row'[x].print = handler[h].print
    BY <1>2, <1>3 DEF Terminal
  <2> HIDE DEF what
  <2> QED BY <1>1, <2>1, <2>2, <2>3, RespondKept
<1>4. CASE R.is = "outcome_unknown"
  <2>1. Respond(h, "locked")
    BY <1>4 DEF MarksUnknown
  <2> QED BY <1>1, <1>2, <1>4, <2>1, RespondKept, WordsAssumption DEF Words, Terminal
<1>5. CASE R.is \notin {"completed", "outcome_unknown"}
  <2>1. Respond(h, "later")
    BY <1>5 DEF MarksUnknown
  <2> QED BY <1>1, <2>1, RespondKept, WordsAssumption DEF Words
<1> QED BY <1>3, <1>4, <1>5

\* Unsent is only said before anything was paid.
LEMMA ReleasesSaid ==
  ASSUME LeaseInv, SaidInv, NEW h \in Handlers, Releases(h)
  PROVE  SaidInv'
<1>1. /\ handler[h].pc \in {"release", "releaseUnsent"} /\ billed' = billed
      /\ row' = Release(handler[h].key, h).row /\ EndedStay(row') /\ h \notin billed
  BY ReleaseStays DEF Releases, LeaseInv, HandlersOK, Past
<1>2. Respond(h, "unsent") \/ Respond(h, "later")
  BY DEF Releases
<1> QED BY <1>1, <1>2, RespondKept, WordsAssumption DEF Words

\* A handler that breaks off says nothing new.
LEMMA BreaksSaid ==
  ASSUME LeaseInv, SaidInv, NEW h \in Handlers, Breaks(h)
  PROVE  SaidInv'
<1>1. /\ handler[h].pc \in {"reserve", "mark", "markFree", "complete", "again", "unknown", "release",
                            "releaseUnsent"}
      /\ billed' = billed /\ (row' = row \/ row' = Ran(h))
  BY DEF Breaks
<1>2. EndedStay(row')
  <2>1. CASE row' = row
    BY <2>1 DEF EndedStay
  <2>2. EndedStay(Ran(h))
    <3>1. CASE handler[h].pc = "reserve"
      BY <3>1, ReserveStays DEF Ran
    <3>2. CASE handler[h].pc \in {"mark", "markFree"}
      BY <3>2, DispatchStays DEF Ran
    <3>3. CASE handler[h].pc \in {"complete", "again"}
      BY <3>3, EndStays DEF Ran
    <3>4. CASE handler[h].pc = "unknown"
      BY <3>4, EndStays DEF Ran
    <3>5. CASE handler[h].pc \in {"release", "releaseUnsent"}
      BY <3>5, ReleaseStays DEF Ran
    <3> QED BY <1>1, <3>1, <3>2, <3>3, <3>4, <3>5
  <2> QED BY <1>1, <2>1, <2>2
<1>3. \/ said' = said /\ \A g \in Handlers \ {h} : handler'[g] = handler[g]
      \/ Respond(h, "later")
  BY <1>1 DEF Breaks, Go, LeaseInv, LeaseTypeOK
<1> QED BY <1>1, <1>2, <1>3, SilentKept, RespondKept, WordsAssumption DEF Words

\* Every step keeps what was said.
LEMMA SaidNext == LeaseInv /\ SaidInv /\ [Next]_vars => SaidInv'
<1> SUFFICES ASSUME LeaseInv, SaidInv, [Next]_vars
             PROVE  SaidInv'
  OBVIOUS
<1>0. row \in [Keys -> Rows] /\ handler \in [Handlers -> States]
  BY DEF LeaseInv, LeaseTypeOK
<1>1. ASSUME NEW k \in Keys, Expire(k) PROVE SaidInv'
  <2>1. \A j \in Keys : /\ row'[j].status = row[j].status /\ row'[j].print = row[j].print
                        /\ row'[j].answer = row[j].answer
    BY <1>0, <1>1 DEF Expire, Rows
  <2>2. UNCHANGED <<handler, billed, said>>
    BY <1>1 DEF Expire
  <2> QED BY <2>1, <2>2 DEF SaidInv, Told
<1>2. ASSUME NEW h \in Handlers, NEW k \in Keys, NEW p \in Prints, Arrive(h, k, p) PROVE SaidInv'
  <2>1. /\ handler[h].pc # "done" /\ UNCHANGED <<row, billed, said>>
        /\ \A g \in Handlers \ {h} : handler'[g] = handler[g]
    BY <1>0, <1>2 DEF Arrive
  <2> QED BY <2>1, SilentKept DEF EndedStay
<1>3. ASSUME NEW h \in Handlers, Marks(h) PROVE SaidInv'
  <2>1. /\ handler[h].pc \in {"mark", "markFree"} /\ UNCHANGED <<billed, said>>
        /\ \A g \in Handlers \ {h} : handler'[g] = handler[g]
        /\ row' = Dispatch(handler[h].key, h).row
    BY <1>0, <1>3 DEF Marks, Go
  <2> QED BY <2>1, DispatchStays, SilentKept
<1>4. ASSUME NEW h \in Handlers, Calls(h) \/ CallsFree(h) \/ Die(h) PROVE SaidInv'
  <2>1. /\ handler[h].pc # "done" /\ UNCHANGED <<row, said>> /\ billed' \subseteq billed \cup {h}
        /\ \A g \in Handlers \ {h} : handler'[g] = handler[g]
    BY <1>0, <1>4 DEF Calls, CallsFree, Die, Go
  <2> QED BY <2>1, SilentKept DEF EndedStay
<1>5. CASE UNCHANGED vars
  BY <1>5 DEF vars, SaidInv, Told
<1> QED BY <1>1, <1>2, <1>3, <1>4, <1>5, ReservesSaid, CompletesSaid, MarksUnknownSaid, ReleasesSaid,
           BreaksSaid DEF Next

------------------------------------------------------------------------------
(* Theorems.                                                               *)

\* The rows, the handlers and the set of billed calls keep their types.
THEOREM LeaseTypes == Spec => []LeaseTypeOK
<1>1. LeaseInv => LeaseTypeOK
  BY DEF LeaseInv
<1> QED BY <1>1, InitInv, NextInv, PTL DEF Spec

\* One request to an assistant is paid at most once, however many handlers
\* ask for it under however many keys, wherever they die, whichever answers are
\* lost and whenever leases end (the lesson's and the follow-up's routes with
\* their reservations).
THEOREM PaidAnswerIsOne == Spec => []OnePaidAnswer
<1>1. LeaseInv => OnePaidAnswer
  BY DEF LeaseInv, LeaseTypeOK, HandlersOK, Sent, OnePaidAnswer
<1> QED BY <1>1, InitInv, NextInv, PTL DEF Spec

\* What a response of an assistant's route said stays true: an answer is the
\* one stored under the request, a locked turn is locked for good, and one
\* reported as not sent was not paid.
THEOREM ResponsesStayTrue == Spec => []KeepsWhatItSaid
<1>1. Init => SaidInv
  BY WordsAssumption DEF Init, SaidInv, Told, Words
<1>2. SaidInv => KeepsWhatItSaid
  BY DEF SaidInv, Told, KeepsWhatItSaid
<1> QED BY <1>1, <1>2, InitInv, NextInv, SaidNext, PTL DEF Spec

------------------------------------------------------------------------------
(* The leases implement PaidOnce.                                          *)

\* How a request may go on: it stays, is sealed by a mark, opened again while
\* nobody has paid, or ended.
GoesFrom(print, from, to) ==
  \/ to = from
  \/ from = "open" /\ to = "sealed"
  \/ from = "sealed" /\ to = "open" /\ Buyers(print) = {}
  \/ from = "sealed" /\ to \in {"stored", "unknown"}

\* The rows change for one request at most.
Advances(rows) ==
  \E p \in Prints : /\ GoesFrom(p, Verdict(row, p), Verdict(rows, p))
                    /\ \A q \in Prints \ {p} : Verdict(rows, q) = Verdict(row, q)

\* A request's verdict is its row's.
LEMMA VerdictOfRow ==
  ASSUME NEW rows, OneRow(rows), NEW k \in Keys, rows[k].status # "none",
         rows[k].status \in {"none", "running"} \cup Terminal
  PROVE  Verdict(rows, rows[k].print) =
           CASE rows[k].status = "completed" -> "stored"
             [] rows[k].status = "outcome_unknown" -> "unknown"
             [] rows[k].status = "running" -> IF rows[k].dispatched THEN "sealed" ELSE "open"
<1>1. ASSUME NEW j \in Keys, rows[j].print = rows[k].print, rows[j].status # "none" PROVE j = k
  BY <1>1 DEF OneRow
<1>2. \A s : s # "none" => (Has(rows, rows[k].print, s) <=> rows[k].status = s)
  BY <1>1 DEF Has
<1>3. Sealed(rows, rows[k].print) <=> (rows[k].status = "running" /\ rows[k].dispatched)
  BY <1>1 DEF Sealed
<1> QED
  BY <1>2, <1>3 DEF Verdict, Terminal

\* A request without a row is open.
LEMMA VerdictOfNone ==
  ASSUME NEW rows, NEW print, \A k \in Keys : rows[k].status # "none" => rows[k].print # print
  PROVE  Verdict(rows, print) = "open"
  BY DEF Verdict, Has, Sealed

\* The verdict of a request whose rows are as they were.
LEMMA VerdictStays ==
  ASSUME NEW rows, NEW print,
         \A k \in Keys :
           \/ rows[k].print = row[k].print /\ rows[k].status = row[k].status
              /\ rows[k].dispatched = row[k].dispatched
           \/ (rows[k].status = "none" \/ rows[k].print # print)
              /\ (row[k].status = "none" \/ row[k].print # print)
  PROVE  Verdict(rows, print) = Verdict(row, print)
<1>1. ASSUME NEW s, s # "none" PROVE Has(rows, print, s) <=> Has(row, print, s)
  BY <1>1 DEF Has
<1>2. Sealed(rows, print) <=> Sealed(row, print)
  BY DEF Sealed
<1> QED
  BY <1>1, <1>2 DEF Verdict

\* A running row is of a request.
LEMMA RunningIsAsked ==
  ASSUME LeaseInv, NEW k \in Keys, row[k].status = "running"
  PROVE  row[k].print \in Prints
  BY DEF LeaseInv, RowsOK, Held, HandlersOK

\* Rows that change at one key, and keep its request.
LEMMA OneKeyAdvances ==
  ASSUME LeaseInv, NEW k \in Keys, row[k].print \in Prints, NEW rows,
         \A j \in Keys \ {k} : rows[j] = row[j],
         rows[k].status = "none" \/ rows[k].print = row[k].print,
         GoesFrom(row[k].print, Verdict(row, row[k].print), Verdict(rows, row[k].print))
  PROVE  Advances(rows)
<1>1. ASSUME NEW q \in Prints, q # row[k].print PROVE Verdict(rows, q) = Verdict(row, q)
  BY <1>1, VerdictStays
<1> QED
  BY <1>1 DEF Advances

\* No request changes.
LEMMA NothingAdvances ==
  ASSUME NEW h \in Handlers, handler[h].print \in Prints
  PROVE  Advances(row)
  BY DEF Advances, GoesFrom

\* A sent call ends.
LEMMA EndedAdvances ==
  ASSUME LeaseInv, NEW k \in Keys, row[k].status = "running", row[k].dispatched,
         NEW status \in Terminal, NEW answer \in Handlers \cup {None}
  PROVE  Advances(Ended(k, status, answer))
<1> DEFINE R == Ended(k, status, answer)
           p == row[k].print
<1>1. RowsOK(R) /\ RowsOK(row)
  BY EndedOK DEF LeaseInv
<1>2. /\ \A j \in Keys \ {k} : R[j] = row[j]
      /\ R[k].print = p /\ R[k].status = status
  BY <1>1 DEF RowsOK, Rows, Ended
<1> HIDE DEF R
<1>3. Verdict(row, p) = "sealed"
  BY <1>1, VerdictOfRow DEF RowsOK, Terminal
<1>4. Verdict(R, p) \in {"stored", "unknown"}
  BY <1>1, <1>2, VerdictOfRow DEF RowsOK, Terminal
<1>5. Advances(R)
  BY <1>2, <1>3, <1>4, RunningIsAsked, OneKeyAdvances DEF GoesFrom
<1> QED
  BY <1>5 DEF R

\* A lease is given where the request is open and has no other row.
LEMMA LeasedAdvances ==
  ASSUME LeaseInv, NEW h \in Handlers, handler[h].pc # "idle", NEW rows, RowsOK(rows),
         rows[handler[h].key].status = "none",
         \A k \in Keys : rows[k].status # "none" => rows[k].print # handler[h].print,
         Verdict(row, handler[h].print) = "open",
         \A k \in Keys : rows[k] = row[k] \/ (rows[k].status = "none" /\ row[k].print = handler[h].print)
  PROVE  Advances(Leased(rows, handler[h].key, handler[h].print, h))
<1> DEFINE key == handler[h].key
           p == handler[h].print
           R == Leased(rows, key, p, h)
<1>1. key \in Keys /\ p \in Prints /\ RowsOK(R) /\ rows \in [Keys -> Rows]
  BY LeasedOK DEF LeaseInv, HandlersOK, RowsOK
<1>2. /\ R[key].status = "running" /\ R[key].print = p /\ R[key].dispatched = FALSE
      /\ \A j \in Keys \ {key} : R[j] = rows[j]
  BY <1>1 DEF Leased, NoRow
<1> HIDE DEF R
<1>3. Verdict(R, p) = "open"
  <2>1. Verdict(R, R[key].print) = "open"
    BY <1>1, <1>2, VerdictOfRow DEF RowsOK, Terminal
  <2> QED
    BY <1>2, <2>1
<1>4. ASSUME NEW q \in Prints \ {p} PROVE Verdict(R, q) = Verdict(row, q)
  <2>1. ASSUME NEW k \in Keys
        PROVE  \/ R[k] = row[k]
               \/ (R[k].status = "none" \/ R[k].print # q) /\ (row[k].status = "none" \/ row[k].print # q)
    <3>1. CASE k = key
      BY <1>2, <3>1
    <3>2. CASE k # key
      BY <1>2, <3>2
    <3> QED
      BY <3>1, <3>2
  <2> QED
    BY <2>1, VerdictStays
<1>5. Advances(R)
  BY <1>1, <1>3, <1>4 DEF Advances, GoesFrom
<1> QED
  BY <1>5 DEF R

\* reserve_...
LEMMA ReserveAdvances ==
  ASSUME LeaseInv, NEW h \in Handlers, handler[h].pc # "idle"
  PROVE  Advances(Reserve(handler[h].key, handler[h].print, h).row)
<1> DEFINE key == handler[h].key
           print == handler[h].print
           k == CHOOSE x \in Found(key, print) : TRUE
<1>0. key \in Keys /\ print \in Prints /\ RowsOK(row)
  BY DEF LeaseInv, HandlersOK
<1>1. CASE Found(key, print) = {}
  <2>1. row[key].status = "none" /\ \A j \in Keys : row[j].status # "none" => row[j].print # print
    BY <1>1 DEF Found
  <2>2. Reserve(key, print, h).row = Leased(row, key, print, h)
    BY <1>1 DEF Reserve, Reply
  <2>3. Verdict(row, print) = "open"
    BY <2>1, VerdictOfNone
  <2> QED
    BY <1>0, <2>1, <2>2, <2>3, LeasedAdvances
<1>2. CASE Found(key, print) # {}
  <2>1. k \in Keys /\ row[k].status # "none"
    BY <1>0, <1>2 DEF Found
  <2>2. k # key => row[key].status = "none"
    BY <1>2 DEF Found
  <2> HIDE DEF k
  <2>3. CASE row[k].print = print /\ row[k].status = "running" /\ Takeover(k)
    <3> DEFINE R == [row EXCEPT ![k] = NoRow]
    <3>1. \A g \in Handlers : Sent(g) => handler[g].key # k
      BY <2>3 DEF LeaseInv, RowsOK, Secure, Takeover
    <3>2. RowsOK(R)
      BY <2>1, <3>1, FreedOK
    <3>3. /\ R[key].status = "none"
          /\ \A j \in Keys : R[j].status # "none" => R[j].print # print
      BY <1>0, <2>1, <2>2, <2>3 DEF NoRow, RowsOK, OneRow
    <3>4. Reserve(key, print, h).row = Leased(R, key, print, h)
      BY <1>2, <2>3 DEF Reserve, Reply, k, Terminal
    <3>5. \A j \in Keys : R[j] = row[j] \/ (R[j].status = "none" /\ row[j].print = print)
      BY <1>0, <2>1, <2>3 DEF NoRow, RowsOK
    <3>6. Verdict(row, print) = "open"
      <4>1. Verdict(row, row[k].print) = "open"
        BY <1>0, <2>1, <2>3, VerdictOfRow DEF RowsOK, Terminal, Takeover
      <4> QED
        BY <2>3, <4>1
    <3> HIDE DEF R
    <3> QED
      BY <3>2, <3>3, <3>4, <3>5, <3>6, LeasedAdvances
  <2>4. CASE row[k].print = print /\ row[k].status = "running" /\ row[k].expired /\ ~Takeover(k)
    <3>1. Reserve(key, print, h).row = Ended(k, "outcome_unknown", None)
      BY <1>2, <2>4 DEF Reserve, Reply, k, Terminal
    <3> QED
      BY <2>1, <2>4, <3>1, EndedAdvances DEF Terminal, Takeover
  <2>5. CASE /\ ~(row[k].print = print /\ row[k].status = "running" /\ Takeover(k))
             /\ ~(row[k].print = print /\ row[k].status = "running" /\ row[k].expired /\ ~Takeover(k))
    <3>1. Reserve(key, print, h).row = row
      BY <1>2, <2>5 DEF Reserve, Reply, k, Terminal
    <3> QED
      BY <1>0, <3>1, NothingAdvances
  <2> QED
    BY <2>3, <2>4, <2>5
<1> QED
  BY <1>1, <1>2

\* mark_..._dispatched seals the request of its lease.
LEMMA DispatchAdvances ==
  ASSUME LeaseInv, NEW h \in Handlers, handler[h].pc # "idle"
  PROVE  Advances(Dispatch(handler[h].key, h).row)
<1> DEFINE key == handler[h].key
           R == [row EXCEPT ![key].dispatched = TRUE]
           p == row[key].print
<1>0. key \in Keys /\ RowsOK(row) /\ handler[h].print \in Prints
  BY DEF LeaseInv, HandlersOK
<1>1. CASE row[key].status = "running" /\ row[key].token = h /\ ~row[key].expired
  <2>1. RowsOK(R) /\ Dispatch(key, h).row = R
    <3>1. Dispatch(key, h).row = R
      BY <1>1 DEF Dispatch, Reply
    <3> QED
      BY <3>1, DispatchOK
  <2>2. /\ \A j \in Keys \ {key} : R[j] = row[j]
        /\ R[key].print = p /\ R[key].status = "running" /\ R[key].dispatched
    BY <1>0, <1>1 DEF RowsOK, Rows
  <2> HIDE DEF R
  <2>3. Verdict(row, p) \in {"open", "sealed"}
    BY <1>0, <1>1, VerdictOfRow DEF RowsOK, Terminal
  <2>4. Verdict(R, p) = "sealed"
    <3>1. Verdict(R, R[key].print) = "sealed"
      BY <1>0, <2>1, <2>2, VerdictOfRow DEF RowsOK, Terminal
    <3> QED
      BY <2>2, <3>1
  <2> QED
    BY <1>0, <1>1, <2>1, <2>2, <2>3, <2>4, RunningIsAsked, OneKeyAdvances DEF GoesFrom
<1>2. CASE ~(row[key].status = "running" /\ row[key].token = h /\ ~row[key].expired)
  BY <1>0, <1>2, NothingAdvances DEF Dispatch, Reply
<1> QED
  BY <1>1, <1>2

\* complete_... and mark_..._outcome_unknown.
LEMMA EndAdvances ==
  ASSUME LeaseInv, NEW h \in Handlers, handler[h].pc # "idle",
         NEW status \in Terminal, NEW answer \in Handlers \cup {None}
  PROVE  Advances(End(handler[h].key, handler[h].print, h, status, answer).row)
<1> DEFINE key == handler[h].key
           R == End(key, handler[h].print, h, status, answer).row
<1>0. key \in Keys /\ RowsOK(row) /\ handler[h].print \in Prints
  BY DEF LeaseInv, HandlersOK
<1>1. row[key].status \in {"none", "running"} \cup Terminal
  BY <1>0 DEF RowsOK, Rows
<1>2. \/ R = row
      \/ row[key].status = "running" /\ row[key].dispatched /\ R = Ended(key, status, answer)
  BY <1>1 DEF End, Reply, Terminal
<1> QED
  BY <1>0, <1>2, EndedAdvances, NothingAdvances

\* release_... opens a request that nobody has paid.
LEMMA ReleaseAdvances ==
  ASSUME LeaseInv, NEW h \in Handlers, handler[h].pc # "idle", ~Sent(h)
  PROVE  Advances(Release(handler[h].key, h).row)
<1> DEFINE key == handler[h].key
           R == [row EXCEPT ![key] = NoRow]
           p == row[key].print
<1>0. key \in Keys /\ RowsOK(row) /\ handler[h].print \in Prints
  BY DEF LeaseInv, HandlersOK
<1>1. CASE row[key].status = "running" /\ row[key].token = h
  <2>1. Release(key, h).row = R
    BY <1>1 DEF Release, Reply
  <2>2. R[key].status = "none" /\ \A j \in Keys \ {key} : R[j] = row[j]
    BY <1>0 DEF RowsOK, NoRow
  <2> HIDE DEF R
  <2>3. Verdict(row, p) \in {"open", "sealed"}
    BY <1>0, <1>1, VerdictOfRow DEF RowsOK, Terminal
  <2>4. Verdict(R, p) = "open"
    <3>1. \A j \in Keys : R[j].status # "none" => R[j].print # p
      BY <1>0, <1>1, <2>2 DEF RowsOK, OneRow
    <3> QED
      BY <3>1, VerdictOfNone
  <2>5. Buyers(p) = {}
    <3>1. ASSUME NEW g \in billed, handler[g].print = p PROVE FALSE
      <4>1. g \in Handlers /\ Secure(row, g)
        BY <1>0 DEF RowsOK, Sent, LeaseInv, LeaseTypeOK
      <4>2. handler[g].key = key
        BY <1>0, <1>1, <3>1, <4>1 DEF RowsOK, OneRow, Secure
      <4> QED
        BY <1>1, <4>1, <4>2 DEF Secure, Sent
    <3> QED
      BY <3>1 DEF Buyers
  <2> QED
    BY <1>0, <1>1, <2>1, <2>2, <2>3, <2>4, <2>5, RunningIsAsked, OneKeyAdvances DEF GoesFrom
<1>2. CASE ~(row[key].status = "running" /\ row[key].token = h)
  BY <1>0, <1>2, NothingAdvances DEF Release, Reply
<1> QED
  BY <1>1, <1>2

------------------------------------------------------------------------------
(* Every step is one of PaidOnce, or changes nothing of it.                *)

\* A change of rows, with the payments as they are.
LEMMA AdvancesIsPromised ==
  ASSUME Advances(row'), \A p \in Prints : Buyers(p)' = Buyers(p)
  PROVE  [Promise!Next]_(Promise!paidVars)
<1> DEFINE V == [p \in Prints |-> Verdict(row, p)]
           B == [p \in Prints |-> Buyers(p)]
<1>1. PICK p \in Prints : /\ GoesFrom(p, V[p], V'[p])
                          /\ \A q \in Prints \ {p} : V'[q] = V[q]
  BY DEF Advances
<1>2. B' = B
  OBVIOUS
<1>3. V' = [V EXCEPT ![p] = V'[p]]
  BY <1>1
<1>4. B[p] = Buyers(p)
  OBVIOUS
<1>5. CASE V'[p] = V[p]
  BY <1>2, <1>3, <1>5 DEF Promise!paidVars
<1>6. CASE V[p] = "open" /\ V'[p] = "sealed"
  <2>1. Promise!Seal(p)
    BY <1>2, <1>3, <1>6 DEF Promise!Seal, Promise!Become
  <2> QED
    BY <2>1 DEF Promise!Next
<1>7. CASE V[p] = "sealed" /\ V'[p] = "open" /\ Buyers(p) = {}
  <2>1. Promise!Unseal(p)
    BY <1>2, <1>3, <1>4, <1>7 DEF Promise!Unseal, Promise!Become
  <2> QED
    BY <2>1 DEF Promise!Next
<1>8. CASE V[p] = "sealed" /\ V'[p] = "stored"
  <2>1. Promise!Store(p)
    BY <1>2, <1>3, <1>8 DEF Promise!Store, Promise!Become
  <2> QED
    BY <2>1 DEF Promise!Next
<1>9. CASE V[p] = "sealed" /\ V'[p] = "unknown"
  <2>1. V' = [q \in Prints |-> IF q \in {p} THEN "unknown" ELSE V[q]]
    BY <1>3, <1>9
  <2>2. Promise!GiveUp({p})
    BY <1>2, <1>9, <2>1 DEF Promise!GiveUp
  <2> QED
    BY <2>2 DEF Promise!Next
<1> QED
  BY <1>1, <1>5, <1>6, <1>7, <1>8, <1>9 DEF GoesFrom

\* A call that may be paid is of a sealed request, or one that has ended, which
\* nobody has bought.
LEMMA CallIsPromised ==
  ASSUME LeaseInv, NEW h \in Handlers, handler[h].pc = "call", row' = row, billed' = billed \cup {h},
         \A g \in Handlers : handler'[g].print = handler[g].print
  PROVE  Promise!Next
<1> DEFINE V == [p \in Prints |-> Verdict(row, p)]
           B == [p \in Prints |-> Buyers(p)]
           e == handler[h].print
           k == handler[h].key
<1>1. e \in Prints /\ Secure(row, h) /\ billed \subseteq Handlers
  BY DEF LeaseInv, HandlersOK, RowsOK, Sent, LeaseTypeOK
<1>2. V[e] # "open"
  <2>1. k \in Keys /\ row[k].status # "none" /\ row[k].print = e /\ row[k].dispatched
        /\ row[k].status \in {"none", "running"} \cup Terminal /\ OneRow(row)
    BY <1>1 DEF Secure, LeaseInv, RowsOK, Rows
  <2>2. Verdict(row, row[k].print) # "open"
    BY <2>1, VerdictOfRow DEF Terminal
  <2> QED
    BY <1>1, <2>1, <2>2
<1>3. B[e] = {}
  <2>1. ASSUME NEW g \in billed, handler[g].print = e PROVE FALSE
    BY <1>1, <2>1 DEF LeaseInv, HandlersOK, Sent, Past
  <2> QED
    BY <1>1, <2>1 DEF Buyers
<1>4. B' = [B EXCEPT ![e] = {h}]
  <2>1. ASSUME NEW q \in Prints PROVE Buyers(q)' = IF q = e THEN {h} ELSE Buyers(q)
    <3>1. Buyers(q)' = Buyers(q) \cup {g \in {h} : handler[g].print = q}
      BY <1>1 DEF Buyers
    <3> QED
      BY <1>1, <1>3, <3>1
  <2> QED
    BY <1>1, <2>1
<1>5. V' = V
  OBVIOUS
<1>6. Promise!Buy(e, h)
  BY <1>2, <1>3, <1>4, <1>5 DEF Promise!Buy
<1> QED
  BY <1>1, <1>6 DEF Promise!Next

\* The rows go on, and nobody is billed.
LEMMA RowsGoOn ==
  ASSUME LeaseInv, Advances(row'), billed' = billed,
         \A g \in billed : handler'[g].print = handler[g].print
  PROVE  [Promise!Next]_(Promise!paidVars)
  BY AdvancesIsPromised DEF Buyers

\* Rows that stay as they are to PaidOnce, and nobody is billed.
LEMMA RowsStay ==
  ASSUME LeaseInv, billed' = billed, \A g \in billed : handler'[g].print = handler[g].print,
         \A k \in Keys : /\ row'[k].print = row[k].print /\ row'[k].status = row[k].status
                         /\ row'[k].dispatched = row[k].dispatched
  PROVE  [Promise!Next]_(Promise!paidVars)
<1>1. \A p \in Prints : Verdict(row', p) = Verdict(row, p)
  BY VerdictStays
<1>2. \A p \in Prints : Buyers(p)' = Buyers(p)
  BY DEF Buyers
<1>3. UNCHANGED Promise!paidVars
  BY <1>1, <1>2 DEF Promise!paidVars
<1> QED
  BY <1>3

\* A handler keeps its request once it has one.
LEMMA PrintsStay ==
  ASSUME LeaseInv, NEW h \in Handlers, (\E pc : Go(h, pc)) \/ (\E what : Respond(h, what))
  PROVE  \A g \in Handlers : handler'[g].print = handler[g].print
  BY DEF LeaseInv, LeaseTypeOK, States, Go, Respond

\* A step with an RPC.
LEMMA RpcIsPromised ==
  ASSUME LeaseInv, NEW h \in Handlers,
         Reserves(h) \/ Marks(h) \/ Completes(h) \/ MarksUnknown(h) \/ Releases(h) \/ Breaks(h)
  PROVE  [Promise!Next]_(Promise!paidVars)
<1>1. billed' = billed /\ handler[h].pc # "idle" /\ handler[h].print \in Prints /\ billed \subseteq Handlers
  BY DEF Reserves, Marks, Completes, MarksUnknown, Releases, Breaks, LeaseInv, HandlersOK, LeaseTypeOK
<1>2. (\E pc : Go(h, pc)) \/ (\E what : Respond(h, what))
  BY DEF Reserves, Marks, Completes, MarksUnknown, Releases, Breaks
<1>3. row' = row \/ row' = Ran(h)
  BY DEF Reserves, Marks, Completes, MarksUnknown, Releases, Breaks, Ran
<1>4. handler[h].pc \in {"reserve", "mark", "markFree", "complete", "again", "unknown", "release",
                         "releaseUnsent"}
  BY DEF Reserves, Marks, Completes, MarksUnknown, Releases, Breaks
<1>5. Advances(Ran(h))
  <2>1. CASE handler[h].pc = "reserve"
    BY <1>1, <2>1, ReserveAdvances DEF Ran
  <2>2. CASE handler[h].pc \in {"mark", "markFree"}
    BY <1>1, <2>2, DispatchAdvances DEF Ran
  <2>3. CASE handler[h].pc \in {"complete", "again"}
    BY <1>1, <2>3, EndAdvances DEF Ran, Terminal
  <2>4. CASE handler[h].pc = "unknown"
    BY <1>1, <2>4, EndAdvances DEF Ran, Terminal
  <2>5. CASE handler[h].pc \in {"release", "releaseUnsent"}
    <3>1. ~Sent(h)
      BY <2>5 DEF Sent, LeaseInv, HandlersOK, Past
    <3> QED
      BY <1>1, <2>5, <3>1, ReleaseAdvances DEF Ran
  <2> QED
    BY <1>4, <2>1, <2>2, <2>3, <2>4, <2>5
<1>6. Advances(row')
  BY <1>1, <1>3, <1>5, NothingAdvances
<1> QED
  BY <1>1, <1>2, <1>6, PrintsStay, RowsGoOn

\* The other steps.
LEMMA OtherIsPromised ==
  ASSUME LeaseInv, NEW h \in Handlers, Calls(h) \/ CallsFree(h) \/ Die(h)
  PROVE  [Promise!Next]_(Promise!paidVars)
<1>1. row' = row /\ billed \subseteq Handlers /\ \A g \in Handlers : handler'[g].print = handler[g].print
  BY PrintsStay DEF Calls, CallsFree, Die, LeaseInv, LeaseTypeOK, States
<1>2. billed' = billed \/ (handler[h].pc = "call" /\ billed' = billed \cup {h})
  BY DEF Calls, CallsFree, Die
<1>3. CASE billed' = billed
  BY <1>1, <1>3, RowsStay
<1>4. CASE handler[h].pc = "call" /\ billed' = billed \cup {h}
  BY <1>1, <1>4, CallIsPromised
<1> QED
  BY <1>2, <1>3, <1>4

\* Every step of the leases is one of PaidOnce or leaves what it promises.
LEMMA LeaseStepIsPromised == LeaseInv /\ [Next]_vars => [Promise!Next]_(Promise!paidVars)
<1> SUFFICES ASSUME LeaseInv, [Next]_vars
             PROVE  [Promise!Next]_(Promise!paidVars)
  OBVIOUS
<1>1. ASSUME NEW k \in Keys, Expire(k) PROVE [Promise!Next]_(Promise!paidVars)
  BY <1>1, RowsStay DEF Expire, LeaseInv, LeaseTypeOK, Rows
<1>2. ASSUME NEW h \in Handlers, NEW k \in Keys, NEW p \in Prints, Arrive(h, k, p)
      PROVE  [Promise!Next]_(Promise!paidVars)
  <2>1. \A g \in billed : g # h /\ handler'[g] = handler[g]
    BY <1>2 DEF Arrive, LeaseInv, LeaseTypeOK, HandlersOK, Past
  <2> QED
    BY <1>2, <2>1, RowsStay DEF Arrive
<1>3. CASE UNCHANGED vars
  BY <1>3, RowsStay DEF vars
<1> QED
  BY <1>1, <1>2, <1>3, RpcIsPromised, OtherIsPromised DEF Next

\* At the start every request is open, and nobody has paid.
LEMMA LeaseInitIsPromised == Init => Promise!Init
<1> SUFFICES ASSUME Init PROVE Promise!Init
  OBVIOUS
<1>1. ASSUME NEW p \in Prints PROVE Verdict(row, p) = "open" /\ Buyers(p) = {}
  <2>1. \A k \in Keys : row[k].status = "none"
    BY DEF Init, NoRow
  <2> QED
    BY <2>1, VerdictOfNone DEF Buyers, Init
<1>2. /\ [p \in Prints |-> Verdict(row, p)] \in [Prints -> {"open", "sealed", "stored", "unknown"}]
      /\ [p \in Prints |-> Buyers(p)] \in [Prints -> SUBSET Handlers]
  BY <1>1
<1> QED
  BY <1>1, <1>2 DEF Promise!Init, Promise!PaidTypeOK

\* The reservations of the follow-up and of the lesson implement PaidOnce: a
\* request is bought only behind its mark, which comes off only if nobody paid,
\* and an answer, once stored, stays.
THEOREM LeasesImplementPaidOnce == Spec => Promise!Spec
<1>1. Spec => []LeaseInv
  BY InitInv, NextInv, PTL DEF Spec
<1> QED
  BY <1>1, LeaseInitIsPromised, LeaseStepIsPromised, PTL DEF Spec, Promise!Spec
------------------------------------------------------------------------------
(***************************************************************************)
(* Sample runs, for any number of handlers, keys, codes and any day and    *)
(* limit: one run at a time, and what is shown is what was recorded.       *)
(*                                                                         *)
(* Whether a row still runs depends on the clock, so the inductive invariant *)
(* keeps the time: a handler that has not answered is younger than Duration *)
(* (Arrived), and one that executes has a running row whose lease ends no  *)
(* sooner than Lease after it arrived (RowOfHandler).  Duration < Lease then *)
(* keeps a sweep from failing the row under a handler that executes, and a *)
(* second handler from being admitted (OneHolder).                         *)
(***************************************************************************)

RunRows ==
  [status : {"none", "running", "completed", "failed"}, code : Codes \cup {None}, date : Nat,
   expires : Nat, result : Handlers \cup {None}]
RunHandlers ==
  [pc : {"idle", "reserve", "execute", "complete", "fail", "recover", "done", "gone"},
   key : Keys \cup {None}, code : Codes \cup {None}, arrived : Nat, alive : BOOLEAN]

RunTypes ==
  /\ execution \in [Keys -> RunRows] /\ runner \in [Handlers -> RunHandlers]
  /\ shown \in [Handlers -> Handlers \cup {None}] /\ clock \in Nat

\* The handlers a key was admitted for, and those that still have to finish it.
Admitted(h) == runner[h].pc \in {"execute", "complete", "fail", "recover"}
Holds(h) == runner[h].pc \in {"execute", "complete", "fail"}
Executes(h) == runner[h].alive /\ runner[h].pc = "execute"

Arrived ==
  \A h \in Handlers :
    /\ runner[h].pc = "idle" => shown[h] = None /\ ~ runner[h].alive
    /\ runner[h].pc # "idle" =>
         runner[h].key \in Keys /\ runner[h].code \in Codes /\ runner[h].arrived <= clock
    /\ runner[h].alive /\ runner[h].pc # "done" => clock <= runner[h].arrived + Duration

RowOfHandler ==
  \A h \in Handlers :
    /\ Admitted(h) => /\ execution[runner[h].key].status # "none"
                      /\ execution[runner[h].key].code = runner[h].code
    /\ Holds(h) => execution[runner[h].key].status \in {"running", "failed"}
    /\ Executes(h) => /\ execution[runner[h].key].status = "running"
                      /\ runner[h].arrived + Lease <= execution[runner[h].key].expires

OneHolder ==
  \A g, h \in Handlers :
    /\ Holds(g) /\ Holds(h) /\ runner[g].key = runner[h].key => g = h
    /\ Executes(g) /\ Executes(h) => g = h

ResultOfKey ==
  \A k \in Keys : execution[k].status = "completed" =>
    /\ execution[k].result \in Handlers
    /\ runner[execution[k].result].pc # "idle"
    /\ runner[execution[k].result].key = k
    /\ runner[execution[k].result].code = execution[k].code

\* What a response shows, its key recorded, of its own code.
Recorded ==
  \A h \in Handlers : shown[h] # None =>
    /\ execution[runner[h].key].status = "completed"
    /\ execution[runner[h].key].result = shown[h]
    /\ runner[shown[h]].code = runner[h].code

RunSafe == RunTypes /\ Arrived /\ RowOfHandler /\ OneHolder /\ ResultOfKey /\ Recorded

\* Nothing has run.
LEMMA RunsInit == ASSUME Runs!RunAssumption, Runs!Init PROVE RunSafe
  BY DEF Runs!RunAssumption, Runs!Init, RunSafe, RunTypes, RunRows, RunHandlers, Runs!NoRow,
      Runs!Idle, Arrived,
    RowOfHandler, OneHolder, ResultOfKey, Recorded, Admitted, Holds, Executes

\* What the sweep of expired runs leaves of a row.
LEMMA SweptRow ==
  ASSUME NEW r \in [Keys -> RunRows], NEW now \in Nat
  PROVE  /\ Runs!Swept(r, now) \in [Keys -> RunRows]
         /\ \A k \in Keys :
              \/ Runs!Swept(r, now)[k] = r[k] /\ (r[k].status = "running" => r[k].expires > now)
              \/ /\ r[k].status = "running" /\ r[k].expires <= now
                 /\ Runs!Swept(r, now)[k].status = "failed"
                 /\ Runs!Swept(r, now)[k].code = r[k].code
<1> DEFINE Failed(k) == [r[k] EXCEPT !.status = "failed", !.result = None]
<1>1. \A k \in Keys : r[k] \in RunRows /\ r[k].expires \in Nat
  BY DEF RunRows
<1>2. \A k \in Keys : Failed(k) \in RunRows /\ Failed(k).status = "failed"
          /\ Failed(k).code = r[k].code
  BY <1>1 DEF RunRows
<1>3. \A k \in Keys :
        Runs!Swept(r, now)[k] = IF r[k].status # "running"
            \/ r[k].expires > now THEN r[k] ELSE Failed(k)
  BY DEF Runs!Swept
<1>4. \A k \in Keys : Runs!Swept(r, now)[k] \in RunRows
  BY <1>1, <1>2, <1>3
<1>5. Runs!Swept(r, now) \in [Keys -> RunRows]
  BY <1>4 DEF Runs!Swept
<1> HIDE DEF Failed
<1>6. QED
  BY <1>1, <1>2, <1>3, <1>5

\* A reservation leaves a row, fails it when it has expired, or admits its key, which
\* had none, while nothing runs.
Reserved(R, key, code, now, is) ==
  /\ \A k \in Keys :
       \/ R[k] = execution[k]
       \/ /\ execution[k].status = "running" /\ execution[k].expires <= now
          /\ R[k].status = "failed" /\ R[k].code = execution[k].code
       \/ /\ k = key /\ is = "new" /\ R[k].status = "running"
          /\ R[k].code = code /\ R[k].expires = now + Lease
  /\ is = "new" => /\ execution[key].status = "none"
                   /\ R[key].status = "running" /\ R[key].code = code
                   /\ R[key].expires = now + Lease
                   /\ \A k \in Keys : execution[k].status = "running" => execution[k].expires <= now
  /\ is = "completed" => R[key] = execution[key] /\ execution[key].status = "completed" /\ execution[key].code = code

\* What reserve makes of the rows.
LEMMA ReservedRows ==
  ASSUME Runs!RunAssumption, RunTypes, NEW key \in Keys, NEW code \in Codes, NEW now \in Nat
  PROVE  /\ Runs!Reserve(key, code, now).row \in [Keys -> RunRows]
         /\ Reserved(Runs!Reserve(key, code, now).row, key, code, now,
              Runs!Reserve(key, code, now).is)
<1> DEFINE r == Runs!Swept(execution, now)
           a == Runs!Reserve(key, code, now)
<1>1. /\ r \in [Keys -> RunRows]
      /\ \A k \in Keys :
           \/ r[k] = execution[k] /\ (execution[k].status = "running" => execution[k].expires > now)
           \/ /\ execution[k].status = "running" /\ execution[k].expires <= now
              /\ r[k].status = "failed" /\ r[k].code = execution[k].code
  BY SweptRow DEF RunTypes
<1>2. CASE r[key].status = "none"
  <2> DEFINE date == now \div Day
             new == [status |-> "running", code |-> code, date |-> date,
                     expires |-> now + Lease, result |-> None]
  <2>1. a = Runs!Admit(r, key, code, now)
    BY <1>2 DEF Runs!Reserve
  <2>2. new \in RunRows
    BY DEF Runs!RunAssumption, RunRows
  <2>3. CASE \E k \in Keys : r[k].status = "running"
    <3>1. a.is = "busy" /\ a.row = r
      BY <2>1, <2>3 DEF Runs!Admit, Runs!Answer
    <3>2. QED
      BY <3>1, <1>1 DEF Reserved
  <2>4. CASE ~ (\E k \in Keys : r[k].status = "running") /\ Runs!Used(r, date) + 1 > Limit
    <3>1. a.is = "quota" /\ a.row = r
      BY <2>1, <2>4 DEF Runs!Admit, Runs!Answer
    <3>2. QED
      BY <3>1, <1>1 DEF Reserved
  <2>5. CASE ~ (\E k \in Keys : r[k].status = "running") /\ ~ (Runs!Used(r, date) + 1 > Limit)
    <3>1. a.is = "new" /\ a.row = [r EXCEPT ![key] = new]
      BY <2>1, <2>5 DEF Runs!Admit, Runs!Answer
    <3>2. a.row \in [Keys -> RunRows] /\ a.row[key] = new /\ \A k \in Keys \ {key} : a.row[k] = r[k]
      BY <3>1, <2>2, <1>1
    <3>3. new.status = "running" /\ new.code = code /\ new.expires = now + Lease
      OBVIOUS
    <3>4. execution[key].status = "none"
      BY <1>1, <1>2
    <3>5. \A k \in Keys : execution[k].status = "running" => execution[k].expires <= now
      BY <1>1, <2>5
    <3> HIDE DEF a, r, new
    <3>6. QED
      BY <3>1, <3>2, <3>3, <3>4, <3>5, <1>1 DEF Reserved, a
  <2>6. QED
    BY <2>3, <2>4, <2>5
<1>3. CASE r[key].status # "none" /\ r[key].code # code
  <2>1. a.is = "conflict" /\ a.row = r
    BY <1>3 DEF Runs!Reserve, Runs!Answer
  <2>2. QED
    BY <2>1, <1>1 DEF Reserved
<1>4. CASE r[key].status # "none" /\ r[key].code = code
  <2>1. a.is = r[key].status /\ a.row = r
    BY <1>4 DEF Runs!Reserve, Runs!Answer
  <2>2. execution[key].status # "new" /\ r[key].status # "new"
    BY <1>1 DEF RunTypes, RunRows
  <2>3. r[key].status = "completed" => r[key] = execution[key]
    BY <1>1
  <2> HIDE DEF a, r
  <2>4. QED
    BY <2>1, <2>2, <2>3, <1>1, <1>4 DEF Reserved, a
<1>5. QED
  BY <1>2, <1>3, <1>4

\* The end of a run changes its own row, if it is still running.
LEMMA FinishedRows ==
  ASSUME RunTypes, NEW key \in Keys, NEW status \in {"completed", "failed"},
         NEW result \in Handlers \cup {None}
  PROVE  LET R == Runs!Finish(execution, key, status, result)
         IN /\ R \in [Keys -> RunRows]
            /\ \A k \in Keys \ {key} : R[k] = execution[k]
            /\ execution[key].status # "running" => R[key] = execution[key]
            /\ execution[key].status = "running" =>
                 R[key].status = status /\ R[key].code = execution[key].code /\ R[key].result = result
<1> DEFINE R == Runs!Finish(execution, key, status, result)
           new == [execution[key] EXCEPT !.status = status, !.result = result]
<1>1. execution \in [Keys -> RunRows] /\ execution[key] \in RunRows
  BY DEF RunTypes
<1>2. new \in RunRows /\ new.status = status /\ new.code = execution[key].code /\ new.result = result
  BY <1>1 DEF RunRows
<1>3. CASE execution[key].status # "running"
  BY <1>1, <1>3 DEF Runs!Finish
<1>4. CASE execution[key].status = "running"
  <2>1. R = [execution EXCEPT ![key] = new]
    BY <1>1, <1>4 DEF Runs!Finish
  <2> HIDE DEF new, R
  <2>2. R \in [Keys -> RunRows] /\ R[key] = new /\ \A k \in Keys \ {key} : R[k] = execution[k]
    BY <2>1, <1>1, <1>2
  <2>3. QED
    BY <2>2, <1>2, <1>4 DEF R
<1>5. QED
  BY <1>3, <1>4

\* What a handler's step may do to a handler but move it.
RunMoves(h, pc) ==
  /\ runner' \in [Handlers -> RunHandlers]
  /\ \A g \in Handlers \ {h} : runner'[g] = runner[g]
  /\ runner'[h].key = runner[h].key /\ runner'[h].code = runner[h].code
  /\ runner'[h].arrived = runner[h].arrived /\ runner'[h].alive = runner[h].alive
  /\ runner'[h].pc = IF runner[h].alive THEN pc ELSE "gone"

\* A handler goes on to its next step.
LEMMA Went ==
  ASSUME RunTypes, NEW h \in Handlers,
         NEW pc \in {"execute", "complete", "fail", "recover", "done", "gone"}, Runs!Go(h, pc)
  PROVE  RunMoves(h, pc)
<1> DEFINE next == IF runner[h].alive THEN pc ELSE "gone"
           new == [runner[h] EXCEPT !.pc = next]
<1>1. runner \in [Handlers -> RunHandlers] /\ runner[h] \in RunHandlers
  BY DEF RunTypes
<1>2. /\ new \in RunHandlers /\ new.pc = next /\ new.key = runner[h].key
      /\ new.code = runner[h].code
      /\ new.arrived = runner[h].arrived /\ new.alive = runner[h].alive
  BY <1>1 DEF RunHandlers
<1>3. runner' = [runner EXCEPT ![h] = new]
  BY <1>1 DEF Runs!Go
<1> HIDE DEF new
<1>4. QED
  BY <1>1, <1>2, <1>3 DEF RunMoves

\* A handler answers, and shows its result if it is still heard.
LEMMA Responds ==
  ASSUME RunTypes, NEW h \in Handlers, NEW result \in Handlers \cup {None}, Runs!Respond(h, result)
  PROVE  /\ RunMoves(h, "done")
         /\ shown' \in [Handlers -> Handlers \cup {None}]
         /\ \A g \in Handlers \ {h} : shown'[g] = shown[g]
         /\ shown'[h] = IF runner[h].alive THEN result ELSE None
  BY Went DEF Runs!Respond, RunTypes

\* A reservation, whose answer starts a run, or ends the handler with a recorded result
\* or none.
LEMMA ReservingStep ==
  ASSUME Runs!RunAssumption, RunSafe, NEW h \in Handlers, NEW now \in Nat, NEW is,
         runner[h].pc \in {"reserve", "recover"}, runner[h].arrived <= now, now <= clock,
         clock' = clock, execution' \in [Keys -> RunRows],
         Reserved(execution', runner[h].key, runner[h].code, now, is),
         \/ is = "new" /\ RunMoves(h, "execute") /\ shown' = shown
         \/ /\ RunMoves(h, "done")
            /\ shown' \in [Handlers -> Handlers \cup {None}]
            /\ \A g \in Handlers \ {h} : shown'[g] = shown[g]
            /\ shown'[h] # None => is = "completed" /\ shown'[h] = execution'[runner[h].key].result
  PROVE  RunSafe'
<1> USE DEF RunSafe
<1> DEFINE key == runner[h].key
           code == runner[h].code
<1>2. /\ key \in Keys /\ code \in Codes /\ clock' = clock
      /\ now \in Nat /\ runner[h].arrived <= now /\ now <= clock /\ runner[h].arrived \in Nat
      /\ clock \in Nat
  BY DEF RunTypes, RunHandlers, Arrived
<1>3. execution' \in [Keys -> RunRows] /\ Reserved(execution', key, code, now, is)
  OBVIOUS
<1>5. \/ is = "new" /\ RunMoves(h, "execute") /\ shown' = shown
      \/ /\ RunMoves(h, "done")
         /\ shown' \in [Handlers -> Handlers \cup {None}]
         /\ \A g \in Handlers \ {h} : shown'[g] = shown[g]
         /\ shown'[h] # None => is = "completed" /\ shown'[h] = execution'[key].result
  OBVIOUS
<1>a. \A g \in Handlers : Executes(g) => execution[runner[g].key].expires > now
  BY <1>2 DEF Arrived, RowOfHandler, Runs!RunAssumption, RunTypes, RunHandlers, RunRows, Executes
<1>6. RunTypes'
  BY <1>2, <1>3, <1>5 DEF RunTypes, RunMoves
<1>7. Arrived'
  BY <1>2, <1>5 DEF Arrived, RunMoves
<1>8. RowOfHandler'
  <2>1. ASSUME NEW g \in Handlers \ {h}
        PROVE  /\ Admitted(g)' => /\ execution'[runner'[g].key].status # "none"
                                  /\ execution'[runner'[g].key].code = runner'[g].code
               /\ Holds(g)' => execution'[runner'[g].key].status \in {"running", "failed"}
               /\ Executes(g)' => /\ execution'[runner'[g].key].status = "running"
                                  /\ runner'[g].arrived + Lease <= execution'[runner'[g].key].expires
    <3>1. runner'[g] = runner[g]
      BY <1>5 DEF RunMoves
    <3>2. CASE Admitted(g)
      <4>1. runner[g].key \in Keys /\ execution[runner[g].key].status # "none"
        BY <3>2 DEF Admitted, Arrived, RowOfHandler
      <4>2. \/ execution'[runner[g].key] = execution[runner[g].key]
            \/ /\ execution[runner[g].key].status = "running" /\ execution[runner[g].key].expires <= now
               /\ execution'[runner[g].key].status = "failed"
               /\ execution'[runner[g].key].code = execution[runner[g].key].code
        BY <1>3, <4>1 DEF Reserved
      <4>3. execution[runner[g].key].expires \in Nat
        BY <4>1 DEF RunTypes, RunRows
      <4>4. Executes(g) => execution'[runner[g].key] = execution[runner[g].key]
        BY <4>2, <4>3, <1>2, <1>a
      <4>5. QED
        BY <3>1, <3>2, <4>2, <4>4 DEF Admitted, Holds, Executes, RowOfHandler
    <3>3. CASE ~ Admitted(g)
      BY <3>1, <3>3 DEF Admitted, Holds, Executes
    <3>4. QED
      BY <3>2, <3>3
  <2>2. /\ Admitted(h)' => /\ execution'[runner'[h].key].status # "none"
                           /\ execution'[runner'[h].key].code = runner'[h].code
        /\ Holds(h)' => execution'[runner'[h].key].status \in {"running", "failed"}
        /\ Executes(h)' => /\ execution'[runner'[h].key].status = "running"
                           /\ runner'[h].arrived + Lease <= execution'[runner'[h].key].expires
    <3>1. CASE is = "new" /\ RunMoves(h, "execute") /\ shown' = shown
      <4>1. execution'[key].status = "running" /\ execution'[key].code = code /\ execution'[key].expires = now + Lease
        BY <1>3, <3>1 DEF Reserved
      <4>2. runner'[h].key = key /\ runner'[h].code = code
                /\ runner'[h].arrived = runner[h].arrived
        BY <1>5 DEF RunMoves
      <4>3. runner[h].arrived + Lease <= now + Lease
        BY <1>2 DEF Runs!RunAssumption
      <4>4. QED
        BY <4>1, <4>2, <4>3
    <3>2. CASE RunMoves(h, "done")
      BY <3>2, <1>5 DEF RunMoves, Admitted, Holds, Executes
    <3>3. QED
      BY <3>1, <3>2
  <2>3. QED
    BY <2>1, <2>2 DEF RowOfHandler
<1>9. OneHolder'
  <2>1. CASE is = "new" /\ RunMoves(h, "execute") /\ shown' = shown
    <3>1. \A g \in Handlers : Holds(g) => runner[g].key # key
      BY <1>3, <2>1 DEF Reserved, RowOfHandler, Holds
    <3>2. \A g \in Handlers : ~ Executes(g)
      <4>1. SUFFICES ASSUME NEW g \in Handlers, Executes(g) PROVE FALSE
        OBVIOUS
      <4>2. runner[g].key \in Keys /\ execution[runner[g].key].status = "running"
        BY <4>1 DEF Executes, RowOfHandler, Arrived
      <4>3. execution[runner[g].key].expires \in Nat /\ execution[runner[g].key].expires <= now
        BY <1>3, <2>1, <4>2 DEF Reserved, RunTypes, RunRows
      <4>4. QED
        BY <4>1, <4>3, <1>2, <1>a
    <3>3. \A g \in Handlers \ {h} : runner'[g] = runner[g]
      BY <1>5 DEF RunMoves
    <3>4. runner'[h].key = key
      BY <1>5 DEF RunMoves
    <3>5. QED
      BY <3>1, <3>2, <3>3, <3>4 DEF OneHolder, Holds, Executes
  <2>2. CASE RunMoves(h, "done")
    BY <2>2, <1>5 DEF OneHolder, RunMoves, Holds, Executes
  <2>3. QED
    BY <2>1, <2>2
<1>10. ResultOfKey'
  BY <1>2, <1>3, <1>5 DEF ResultOfKey, RunMoves, Reserved
<1>11. Recorded'
  BY <1>2, <1>3, <1>5 DEF Recorded, ResultOfKey, RunMoves, Reserved, Arrived
<1>12. QED
  BY <1>6, <1>7, <1>8, <1>9, <1>10, <1>11

\* An execution is reserved, replayed or refused.
LEMMA ReservesStep ==
  ASSUME Runs!RunAssumption, RunSafe, NEW h \in Handlers, Runs!Reserves(h)
  PROVE  RunSafe'
<1> DEFINE key == runner[h].key
           code == runner[h].code
<1>1. PICK now \in runner[h].arrived..clock :
        /\ execution' = Runs!Reserve(key, code, now).row
        /\ IF Runs!Reserve(key, code, now).is = "new" /\ runner[h].pc = "reserve"
           THEN Runs!Go(h, "execute") /\ UNCHANGED shown
           ELSE Runs!Respond(h, IF Runs!Reserve(key, code, now).is = "completed"
                           THEN Runs!Reserve(key, code, now).row[key].result ELSE None)
  BY DEF Runs!Reserves
<1> DEFINE is == Runs!Reserve(key, code, now).is
           result == IF is = "completed" THEN execution'[key].result ELSE None
<1>2. /\ runner[h].pc \in {"reserve", "recover"} /\ key \in Keys /\ code \in Codes
      /\ clock' = clock
      /\ now \in Nat /\ runner[h].arrived <= now /\ now <= clock
  <2>1. runner[h].arrived \in Nat /\ clock \in Nat
    BY DEF RunSafe, RunTypes, RunHandlers
  <2>2. runner[h].pc \in {"reserve", "recover"} /\ clock' = clock
    BY DEF Runs!Reserves
  <2>3. key \in Keys /\ code \in Codes
    BY <2>2 DEF RunSafe, Arrived
  <2>4. QED
    BY <2>1, <2>2, <2>3, <1>1
<1>3. RunTypes
  BY DEF RunSafe
<1>4. execution' \in [Keys -> RunRows] /\ Reserved(execution', key, code, now, is)
  BY <1>1, <1>2, <1>3, ReservedRows
<1>5. result \in Handlers \cup {None}
  BY <1>2, <1>4 DEF RunRows
<1>6. CASE is = "new" /\ runner[h].pc = "reserve"
  <2>1. RunMoves(h, "execute") /\ shown' = shown
    BY <1>1, <1>3, <1>6, Went
  <2> HIDE DEF is, result
  <2>2. QED
    BY <2>1, <1>2, <1>4, <1>6, ReservingStep
<1>7. CASE ~ (is = "new" /\ runner[h].pc = "reserve")
  <2>1. Runs!Respond(h, result)
    BY <1>1, <1>7
  <2>2. /\ RunMoves(h, "done")
        /\ shown' \in [Handlers -> Handlers \cup {None}]
        /\ \A g \in Handlers \ {h} : shown'[g] = shown[g]
        /\ shown'[h] = IF runner[h].alive THEN result ELSE None
    BY <2>1, <1>3, <1>5, Responds
  <2>3. shown'[h] # None => is = "completed" /\ shown'[h] = execution'[key].result
    BY <2>2
  <2> HIDE DEF is, result
  <2>4. QED
    BY <2>2, <2>3, <1>2, <1>4, ReservingStep
<1>8. QED
  BY <1>6, <1>7

\* The end of a run, recorded or not; its handler responds with its own result if that
\* is what its row has, or with none, or asks for what was recorded.
LEMMA FinishingStep ==
  ASSUME Runs!RunAssumption, RunSafe, NEW h \in Handlers, NEW status \in {"completed", "failed"},
         NEW result \in {h, None}, status = "completed" => result = h,
         runner[h].pc \in {"complete", "fail"},
         execution' = execution \/ execution' = Runs!Finish(execution, runner[h].key, status, result),
         clock' = clock,
         NEW pc \in {"recover", "done"}, RunMoves(h, pc),
         shown' \in [Handlers -> Handlers \cup {None}],
         \A g \in Handlers \ {h} : shown'[g] = shown[g],
         \/ shown'[h] = shown[h] \/ shown'[h] = None
         \/ /\ shown'[h] = h /\ execution'[runner[h].key].status = "completed"
            /\ execution'[runner[h].key].result = h
  PROVE  RunSafe'
<1> DEFINE key == runner[h].key
<1> USE DEF RunSafe
<1>1. key \in Keys /\ execution[key].status \in {"running", "failed"} /\ execution[key].code = runner[h].code
  BY DEF Arrived, RowOfHandler, Holds, Admitted
<1>2. /\ execution' \in [Keys -> RunRows]
      /\ \A k \in Keys \ {key} : execution'[k] = execution[k]
      /\ \/ execution'[key] = execution[key]
         \/ /\ execution[key].status = "running"
            /\ execution'[key].status = status /\ execution'[key].code = execution[key].code
            /\ execution'[key].result = result
  <2>1. CASE execution' = execution
    BY <2>1, <1>1 DEF RunTypes
  <2>2. CASE execution' = Runs!Finish(execution, key, status, result)
    <3>1. RunTypes /\ result \in Handlers \cup {None}
      OBVIOUS
    <3>2. QED
      BY <2>2, <3>1, <1>1, FinishedRows
  <2>3. QED
    BY <2>1, <2>2
<1>3. \A g \in Handlers \ {h} : Holds(g) => runner[g].key # key
  BY DEF OneHolder, Holds
<1>4. /\ \A g \in Handlers \ {h} : runner'[g] = runner[g]
      /\ runner'[h].key = key /\ runner'[h].code = runner[h].code
      /\ runner'[h].pc \in {"recover", "done", "gone"}
      /\ ~ Holds(h)' /\ ~ Executes(h)'
  BY DEF RunMoves, Holds, Executes
<1>5. RunTypes'
  BY <1>2 DEF RunTypes, RunMoves
<1>6. Arrived'
  BY DEF Arrived, RunMoves
<1>7. RowOfHandler'
  <2>1. ASSUME NEW g \in Handlers \ {h}
        PROVE  /\ Admitted(g)' => /\ execution'[runner'[g].key].status # "none"
                                  /\ execution'[runner'[g].key].code = runner'[g].code
               /\ Holds(g)' => execution'[runner'[g].key].status \in {"running", "failed"}
               /\ Executes(g)' => /\ execution'[runner'[g].key].status = "running"
                                  /\ runner'[g].arrived + Lease <= execution'[runner'[g].key].expires
    <3>1. Admitted(g) => runner[g].key \in Keys
      BY DEF Admitted, Arrived
    <3>2. Holds(g) => execution'[runner[g].key] = execution[runner[g].key]
      BY <1>2, <1>3, <3>1 DEF Holds, Admitted
    <3>3. Admitted(g) => /\ execution'[runner[g].key].status # "none"
                         /\ execution'[runner[g].key].code = execution[runner[g].key].code
      BY <1>2, <3>1 DEF RowOfHandler
    <3>4. QED
      BY <1>4, <3>2, <3>3 DEF Admitted, Holds, Executes, RowOfHandler
  <2>2. execution'[key].status # "none" /\ execution'[key].code = runner[h].code
    BY <1>1, <1>2
  <2>3. QED
    BY <2>1, <2>2, <1>4 DEF RowOfHandler
<1>8. OneHolder'
  BY <1>4 DEF OneHolder, Holds, Executes
<1>9. ResultOfKey'
  <2>1. ASSUME NEW k \in Keys, execution'[k].status = "completed"
        PROVE  /\ execution'[k].result \in Handlers
               /\ runner'[execution'[k].result].pc # "idle"
               /\ runner'[execution'[k].result].key = k
               /\ runner'[execution'[k].result].code = execution'[k].code
    <3>1. CASE execution'[k] = execution[k]
      BY <2>1, <3>1, <1>4 DEF ResultOfKey
    <3>2. CASE execution'[k] # execution[k]
      <4>1. k = key /\ status = "completed" /\ execution'[k].result = h /\ execution'[k].code = execution[key].code
        BY <2>1, <3>2, <1>2
      <4>2. QED
        BY <4>1, <1>1, <1>4
    <3>3. QED
      BY <3>1, <3>2
  <2>2. QED
    BY <2>1 DEF ResultOfKey
<1>10. Recorded'
  <2>1. ASSUME NEW g \in Handlers, shown'[g] # None
        PROVE  /\ execution'[runner'[g].key].status = "completed"
               /\ execution'[runner'[g].key].result = shown'[g]
               /\ runner'[shown'[g]].code = runner'[g].code
    <3>1. CASE shown'[g] = shown[g]
      <4>1. /\ execution[runner[g].key].status = "completed" /\ execution[runner[g].key].result = shown[g]
            /\ runner[shown[g]].code = runner[g].code /\ runner[g].pc # "idle"
            /\ runner[g].key \in Keys /\ shown[g] \in Handlers
        BY <2>1, <3>1 DEF Recorded, Arrived, RunTypes
      <4>2. execution'[runner[g].key] = execution[runner[g].key]
        BY <4>1, <1>1, <1>2
      <4>3. QED
        BY <4>1, <4>2, <3>1, <1>4
    <3>2. CASE shown'[g] # shown[g]
      <4>1. g = h /\ shown'[h] = h /\ execution'[key].status = "completed" /\ execution'[key].result = h
        BY <2>1, <3>2
      <4>2. QED
        BY <4>1, <1>4
    <3>3. QED
      BY <3>1, <3>2
  <2>2. QED
    BY <2>1 DEF Recorded
<1>11. QED
  BY <1>5, <1>6, <1>7, <1>8, <1>9, <1>10

\* Its result is recorded.
LEMMA FinishesStep ==
  ASSUME Runs!RunAssumption, RunSafe, NEW h \in Handlers, Runs!Finishes(h)
  PROVE  RunSafe'
<1> DEFINE key == runner[h].key
           next == Runs!Finish(execution, key, "completed", h)
<1>1. /\ runner[h].pc = "complete" /\ execution' = next /\ clock' = clock
      /\ IF next[key].status = "completed" THEN Runs!Respond(h, h) ELSE Runs!Go(h, "recover")
           /\ UNCHANGED shown
  BY DEF Runs!Finishes
<1>2. RunTypes /\ h # None /\ key \in Keys /\ execution[key].status \in {"running", "failed"}
  BY <1>1 DEF RunSafe, Arrived, RowOfHandler, Holds, Runs!RunAssumption
<1>3. CASE next[key].status = "completed"
  <2>1. /\ RunMoves(h, "done")
        /\ shown' \in [Handlers -> Handlers \cup {None}]
        /\ \A g \in Handlers \ {h} : shown'[g] = shown[g]
        /\ shown'[h] = IF runner[h].alive THEN h ELSE None
    BY <1>1, <1>2, <1>3, Responds
  <2>2. next[key].result = h
    BY <1>2, <1>3, FinishedRows
  <2> HIDE DEF next
  <2>3. QED
    BY <1>1, <1>3, <2>1, <2>2, FinishingStep DEF next
<1>4. CASE next[key].status # "completed"
  <2>1. RunMoves(h, "recover") /\ shown' = shown /\ shown \in [Handlers -> Handlers \cup {None}]
    BY <1>1, <1>2, <1>4, Went DEF RunTypes
  <2> HIDE DEF next
  <2>2. QED
    BY <1>1, <2>1, FinishingStep DEF next
<1>5. QED
  BY <1>3, <1>4

\* A failure is recorded.
LEMMA GivesUpStep ==
  ASSUME Runs!RunAssumption, RunSafe, NEW h \in Handlers, Runs!GivesUp(h)
  PROVE  RunSafe'
<1>1. /\ runner[h].pc = "fail" /\ execution' = Runs!Finish(execution, runner[h].key, "failed", None)
      /\ Runs!Respond(h, None) /\ clock' = clock
  BY DEF Runs!GivesUp
<1>2. RunTypes
  BY DEF RunSafe
<1>3. /\ RunMoves(h, "done")
      /\ shown' \in [Handlers -> Handlers \cup {None}]
      /\ \A g \in Handlers \ {h} : shown'[g] = shown[g]
      /\ shown'[h] = None
  BY <1>1, <1>2, Responds
<1>4. QED
  BY <1>1, <1>3, FinishingStep

\* A handler's database is out of reach.
LEMMA BreaksStep ==
  ASSUME Runs!RunAssumption, RunSafe, NEW h \in Handlers, Runs!Breaks(h)
  PROVE  RunSafe'
<1> DEFINE key == runner[h].key
           code == runner[h].code
<1>1. /\ runner[h].pc \in {"reserve", "recover", "complete", "fail"} /\ clock' = clock
      /\ IF runner[h].pc = "complete" THEN Runs!Go(h, "recover")
           /\ UNCHANGED shown ELSE Runs!Respond(h, None)
      /\ \/ execution' = execution
         \/ runner[h].pc = "reserve" /\ execution' = Runs!Reserve(key, code, clock).row
         \/ runner[h].pc = "complete" /\ execution' = Runs!Finish(execution, key, "completed", h)
  BY DEF Runs!Breaks
<1>2. /\ RunTypes /\ key \in Keys /\ code \in Codes /\ clock \in Nat
      /\ runner[h].arrived \in Nat /\ runner[h].arrived <= clock
  BY <1>1 DEF RunSafe, RunTypes, RunHandlers, Arrived
<1>3. CASE runner[h].pc \in {"complete", "fail"}
  <2>1. /\ \E pc \in {"recover", "done"} : RunMoves(h, pc)
        /\ shown' \in [Handlers -> Handlers \cup {None}]
        /\ \A g \in Handlers \ {h} : shown'[g] = shown[g]
        /\ shown'[h] = shown[h] \/ shown'[h] = None
    <3>1. CASE runner[h].pc = "complete"
      BY <1>1, <1>2, <3>1, Went DEF RunTypes
    <3>2. CASE runner[h].pc # "complete"
      BY <1>1, <1>2, <3>2, Responds
    <3>3. QED
      BY <3>1, <3>2
  <2>2. execution' = execution \/ execution' = Runs!Finish(execution, key, "completed", h)
    BY <1>1, <1>3
  <2>3. QED
    BY <1>1, <1>3, <2>1, <2>2, FinishingStep
<1>4. CASE runner[h].pc \in {"reserve", "recover"}
  <2>1. /\ RunMoves(h, "done")
        /\ shown' \in [Handlers -> Handlers \cup {None}]
        /\ \A g \in Handlers \ {h} : shown'[g] = shown[g]
        /\ shown'[h] = None
    BY <1>1, <1>2, <1>4, Responds
  <2>2. PICK is : execution' \in [Keys -> RunRows] /\ Reserved(execution', key, code, clock, is)
    <3>1. CASE execution' = execution
      <4>1. Reserved(execution, key, code, clock, "busy")
        BY DEF Reserved
      <4>2. QED
        BY <3>1, <4>1, <1>2 DEF RunTypes
    <3>2. CASE execution' = Runs!Reserve(key, code, clock).row
      BY <3>2, <1>2, ReservedRows
    <3>3. QED
      BY <3>1, <3>2, <1>1, <1>4
  <2>3. QED
    BY <1>1, <1>2, <1>4, <2>1, <2>2, ReservingStep
<1>5. QED
  BY <1>1, <1>3, <1>4

\* A step that changes no row: a handler arrives, has run its code, or dies.
Acts(h) ==
  /\ execution' = execution /\ shown' = shown /\ clock' = clock
  /\ runner' \in [Handlers -> RunHandlers]
  /\ \A g \in Handlers \ {h} : runner'[g] = runner[g]
  /\ \/ /\ runner[h].pc = "idle" /\ runner'[h].pc = "reserve"
        /\ runner'[h].key \in Keys /\ runner'[h].code \in Codes /\ runner'[h].arrived = clock
     \/ /\ runner[h].pc # "idle"
        /\ runner'[h].key = runner[h].key /\ runner'[h].code = runner[h].code
        /\ runner'[h].arrived = runner[h].arrived
        /\ runner'[h].alive => runner[h].alive /\ runner[h].pc # "done"
        /\ \/ Executes(h) /\ runner'[h].pc \in {"complete", "fail"}
           \/ /\ ~ runner'[h].alive
              /\ runner'[h].pc = IF runner[h].pc = "execute" THEN "gone" ELSE runner[h].pc

\* What an arrival, a run that ended and a death have in common.
LEMMA ActsOf ==
  ASSUME RunTypes, Arrived, NEW h \in Handlers,
         (\E k \in Keys, c \in Codes : Runs!Arrive(h, k, c)) \/ Runs!Executed(h) \/ Runs!Die(h)
  PROVE  Acts(h)
<1>1. runner \in [Handlers -> RunHandlers] /\ runner[h] \in RunHandlers /\ clock \in Nat
  BY DEF RunTypes
<1>2. ASSUME NEW k \in Keys, NEW c \in Codes, Runs!Arrive(h, k, c) PROVE Acts(h)
  <2> DEFINE new == [pc |-> "reserve", key |-> k, code |-> c, arrived |-> clock, alive |-> TRUE]
  <2>1. runner[h].pc = "idle" /\ runner' = [runner EXCEPT ![h] = new]
        /\ execution' = execution /\ shown' = shown /\ clock' = clock
    BY <1>2 DEF Runs!Arrive
  <2>2. new \in RunHandlers
    BY <1>1 DEF RunHandlers
  <2>3. QED
    BY <1>1, <2>1, <2>2 DEF Acts
<1>3. ASSUME Runs!Executed(h) PROVE Acts(h)
  <2>1. PICK pc \in {"complete", "fail"} : Runs!Go(h, pc)
    BY <1>3 DEF Runs!Executed
  <2>2. RunMoves(h, pc)
    BY <2>1, Went
  <2>3. QED
    BY <1>3, <2>2 DEF Runs!Executed, Acts, RunMoves, Executes
<1>4. ASSUME Runs!Die(h) PROVE Acts(h)
  <2> DEFINE new == [runner[h] EXCEPT !.alive = FALSE,
                                       !.pc = IF @ = "execute" THEN "gone" ELSE @]
  <2>1. /\ runner[h].alive /\ runner[h].pc # "done" /\ execution' = execution /\ shown' = shown
        /\ clock' = clock
        /\ runner' = [runner EXCEPT ![h] = new]
    BY <1>4, <1>1 DEF Runs!Die
  <2>2. /\ new \in RunHandlers /\ ~ new.alive
        /\ new.pc = (IF runner[h].pc = "execute" THEN "gone" ELSE runner[h].pc)
        /\ new.key = runner[h].key /\ new.code = runner[h].code
        /\ new.arrived = runner[h].arrived
    BY <1>1 DEF RunHandlers
  <2> HIDE DEF new
  <2>3. runner'[h] = new /\ \A g \in Handlers \ {h} : runner'[g] = runner[g]
    BY <1>1, <2>1
  <2>4. runner' \in [Handlers -> RunHandlers]
    BY <1>1, <2>1, <2>2
  <2>5. CASE runner[h].pc # "idle"
    BY <2>1, <2>2, <2>3, <2>4, <2>5 DEF Acts
  <2>6. CASE runner[h].pc = "idle"
    BY <2>1, <2>6 DEF Arrived
  <2>7. QED
    BY <2>5, <2>6
<1>5. QED
  BY <1>2, <1>3, <1>4

\* They keep the invariant.
LEMMA ActsStep ==
  ASSUME Runs!RunAssumption, RunSafe, NEW h \in Handlers, Acts(h)
  PROVE  RunSafe'
<1> USE DEF RunSafe, Acts
<1>1. RunTypes'
  BY DEF RunTypes
<1>2. Arrived'
  BY DEF Arrived, Executes, RunTypes, RunHandlers, Runs!RunAssumption
<1>3. RowOfHandler'
  BY DEF RowOfHandler, Admitted, Holds, Executes
<1>4. OneHolder'
  BY DEF OneHolder, Holds, Executes
<1>5. ResultOfKey'
  BY DEF ResultOfKey
<1>6. Recorded'
  BY DEF Recorded, Arrived, RunTypes, ResultOfKey
<1>7. QED
  BY <1>1, <1>2, <1>3, <1>4, <1>5, <1>6

\* Time passes.
LEMMA TickStep ==
  ASSUME Runs!RunAssumption, RunSafe, Runs!Tick
  PROVE  RunSafe'
<1> USE DEF RunSafe, Runs!Tick
<1>1. RunTypes'
  BY DEF RunTypes
<1>2. Arrived'
  BY DEF Arrived, RunTypes, RunHandlers, Runs!RunAssumption
<1>3. RowOfHandler' /\ OneHolder' /\ ResultOfKey' /\ Recorded'
  BY DEF RowOfHandler, OneHolder, ResultOfKey, Recorded, Admitted, Holds, Executes
<1>4. QED
  BY <1>1, <1>2, <1>3

\* Every step keeps the invariant of the runs.
LEMMA RunsStep ==
  ASSUME Runs!RunAssumption, RunSafe, [Runs!Next]_(Runs!vars)
  PROVE  RunSafe'
<1>1. ASSUME NEW h \in Handlers,
             (\E k \in Keys, c \in Codes : Runs!Arrive(h, k, c)) \/ Runs!Executed(h) \/ Runs!Die(h)
      PROVE  RunSafe'
  BY <1>1, ActsOf, ActsStep DEF RunSafe
<1>2. CASE UNCHANGED Runs!vars
  BY <1>2 DEF Runs!vars, RunSafe, RunTypes, Arrived, RowOfHandler, OneHolder, ResultOfKey,
    Recorded, Admitted, Holds, Executes
<1>3. QED
  BY <1>1, <1>2, TickStep, ReservesStep, FinishesStep, GivesUpStep, BreaksStep DEF Runs!Next

\* Every reachable state of the sample runs satisfies the inductive invariant.
THEOREM RunsAreSafe ==
  ASSUME Runs!RunAssumption
  PROVE  Runs!Spec => []RunSafe
<1>1. Runs!Init => RunSafe
  BY RunsInit
<1>2. RunSafe /\ [Runs!Next]_(Runs!vars) => RunSafe'
  BY RunsStep
<1>3. QED
  BY <1>1, <1>2, PTL DEF Runs!Spec

\* The instance counts as FiniteSets does.
LEMMA RunsCount == ASSUME NEW S PROVE Runs!Cardinality(S) = Cardinality(S)
  BY DEF Runs!Cardinality, Cardinality, Runs!IsFiniteSet, IsFiniteSet

\* One execution at a time.
THEOREM RunsOneAtATime ==
  ASSUME Runs!RunAssumption
  PROVE  Runs!Spec => []OneExecution
<1>1. RunSafe => OneExecution
  <2> SUFFICES ASSUME RunSafe PROVE OneExecution
    OBVIOUS
  <2> DEFINE S == {h \in Handlers : runner[h].alive /\ runner[h].pc = "execute"}
  <2>1. \A g, h \in S : g = h
    BY DEF RunSafe, OneHolder, Executes
  <2>2. S = {} \/ \E h \in S : S = {h}
    BY <2>1
  <2> HIDE DEF S
  <2>3. ASSUME S = {} PROVE Cardinality(S) = 0
    BY <2>3, FS_EmptySet
  <2>4. ASSUME NEW h \in S, S = {h} PROVE Cardinality(S) = 1
    BY <2>4, FS_Singleton
  <2>5. Cardinality(S) <= 1
    BY <2>2, <2>3, <2>4, FS_EmptySet
  <2>6. DOMAIN runner = Handlers
    BY DEF RunSafe, RunTypes
  <2>7. QED
    BY <2>5, <2>6, RunsCount DEF OneExecution, Runs!OneExecution, S
<1>2. QED
  BY <1>1, RunsAreSafe, PTL

\* What is shown was recorded.
THEOREM RunsShowTheRecord ==
  ASSUME Runs!RunAssumption
  PROVE  Runs!Spec => []ShownIsRecorded
<1>1. RunSafe => ShownIsRecorded
  BY DEF RunSafe, RunTypes, Recorded, ShownIsRecorded, Runs!ShownIsRecorded
<1>2. QED
  BY <1>1, RunsAreSafe, PTL

------------------------------------------------------------------------------
(***************************************************************************)
(* The card of a mistake, for any number of handlers, tries and revisions: *)
(* it is paid for and drafted once.                                        *)
(*                                                                         *)
(* The inductive invariant says why a second claim does not pay: whoever   *)
(* calls a provider holds the row's lease with its mark, or the row has    *)
(* ended; from an ended row, and from a marked lease, no claim starts again. *)
(***************************************************************************)

CardStatuses ==
  {"none", "needs_grounding", "detected", "generating", "failed",
   "dead_letter", "pending_review", "approved", "dismissed", "reinforce_existing"}

\* From these a candidate is never drafted again.
Final == {"dead_letter", "pending_review", "approved", "dismissed", "reinforce_existing"}

CardRows ==
  [status : CardStatuses, own : Sources \cup {None}, source : Sources \cup {None},
   token : Handlers \cup {None}, expired : BOOLEAN, dispatched : BOOLEAN, tries : Nat, card : Nat
       \cup {None}]

CardTypes ==
  /\ candidate \in CardRows
  /\ maker \in [Handlers -> Cards!InDatabase \cup {"idle", "call", "callFree", "done"}]
  /\ taught \in Sources /\ cards \in Nat /\ bought \subseteq Handlers /\ revisions \in Nat

\* The candidate that is leased may be paid, or has been.
CardSent(h) == (Cards!Mine(h) /\ candidate.dispatched) \/ candidate.status \in Final

\* Who may have paid is not drafting again.
PaidAreOver == \A h \in bought : maker[h] \in {"complete", "again", "terminate", "done"}
    /\ CardSent(h)

OnePaid == \A g, h \in bought : g = h

OneCalls ==
  \A h \in Handlers : maker[h] = "call" =>
    /\ bought = {} /\ CardSent(h)
    /\ \A g \in Handlers : maker[g] = "call" => g = h

OneCard == cards = 0 \/ (cards = 1 /\ candidate.status \in Final)

CardSafe == CardTypes /\ PaidAreOver /\ OnePaid /\ OneCalls /\ OneCard

\* There is no card and nobody is paid.
LEMMA CardInit == ASSUME Cards!Init PROVE CardSafe
  BY DEF Cards!Init, Cards!NoRow, CardSafe, CardTypes, CardRows, CardStatuses, Cards!InDatabase,
      PaidAreOver, OnePaid,
    OneCalls, OneCard

------------------------------------------------------------------------------

\* What an RPC does to the row: nothing; ...
Idles(h, r) == r.row = candidate /\ r.is # "dispatched"

\* ... it ends it, leases it to the handler,
EndsIt(h, r) == candidate.status \notin Final /\ r.row.status \in Final /\ r.row.card = candidate.card
Leases(h, r) ==
  /\ maker[h] = "claim" /\ r.row.status = "generating" /\ r.row.token = h /\ r.row.card = candidate.card
  /\ candidate.status \in {"detected", "failed", "generating"}
  /\ ~ (candidate.status = "generating" /\ candidate.dispatched)

\* ... marks it as sent, fails it, takes its result.
CardMarks(h, r) ==
  /\ maker[h] \in {"mark", "markFree"} /\ Cards!Mine(h) /\ r.row.card = candidate.card
  /\ r.row.status = "generating" /\ r.row.token = h /\ r.row.dispatched
FailsIt(h, r) ==
  /\ maker[h] = "fail" /\ Cards!Mine(h) /\ r.row.status = "failed" /\ r.row.card = candidate.card
NeedsGrounding(h, r) ==
  /\ maker[h] \in {"complete", "again"} /\ Cards!Mine(h) /\ r.is = "needs_grounding"
  /\ r.row.status = "needs_grounding" /\ r.row.card = candidate.card
MakesCard(h, r) ==
  maker[h] \in {"complete", "again"} /\ Cards!Mine(h) /\ r.row.status \in Final

\* What a claim makes of the row.
LEMMA ClaimRow ==
  ASSUME CardTypes, NEW h \in Handlers, maker[h] = "claim"
  PROVE  LET r == Cards!Claim(h) IN
         /\ r.row \in CardRows /\ r.is # "dispatched"
         /\ Idles(h, r) \/ EndsIt(h, r) \/ Leases(h, r)
<1>1. candidate \in CardRows
  BY DEF CardTypes
<1>2. /\ Cards!Ended("dead_letter") \in CardRows
      /\ Cards!Ended("dead_letter").status = "dead_letter"
      /\ Cards!Ended("dead_letter").card = candidate.card
  BY <1>1 DEF Cards!Ended, CardRows, CardStatuses
<1>3. /\ Cards!Leased(h) \in CardRows /\ Cards!Leased(h).status = "generating"
      /\ Cards!Leased(h).token = h
      /\ Cards!Leased(h).card = candidate.card
  <2>1. candidate.tries + 1 \in Nat
    BY <1>1 DEF CardRows
  <2>2. QED
    BY <1>1, <2>1 DEF Cards!Leased, CardRows, CardStatuses
<1>4. CASE candidate.status \notin {"detected", "failed", "generating"}
  BY <1>1, <1>4 DEF Cards!Claim, Cards!Reply, Idles, CardRows, CardStatuses
<1>5. CASE candidate.status = "generating" /\ ~ candidate.expired
  BY <1>1, <1>5 DEF Cards!Claim, Cards!Reply, Idles
<1>6. CASE /\ candidate.status \in {"detected", "failed", "generating"}
           /\ ~ (candidate.status = "generating" /\ ~ candidate.expired)
  <2>1. Cards!Claim(h) = IF candidate.tries >= MaxTries \/ (candidate.status = "generating" /\ candidate.dispatched)
                     THEN Cards!Reply("dead_letter",
                         Cards!Ended("dead_letter")) ELSE Cards!Reply("claimed", Cards!Leased(h))
    BY <1>6 DEF Cards!Claim
  <2>2. CASE candidate.tries >= MaxTries \/ (candidate.status = "generating" /\ candidate.dispatched)
    BY <1>2, <1>6, <2>1, <2>2 DEF Cards!Reply, EndsIt, Final
  <2>3. CASE ~ (candidate.tries >= MaxTries \/ (candidate.status = "generating" /\ candidate.dispatched))
    <3>1. ~ (candidate.status = "generating" /\ candidate.dispatched)
      BY <2>3
    <3>2. Cards!Claim(h) = Cards!Reply("claimed", Cards!Leased(h))
      BY <2>1, <2>3
    <3>3. Leases(h, Cards!Claim(h))
      BY <1>3, <1>6, <3>1, <3>2 DEF Cards!Reply, Leases
    <3>4. QED
      BY <1>3, <3>2, <3>3 DEF Cards!Reply
  <2>4. QED
    BY <2>2, <2>3
<1>7. QED
  BY <1>4, <1>5, <1>6

\* What the dispatch marker makes of it.
LEMMA MarkRow ==
  ASSUME CardTypes, NEW h \in Handlers, maker[h] \in {"mark", "markFree"}
  PROVE  LET r == Cards!Mark(h) IN r.row \in CardRows /\ (Idles(h, r) \/ CardMarks(h, r))
<1>1. candidate \in CardRows
  BY DEF CardTypes
<1> DEFINE next == [candidate EXCEPT !.dispatched = TRUE]
<1>2. /\ next \in CardRows /\ next.status = candidate.status /\ next.token = candidate.token /\ next.dispatched
      /\ next.card = candidate.card
  BY <1>1 DEF CardRows
<1>3. Cards!Mark(h) = IF Cards!Mine(h)
          /\ ~candidate.expired THEN Cards!Reply("dispatched", next) ELSE Cards!Reply("refused", candidate)
  BY DEF Cards!Mark
<1> HIDE DEF next
<1>4. QED
  BY <1>1, <1>2, <1>3 DEF Cards!Reply, Idles, CardMarks, Cards!Mine

\* What a completion makes of it.
LEMMA CompleteRow ==
  ASSUME CardTypes, NEW h \in Handlers, maker[h] \in {"complete", "again"}
  PROVE  LET r == Cards!Complete(h) IN
         /\ r.row \in CardRows /\ r.is # "dispatched"
         /\ \/ Idles(h, r) /\ r.is = "refused"
            \/ NeedsGrounding(h, r)
            \/ MakesCard(h, r) /\ r.is = "pending_review"
<1>1. candidate \in CardRows /\ cards + 1 \in Nat
  BY DEF CardTypes
<1> DEFINE ground == Cards!Ended("needs_grounding")
           made == [Cards!Ended("pending_review") EXCEPT !.card = cards + 1]
<1>2. ground \in CardRows /\ ground.status = "needs_grounding" /\ ground.card = candidate.card
  BY <1>1 DEF Cards!Ended, CardRows, CardStatuses
<1>3. made \in CardRows /\ made.status = "pending_review"
  <2>1. Cards!Ended("pending_review") \in CardRows
            /\ Cards!Ended("pending_review").status = "pending_review"
    BY <1>1 DEF Cards!Ended, CardRows, CardStatuses
  <2>2. QED
    BY <1>1, <2>1 DEF CardRows
<1>4. Cards!Complete(h) = IF ~Cards!Mine(h) \/ candidate.expired
          \/ ~candidate.dispatched THEN Cards!Reply("refused", candidate)
                    ELSE IF candidate.source # taught THEN Cards!Reply("needs_grounding", ground)
                    ELSE Cards!Reply("pending_review", made)
  BY DEF Cards!Complete
<1> HIDE DEF ground, made
<1>5. CASE ~Cards!Mine(h) \/ candidate.expired \/ ~candidate.dispatched
  BY <1>1, <1>4, <1>5 DEF Cards!Reply, Idles
<1>6. CASE Cards!Mine(h) /\ ~ (~Cards!Mine(h) \/ candidate.expired \/ ~candidate.dispatched)
               /\ candidate.source # taught
  BY <1>2, <1>4, <1>6 DEF Cards!Reply, NeedsGrounding
<1>7. CASE Cards!Mine(h) /\ ~ (~Cards!Mine(h) \/ candidate.expired \/ ~candidate.dispatched)
               /\ candidate.source = taught
  BY <1>3, <1>4, <1>7 DEF Cards!Reply, MakesCard, Final
<1>8. QED
  BY <1>5, <1>6, <1>7

\* What giving a candidate up makes of it.
LEMMA TerminateRow ==
  ASSUME CardTypes, NEW h \in Handlers
  PROVE  LET r == Cards!Terminate(h) IN r.row \in CardRows /\ (Idles(h, r) \/ EndsIt(h, r))
<1>1. candidate \in CardRows
  BY DEF CardTypes
<1>2. /\ Cards!Ended("dead_letter") \in CardRows
      /\ Cards!Ended("dead_letter").status = "dead_letter"
      /\ Cards!Ended("dead_letter").card = candidate.card
  BY <1>1 DEF Cards!Ended, CardRows, CardStatuses
<1>3. CASE candidate.status # "generating"
  BY <1>1, <1>3 DEF Cards!Terminate, Cards!Reply, Idles, CardRows, CardStatuses
<1>4. CASE candidate.status = "generating" /\ (candidate.token # h \/ ~candidate.dispatched)
  BY <1>1, <1>4 DEF Cards!Terminate, Cards!Reply, Idles
<1>5. CASE candidate.status = "generating" /\ ~ (candidate.token # h \/ ~candidate.dispatched)
  <2>1. Cards!Terminate(h) = Cards!Reply("dead_letter", Cards!Ended("dead_letter"))
    BY <1>5 DEF Cards!Terminate
  <2>2. QED
    BY <1>2, <1>5, <2>1 DEF Cards!Reply, EndsIt, Final
<1>6. QED
  BY <1>3, <1>4, <1>5

\* What a failure makes of it.
LEMMA FailRow ==
  ASSUME CardTypes, NEW h \in Handlers, maker[h] = "fail"
  PROVE  LET r == Cards!FailCandidate(h) IN
         r.row \in CardRows /\ (Idles(h, r) \/ EndsIt(h, r) \/ FailsIt(h, r))
<1>1. candidate \in CardRows
  BY DEF CardTypes
<1>2. ASSUME NEW status \in {"dead_letter", "failed"}
      PROVE  /\ Cards!Ended(status) \in CardRows /\ Cards!Ended(status).status = status
             /\ Cards!Ended(status).card = candidate.card
  BY <1>1 DEF Cards!Ended, CardRows, CardStatuses
<1>3. CASE ~ Cards!Mine(h)
  BY <1>1, <1>3 DEF Cards!FailCandidate, Cards!Reply, Idles
<1>4. CASE Cards!Mine(h)
  <2>1. PICK status \in {"dead_letter", "failed"} : Cards!FailCandidate(h) = Cards!Reply("failed",
                 Cards!Ended(status))
    BY <1>4 DEF Cards!FailCandidate
  <2>2. Cards!FailCandidate(h).row = Cards!Ended(status) /\ candidate.status = "generating"
    BY <1>4, <2>1 DEF Cards!Reply, Cards!Mine
  <2>3. CASE status = "dead_letter"
    BY <1>2, <2>2, <2>3 DEF EndsIt, Final
  <2>4. CASE status = "failed"
    BY <1>2, <1>4, <2>2, <2>4 DEF FailsIt
  <2>5. QED
    BY <2>3, <2>4
<1>5. QED
  BY <1>3, <1>4

\* Whatever an RPC leaves, the handler that asked goes on without a call, or
\* it has marked the row.
LEMMA AskedRow ==
  ASSUME CardTypes, NEW h \in Handlers, maker[h] \in Cards!InDatabase
  PROVE  LET r == Cards!Asked(h) IN
         /\ r.row \in CardRows
         /\ maker[h] \in {"complete", "again"} /\ r.is = "needs_grounding" => NeedsGrounding(h, r)
         /\ maker[h] = "mark" /\ r.is = "dispatched" => CardMarks(h, r)
         /\ \/ Idles(h, r) \/ EndsIt(h, r) \/ Leases(h, r) \/ CardMarks(h, r) \/ FailsIt(h, r)
            \/ NeedsGrounding(h, r) \/ MakesCard(h, r)
<1>1. CASE maker[h] = "claim"
  <2>1. Cards!Asked(h) = Cards!Claim(h)
    BY <1>1 DEF Cards!Asked
  <2>2. QED
    BY <1>1, <2>1, ClaimRow
<1>2. CASE maker[h] \in {"mark", "markFree"}
  <2>1. Cards!Asked(h) = Cards!Mark(h)
    BY <1>2 DEF Cards!Asked
  <2>2. QED
    BY <1>2, <2>1, MarkRow DEF Idles
<1>3. CASE maker[h] \in {"complete", "again"}
  <2>1. Cards!Asked(h) = Cards!Complete(h)
    BY <1>3 DEF Cards!Asked
  <2>2. QED
    BY <1>3, <2>1, CompleteRow
<1>4. CASE maker[h] = "terminate"
  <2>1. Cards!Asked(h) = Cards!Terminate(h)
    BY <1>4 DEF Cards!Asked
  <2>2. QED
    BY <1>4, <2>1, TerminateRow
<1>5. CASE maker[h] = "fail"
  <2>1. Cards!Asked(h) = Cards!FailCandidate(h)
    BY <1>5 DEF Cards!Asked
  <2>2. QED
    BY <1>5, <2>1, FailRow
<1>6. QED
  BY <1>1, <1>2, <1>3, <1>4, <1>5 DEF Cards!InDatabase

------------------------------------------------------------------------------

\* A handler goes on without a call.
GoesOn(h, pc) ==
  /\ Cards!Go(h, pc) /\ pc \in (Cards!InDatabase \cup {"callFree", "done"})
  /\ maker[h] \in {"complete", "again", "terminate", "done"} =>
       pc \in {"complete", "again", "terminate", "done"}

\* A handler that goes on asks no provider, and what was paid stays so.
LEMMA GoneOn ==
  ASSUME CardSafe, NEW h \in Handlers, NEW pc, GoesOn(h, pc)
  PROVE  /\ maker' \in [Handlers -> Cards!InDatabase \cup {"idle", "call", "callFree", "done"}]
         /\ \A g \in Handlers : maker'[g] = "call" => maker[g] = "call" /\ g # h
         /\ \A g \in bought : maker'[g] \in {"complete", "again", "terminate", "done"}
<1>1. /\ maker \in [Handlers -> Cards!InDatabase \cup {"idle", "call", "callFree", "done"}]
      /\ bought \subseteq Handlers /\ maker'[h] = pc /\ pc # "call"
      /\ \A g \in Handlers : g # h => maker'[g] = maker[g]
      /\ \A g \in bought : maker[g] \in {"complete", "again", "terminate", "done"}
  BY DEF CardSafe, CardTypes, GoesOn, Cards!Go, Cards!InDatabase, PaidAreOver
<1>2. QED
  BY <1>1 DEF GoesOn, Cards!Go

\* What becomes of the payments when the row is what it was, or over.
LEMMA RowStaysOrEnds ==
  ASSUME CardSafe, CardTypes', NEW h \in Handlers, NEW pc, GoesOn(h, pc), bought' = bought,
         \/ candidate' = candidate /\ cards' = cards
         \/ candidate.status \in Final /\ candidate'.status \in Final /\ cards' = cards
         \/ candidate.status \notin Final /\ candidate'.status \in Final /\ cards' \in {cards, cards + 1}
  PROVE  CardSafe'
<1>1. PaidAreOver /\ OnePaid /\ OneCalls /\ OneCard /\ bought \subseteq Handlers
  BY DEF CardSafe, CardTypes
<1>2. \A g \in Handlers : CardSent(g) => CardSent(g)'
  BY DEF CardSent, Cards!Mine
<1>3. PaidAreOver'
  BY <1>1, <1>2, GoneOn DEF PaidAreOver
<1>4. OneCalls'
  BY <1>1, <1>2, GoneOn DEF OneCalls
<1>5. OneCard'
  BY <1>1 DEF OneCard
<1>6. QED
  BY <1>1, <1>3, <1>4, <1>5 DEF CardSafe, OnePaid

\* ... and when nobody has paid, or calls.
LEMMA NobodyPaid ==
  ASSUME CardSafe, CardTypes', NEW h \in Handlers, NEW pc, GoesOn(h, pc),
         bought' = {}, \A g \in Handlers : maker[g] # "call", cards' = cards, cards = 0
  PROVE  CardSafe'
  BY GoneOn DEF CardSafe, PaidAreOver, OnePaid, OneCalls, OneCard

\* A handler's call to the database keeps the invariant.
LEMMA AskedKeeps ==
  ASSUME CardSafe, NEW h \in Handlers, maker[h] \in Cards!InDatabase, NEW pc,
         GoesOn(h, pc)
             \/ (pc = "call" /\ Cards!Go(h, pc) /\ maker[h] = "mark"
                  /\ Cards!Asked(h).is = "dispatched"),
         Cards!Effects(h, Cards!Asked(h)), UNCHANGED <<taught, revisions>>
  PROVE  CardSafe'
<1> DEFINE r == Cards!Asked(h)
<1>1. /\ CardTypes /\ PaidAreOver /\ OnePaid /\ OneCalls /\ OneCard /\ bought \subseteq Handlers
      /\ candidate \in CardRows /\ cards \in Nat
  BY DEF CardSafe, CardTypes
<1>2. /\ r.row \in CardRows
      /\ maker[h] \in {"complete", "again"} /\ r.is = "needs_grounding" => NeedsGrounding(h, r)
      /\ maker[h] = "mark" /\ r.is = "dispatched" => CardMarks(h, r)
      /\ \/ Idles(h, r) \/ EndsIt(h, r) \/ Leases(h, r) \/ CardMarks(h, r) \/ FailsIt(h, r)
         \/ NeedsGrounding(h, r) \/ MakesCard(h, r)
  BY <1>1, AskedRow
<1>3. /\ candidate' = r.row
      /\ cards' = IF r.row.card # candidate.card THEN cards + 1 ELSE cards
      /\ bought' = IF maker[h] \in {"complete", "again"}
           /\ r.is = "needs_grounding" THEN bought \ {h} ELSE bought
  BY DEF Cards!Effects
<1> HIDE DEF r
<1>4. CardTypes'
  <2>1. maker' \in [Handlers -> Cards!InDatabase \cup {"idle", "call", "callFree", "done"}]
    BY <1>1, GoneOn DEF CardTypes, Cards!Go
  <2>2. cards' \in Nat /\ bought' \subseteq Handlers /\ candidate' \in CardRows
    BY <1>1, <1>2, <1>3
  <2>3. QED
    BY <1>1, <2>1, <2>2 DEF CardTypes
<1>5. h \in bought => /\ maker[h] \in {"complete", "again", "terminate", "done"}
                     /\ CardSent(h)
  BY <1>1 DEF PaidAreOver
<1>6. Cards!Mine(h) => /\ candidate.status = "generating" /\ cards = 0 /\ bought \subseteq {h}
                       /\ \A g \in Handlers : maker[g] # "call"
  BY <1>1 DEF Cards!Mine, Final, PaidAreOver, CardSent, OneCalls, OneCard, Cards!InDatabase
<1>7. CASE NeedsGrounding(h, r)
  <2>1. bought' = {} /\ cards' = cards /\ cards = 0 /\ \A g \in Handlers : maker[g] # "call"
    BY <1>3, <1>6, <1>7 DEF NeedsGrounding
  <2>2. GoesOn(h, pc)
    BY <1>7 DEF NeedsGrounding
  <2>3. QED
    BY <1>4, <2>1, <2>2, NobodyPaid
<1>8. ASSUME ~ NeedsGrounding(h, r) PROVE bought' = bought
  BY <1>2, <1>3, <1>8
<1>9. CASE ~ NeedsGrounding(h, r) /\ (Idles(h, r) \/ EndsIt(h, r))
  <2>1. GoesOn(h, pc)
    BY <1>1, <1>2, <1>9 DEF Idles, EndsIt, CardMarks, Final, r
  <2>2. cards' = cards /\ (candidate' = candidate \/ (candidate.status \notin Final /\ candidate'.status \in Final))
    BY <1>3, <1>9 DEF Idles, EndsIt
  <2>3. QED
    BY <1>4, <1>8, <1>9, <2>1, <2>2, RowStaysOrEnds
<1>10. CASE ~ NeedsGrounding(h, r) /\ MakesCard(h, r)
  <2>1. GoesOn(h, pc)
    BY <1>10 DEF MakesCard
  <2>2. candidate.status \notin Final /\ candidate'.status \in Final /\ cards' \in {cards, cards + 1}
    BY <1>3, <1>6, <1>10 DEF MakesCard, Final
  <2>3. QED
    BY <1>4, <1>8, <1>10, <2>1, <2>2, RowStaysOrEnds
<1>11. CASE ~ NeedsGrounding(h, r) /\ (Leases(h, r) \/ FailsIt(h, r))
  <2>1. GoesOn(h, pc)
    BY <1>11 DEF Leases, FailsIt
  <2>2. cards' = cards /\ cards = 0
    BY <1>1, <1>3, <1>6, <1>11 DEF Leases, FailsIt, OneCard, Final
  <2>3. bought = {} /\ \A g \in Handlers : maker[g] # "call"
    <3>1. CASE Leases(h, r)
      <4>1. \A g \in Handlers : ~ CardSent(g)
        BY <3>1 DEF Leases, CardSent, Cards!Mine, Final
      <4>2. QED
        BY <1>1, <4>1 DEF PaidAreOver, OneCalls
    <3>2. CASE FailsIt(h, r)
      BY <1>5, <1>6, <3>2 DEF FailsIt
    <3>3. QED
      BY <1>11, <3>1, <3>2
  <2>4. QED
    BY <1>4, <1>8, <1>11, <2>1, <2>2, <2>3, NobodyPaid
<1>12. CASE ~ NeedsGrounding(h, r) /\ CardMarks(h, r)
  <2>1. /\ cards' = cards /\ cards = 0 /\ bought = {} /\ bought' = {}
        /\ \A g \in Handlers : maker[g] # "call"
        /\ CardSent(h)'
    BY <1>3, <1>5, <1>6, <1>8, <1>12 DEF CardMarks, CardSent, Cards!Mine
  <2>2. CASE GoesOn(h, pc)
    BY <1>4, <2>1, <2>2, NobodyPaid
  <2>3. CASE pc = "call" /\ Cards!Go(h, pc)
    <3>1. maker'[h] = "call" /\ \A g \in Handlers : g # h => maker'[g] # "call"
      BY <1>1, <2>1, <2>3 DEF CardTypes, Cards!Go
    <3>2. OneCalls'
      BY <2>1, <3>1 DEF OneCalls
    <3>3. QED
      BY <1>4, <2>1, <3>2 DEF CardSafe, PaidAreOver, OnePaid, OneCard
  <2>4. QED
    BY <2>2, <2>3
<1>13. QED
  BY <1>2, <1>7, <1>9, <1>10, <1>11, <1>12

------------------------------------------------------------------------------

\* A handler that arrives, asks, or hears nothing of what it asked.
LEMMA HandlerKeeps ==
  ASSUME CardSafe, NEW h \in Handlers, Cards!Arrive(h) \/ Cards!Asks(h) \/ Cards!Breaks(h)
             \/ Cards!CallsFree(h)
  PROVE  CardSafe'
<1>1. CardTypes
  BY DEF CardSafe
<1>2. ASSUME NEW pc, GoesOn(h, pc), UNCHANGED <<candidate, taught, cards, bought, revisions>>
      PROVE  CardSafe'
  <2>1. CardTypes'
    BY <1>1, <1>2, GoneOn DEF CardTypes
  <2>2. QED
    BY <1>2, <2>1, RowStaysOrEnds
<1>3. CASE Cards!Arrive(h)
  <2>1. GoesOn(h, "claim")
    BY <1>3 DEF Cards!Arrive, GoesOn, Cards!InDatabase
  <2>2. QED
    BY <1>2, <1>3, <2>1 DEF Cards!Arrive
<1>4. CASE Cards!CallsFree(h)
  <2>1. PICK pc \in {"complete", "terminate", "fail"} : Cards!Go(h, pc)
    BY <1>4 DEF Cards!CallsFree
  <2>2. GoesOn(h, pc)
    BY <1>4, <2>1 DEF Cards!CallsFree, GoesOn, Cards!InDatabase
  <2>3. QED
    BY <1>2, <1>4, <2>2 DEF Cards!CallsFree
<1>5. CASE Cards!Asks(h)
  <2> DEFINE pc == Cards!After(h, Cards!Asked(h).is)
  <2>1. maker[h] \in Cards!InDatabase /\ Cards!Effects(h, Cards!Asked(h)) /\ Cards!Go(h, pc)
            /\ UNCHANGED <<taught, revisions>>
    BY <1>5 DEF Cards!Asks
  <2>2. \/ pc \in {"mark", "fail", "callFree", "done"}
             /\ maker[h] \in {"claim", "mark", "markFree", "fail"}
        \/ pc \in {"terminate", "done"} /\ maker[h] \in {"complete", "again", "terminate"}
        \/ pc = "call" /\ maker[h] = "mark" /\ Cards!Asked(h).is = "dispatched"
    BY <2>1 DEF Cards!After, Cards!InDatabase
  <2> HIDE DEF pc
  <2>3. \/ GoesOn(h, pc)
        \/ pc = "call" /\ Cards!Go(h, pc) /\ maker[h] = "mark" /\ Cards!Asked(h).is = "dispatched"
    BY <2>1, <2>2 DEF GoesOn, Cards!InDatabase
  <2>4. QED
    BY <2>1, <2>3, AskedKeeps
<1>6. CASE Cards!Breaks(h)
  <2>1. PICK pc : /\ Cards!Go(h, pc)
                  /\ pc = CASE maker[h] \in {"mark", "markFree"} -> "fail"
                            [] maker[h] = "complete" -> "again"
                            [] maker[h] = "again" -> "terminate"
                            [] OTHER -> "done"
    BY <1>6 DEF Cards!Breaks
  <2>2. maker[h] \in Cards!InDatabase /\ UNCHANGED <<taught, revisions>>
    BY <1>6 DEF Cards!Breaks
  <2>3. GoesOn(h, pc)
    BY <2>1, <2>2 DEF GoesOn, Cards!InDatabase
  <2>4. QED
    BY <1>2, <1>6, <2>2, <2>3, AskedKeeps DEF Cards!Breaks
<1>7. QED
  BY <1>3, <1>4, <1>5, <1>6

\* The one handler that calls is the one that pays.
LEMMA CallKeeps ==
  ASSUME CardSafe, NEW h \in Handlers, Cards!Calls(h) \/ Cards!Die(h)
  PROVE  CardSafe'
<1>1. CardTypes /\ OneCalls /\ OnePaid /\ bought \subseteq Handlers
  BY DEF CardSafe, CardTypes
<1>2. UNCHANGED <<candidate, taught, cards, revisions>>
  BY DEF Cards!Calls, Cards!Die
<1>3. PICK pc \in {"complete", "terminate", "fail", "markFree", "done"} :
        /\ Cards!Go(h, pc)
        /\ pc \in {"fail", "markFree"} => maker[h] = "call" /\ bought' = bought
        /\ bought' = bought
             \/ (bought' = bought \cup {h} /\ maker[h] = "call"
                  /\ pc \in {"complete", "terminate", "done"})
        /\ maker[h] = "call" \/ pc = "done"
  <2>1. CASE Cards!Calls(h)
    BY <2>1 DEF Cards!Calls
  <2>2. CASE Cards!Die(h)
    BY <2>2 DEF Cards!Die
  <2>3. QED
    BY <2>1, <2>2
<1>4. GoesOn(h, pc)
  BY <1>3 DEF GoesOn, Cards!InDatabase
<1>5. CardTypes'
  BY <1>1, <1>2, <1>3, <1>4, GoneOn DEF CardTypes
<1>6. CASE bought' = bought
  BY <1>2, <1>4, <1>5, <1>6, RowStaysOrEnds
<1>7. CASE bought' = bought \cup {h} /\ maker[h] = "call" /\ pc \in {"complete", "terminate", "done"}
  <2>1. bought = {} /\ CardSent(h) /\ \A g \in Handlers : maker[g] = "call" => g = h
    BY <1>1, <1>7 DEF OneCalls
  <2>2. \A g \in Handlers : maker'[g] # "call"
    BY <1>4, <2>1, GoneOn
  <2>3. maker'[h] = pc /\ CardSent(h)'
    BY <1>1, <1>2, <1>3, <2>1 DEF CardTypes, Cards!Go, CardSent, Cards!Mine
  <2>4. PaidAreOver' /\ OnePaid' /\ OneCalls' /\ OneCard'
    BY <1>2, <1>7, <2>1, <2>2, <2>3 DEF PaidAreOver, OnePaid, OneCalls, OneCard, CardSafe
  <2>5. QED
    BY <1>5, <2>4 DEF CardSafe
<1>8. QED
  BY <1>3, <1>6, <1>7

------------------------------------------------------------------------------

\* What the clock and the owner do to a row.
LEMMA RowChanges ==
  ASSUME CardSafe, candidate' \in CardRows, UNCHANGED <<maker, taught, cards, bought, revisions>>,
         \/ candidate.status \in Final /\ candidate'.status \in Final
         \/ candidate.status \notin Final /\ candidate'.status \in Final
         \/ candidate.status = candidate'.status /\ candidate.token = candidate'.token /\ candidate.dispatched = candidate'.dispatched
         \/ candidate.status \in {"none", "needs_grounding", "failed"} /\ candidate'.status \notin Final
  PROVE  CardSafe'
<1>1. CardTypes'
  BY DEF CardSafe, CardTypes
<1>2. \A h \in Handlers : CardSent(h) => CardSent(h)'
  BY DEF CardSent, Cards!Mine, Final
<1>3. bought \subseteq Handlers /\ (candidate.status \in Final => candidate'.status \in Final)
  BY DEF CardSafe, CardTypes, Final
<1>4. PaidAreOver' /\ OnePaid' /\ OneCalls' /\ OneCard'
  BY <1>2, <1>3 DEF CardSafe, PaidAreOver, OnePaid, OneCalls, OneCard
<1>5. QED
  BY <1>1, <1>4 DEF CardSafe

\* What the owner does to a card, and a lease that ends.
LEMMA OwnerKeeps ==
  ASSUME CardSafe,
         \/ Cards!Expire \/ Cards!Ground \/ Cards!Approve \/ Cards!Unapprove \/ Cards!Reject
         \/ \E source \in Sources \cup {None} : Cards!Record(source)
         \/ \E action \in {"dismissed", "reinforce_existing"} : Cards!Resolve(action)
  PROVE  CardSafe'
<1>1. candidate \in CardRows /\ taught \in Sources /\ candidate.status \in CardStatuses
  BY DEF CardSafe, CardTypes, CardRows
<1>2. UNCHANGED <<maker, taught, cards, bought, revisions>>
  BY DEF Cards!Expire, Cards!Ground, Cards!Approve, Cards!Unapprove, Cards!Reject, Cards!Record,
      Cards!Resolve, Cards!Changes
<1>3. CASE Cards!Expire
  <2>1. /\ candidate' \in CardRows /\ candidate.status = candidate'.status /\ candidate.token = candidate'.token
        /\ candidate.dispatched = candidate'.dispatched
    BY <1>1, <1>3 DEF Cards!Expire, CardRows
  <2>2. QED
    BY <1>2, <2>1, RowChanges
<1>4. CASE Cards!Ground
  <2>1. candidate' \in CardRows /\ candidate'.status = "detected"
            /\ candidate.status \in {"needs_grounding", "failed"}
    BY <1>1, <1>4 DEF Cards!Ground, Cards!Changes, CardRows, CardStatuses
  <2>2. QED
    BY <1>2, <2>1, RowChanges DEF Final
<1>5. CASE Cards!Approve \/ Cards!Unapprove
  <2>1. candidate' \in CardRows /\ candidate'.status \in {"approved", "pending_review"}
    BY <1>1, <1>5 DEF Cards!Approve, Cards!Unapprove, Cards!Changes, CardRows, CardStatuses
  <2>2. QED
    BY <1>2, <2>1, RowChanges DEF Final
<1>6. ASSUME NEW status \in {"dismissed", "reinforce_existing"}, NEW left \in {candidate.card, None},
             candidate' = [Cards!Ended(status) EXCEPT !.card = left]
      PROVE  CardSafe'
  <2>1. Cards!Ended(status) \in CardRows /\ Cards!Ended(status).status = status
    BY <1>1 DEF Cards!Ended, CardRows, CardStatuses
  <2>2. left \in Nat \cup {None}
    BY <1>1 DEF CardRows
  <2>3. candidate' \in CardRows /\ candidate'.status = status
    BY <1>6, <2>1, <2>2 DEF CardRows
  <2>4. QED
    BY <1>2, <2>3, RowChanges DEF Final
<1>7. CASE Cards!Reject
  BY <1>6, <1>7 DEF Cards!Reject, Cards!Changes
<1>8. CASE \E action \in {"dismissed", "reinforce_existing"} : Cards!Resolve(action)
  <2>1. PICK action \in {"dismissed", "reinforce_existing"} : Cards!Resolve(action)
    BY <1>8
  <2>2. candidate' = [Cards!Ended(action) EXCEPT !.card = IF action = "dismissed" THEN candidate.card ELSE None]
    BY <2>1 DEF Cards!Resolve, Cards!Changes
  <2>3. QED
    BY <1>6, <2>2
<1>9. CASE \E source \in Sources \cup {None} : Cards!Record(source)
  <2>1. PICK source \in Sources \cup {None} : Cards!Record(source)
    BY <1>9
  <2>2. candidate' \in CardRows /\ candidate'.status \in {"needs_grounding", "detected"}
        /\ candidate.status \in {"none", "needs_grounding"}
    <3>1. Cards!NoRow \in CardRows
      BY DEF Cards!NoRow, CardRows, CardStatuses
    <3>2. QED
      BY <1>1, <2>1, <3>1 DEF Cards!Record, Cards!Changes, CardRows, CardStatuses
  <2>3. QED
    BY <1>2, <2>2, RowChanges DEF Final
<1>10. QED
  BY <1>3, <1>4, <1>5, <1>7, <1>8, <1>9

\* The lesson is revised, or nothing changes.
LEMMA ReviseKeeps ==
  ASSUME CardSafe, Cards!Revise \/ UNCHANGED Cards!vars
  PROVE  CardSafe'
  BY DEF CardSafe, CardTypes, PaidAreOver, OnePaid, OneCalls, OneCard, CardSent, Cards!Mine,
      Cards!Revise, Cards!vars

------------------------------------------------------------------------------

\* Every reachable state of a mistake's card satisfies the inductive invariant.
THEOREM CardsAreSafe == Cards!Spec => []CardSafe
<1>1. Cards!Init => CardSafe
  BY CardInit
<1>2. CardSafe /\ [Cards!Next]_(Cards!vars) => CardSafe'
  BY HandlerKeeps, CallKeeps, OwnerKeeps, ReviseKeeps DEF Cards!Next
<1>3. QED
  BY <1>1, <1>2, PTL DEF Cards!Spec

\* A mistake's card is paid for once, and drafted at most once, however many
\* handlers claim it and whichever of them die.
THEOREM CardsArePaidOnce == Cards!Spec => []CardPaidOnce
<1>1. CardSafe => CardPaidOnce
  BY DEF CardSafe, OnePaid, OneCard, CardPaidOnce, Cards!CardPaidOnce
<1>2. QED
  BY <1>1, CardsAreSafe, PTL

------------------------------------------------------------------------------
(***************************************************************************)
(* The jobs, for any finite set of workers and any sources, versions and   *)
(* bounds: a source is paid once, and once more for each retry that the    *)
(* administrator agreed to.                                                *)
(*                                                                         *)
(* This is a count, and not inductive.  The invariant counts, beside the   *)
(* calls made, the workers that may still make one (Payers): together they *)
(* are at most what was agreed to, and one more where a call is owed, that is *)
(* where a marked job of the source is open or its questions are stored    *)
(* (Balanced).  A worker starts to count when it marks a job, which no owed *)
(* source allows (UnsentIsUnowed); versions of one source do not run side by *)
(* side (OneRunning).                                                      *)
(***************************************************************************)

JobRows ==
  [status : {"none", "pending", "deferred", "running", "completed", "failed", "dead_letter"},
   attempts : Nat, token : Workers \cup {None}, expired : BOOLEAN, dispatched : BOOLEAN]

JobWorkers ==
  [pc : {"idle", "mark", "call", "complete", "fail", "defer"}, job : Queue!Jobs \cup {None},
   provider : {None, "openai", "gemini"}, calls : Nat]

JobTypes ==
  /\ job \in [Queue!Jobs -> JobRows] /\ worker \in [Workers -> JobWorkers] /\ lesson \in Sources
  /\ drafted \in [Sources -> Nat] /\ paid \in [Sources -> Int] /\ agreed \in [Sources -> Nat]

Works(w) ==
  /\ worker[w].pc # "idle" => worker[w].job \in Queue!Jobs
  /\ worker[w].pc \in {"call", "complete", "defer"} /\ Queue!Mine(w)
       => job[worker[w].job].dispatched
Working == \A w \in Workers : Works(w)

\* A call of the source may have been paid and nobody has agreed to another one.
Owes(j) == job[j].status \in {"running", "failed", "dead_letter"} /\ job[j].dispatched
Owed(s) == drafted[s] > 0 \/ \E j \in Queue!Jobs : Queue!Source(j) = s /\ Owes(j)

QueuedIsUnsent == \A j \in Queue!Jobs : job[j].status \in Queue!Queued \cup {"none"}
    => ~ job[j].dispatched

OneRunning ==
  \A j, k \in Queue!Jobs :
    job[j].status = "running" /\ job[k].status = "running" /\ Queue!Source(j) = Queue!Source(k)
        => j = k

UnsentIsUnowed ==
  \A j \in Queue!Jobs : job[j].status = "running" /\ ~ job[j].dispatched => ~ Owed(Queue!Source(j))

\* The workers whose next call of the source is covered by the mark of their job.
MayPay(w, s) ==
  /\ worker[w].pc \in {"call", "mark", "defer"} /\ Queue!Source(worker[w].job) = s
  /\ worker[w].pc = "call" \/ (Queue!Mine(w) /\ job[worker[w].job].dispatched)
Payers(s) == {w \in Workers : MayPay(w, s)}

Balanced ==
  \A s \in Sources : paid[s] + Cardinality(Payers(s)) <= agreed[s] + (IF Owed(s) THEN 1 ELSE 0)

JobsSafe == JobTypes /\ Working /\ QueuedIsUnsent /\ OneRunning /\ UnsentIsUnowed /\ Balanced

\* A job is of a source.
LEMMA SourceOf == ASSUME NEW j \in Queue!Jobs PROVE Queue!Source(j) \in Sources
  BY DEF Queue!Jobs, Queue!Source

\* No job is queued and nobody is paid.
LEMMA JobsInit == ASSUME Queue!JobsAssumption, Queue!Init PROVE JobsSafe
<1>1. JobTypes
  BY DEF Queue!Init, JobTypes, JobRows, JobWorkers, Queue!NoJob, Queue!Idle, Queue!Zero
<1>2. Working /\ QueuedIsUnsent /\ OneRunning /\ UnsentIsUnowed
  BY DEF Queue!Init, Working, Works, QueuedIsUnsent, OneRunning, UnsentIsUnowed, Queue!NoJob,
      Queue!Idle
<1>3. Balanced
  <2>1. ASSUME NEW s \in Sources PROVE Cardinality(Payers(s)) = 0
    <3>1. Payers(s) = {}
      BY DEF Queue!Init, Payers, MayPay, Queue!Idle
    <3>2. QED
      BY <3>1, FS_EmptySet
  <2>2. ASSUME NEW s \in Sources PROVE paid[s] = 0 /\ agreed[s] = 0
    BY DEF Queue!Init, Queue!Zero
  <2>3. QED
    BY <2>1, <2>2 DEF Balanced
<1>4. QED
  BY <1>1, <1>2, <1>3 DEF JobsSafe

\* The instance calls finite what FiniteSets does.
LEMMA JobsFinite == ASSUME NEW S PROVE Queue!IsFiniteSet(S) = IsFiniteSet(S)
  BY DEF Queue!IsFiniteSet, IsFiniteSet

\* Sets of workers, counted.
LEMMA Counted ==
  ASSUME Queue!JobsAssumption, NEW S \in SUBSET Workers, NEW T \in SUBSET Workers
  PROVE  /\ Cardinality(S) \in Nat /\ Cardinality(T) \in Nat
         /\ S \subseteq T => Cardinality(S) <= Cardinality(T)
         /\ \A w \in T : S \subseteq T \ {w} => Cardinality(S) + 1 <= Cardinality(T)
         /\ \A w \in Workers : S \subseteq T \cup {w} => Cardinality(S) <= Cardinality(T) + 1
<1>1. IsFiniteSet(Workers) /\ IsFiniteSet(S) /\ IsFiniteSet(T)
  BY FS_Subset, JobsFinite DEF Queue!JobsAssumption
<1>2. Cardinality(S) \in Nat /\ Cardinality(T) \in Nat
  BY <1>1, FS_CardinalityType
<1>3. S \subseteq T => Cardinality(S) <= Cardinality(T)
  BY <1>1, FS_Subset
<1>4. ASSUME NEW w \in T, S \subseteq T \ {w} PROVE Cardinality(S) + 1 <= Cardinality(T)
  <2>1. IsFiniteSet(T \ {w}) /\ Cardinality(T \ {w}) = Cardinality(T) - 1
    BY <1>1, FS_RemoveElement
  <2>2. Cardinality(S) <= Cardinality(T \ {w})
    BY <1>4, <2>1, FS_Subset
  <2>3. QED
    BY <1>2, <2>1, <2>2
<1>5. ASSUME NEW w \in Workers, S \subseteq T \cup {w} PROVE Cardinality(S) <= Cardinality(T) + 1
  <2>1. /\ IsFiniteSet(T \cup {w})
        /\ Cardinality(T \cup {w}) = Cardinality(T) \/ Cardinality(T \cup {w}) = Cardinality(T) + 1
    BY <1>1, FS_AddElement
  <2>2. Cardinality(S) <= Cardinality(T \cup {w})
    BY <1>5, <2>1, FS_Subset
  <2>3. QED
    BY <1>2, <2>1, <2>2
<1>6. QED
  BY <1>2, <1>3, <1>4, <1>5

\* The balance of a source is kept when it owes no less and no worker more may pay,
\* when a call is paid by one of those that might, and when what it owed is agreed to
\* or given back.
LEMMA BalanceKept ==
  ASSUME Queue!JobsAssumption, JobTypes, JobTypes', Balanced, NEW s \in Sources,
         NEW went \in {0, 1}, NEW come \in {0, 1},
         went = 1 => \E w \in Payers(s) : Payers(s)' \subseteq Payers(s) \ {w},
         went = 0 /\ come = 0 => Payers(s)' \subseteq Payers(s),
         went = 0 /\ come = 1 => \E w \in Workers : Payers(s)' \subseteq Payers(s) \cup {w},
         paid'[s] - agreed'[s] + come + (IF Owed(s) THEN 1 ELSE 0)
           <= paid[s] - agreed[s] + went + (IF Owed(s)' THEN 1 ELSE 0)
  PROVE  paid'[s] + Cardinality(Payers(s))' <= agreed'[s] + (IF Owed(s)' THEN 1 ELSE 0)
<1> DEFINE P == Payers(s)
           Q == Payers(s)'
<1>1. P \in SUBSET Workers /\ Q \in SUBSET Workers
  BY DEF Payers
<1>2. paid[s] \in Int /\ paid'[s] \in Int /\ agreed[s] \in Nat /\ agreed'[s] \in Nat
  BY DEF JobTypes
<1>3. paid[s] + Cardinality(P) <= agreed[s] + (IF Owed(s) THEN 1 ELSE 0)
  BY DEF Balanced
<1> HIDE DEF P, Q
<1>4. Cardinality(P) \in Nat /\ Cardinality(Q) \in Nat
  BY <1>1, Counted
<1>5. Cardinality(Q) + went <= Cardinality(P) + come
  <2>1. CASE went = 1
    <3>1. PICK w \in P : Q \subseteq P \ {w}
      BY <2>1 DEF P, Q
    <3>2. Cardinality(Q) + 1 <= Cardinality(P)
      BY <1>1, <3>1, Counted
    <3>3. QED
      BY <2>1, <3>2, <1>4
  <2>2. CASE went = 0 /\ come = 0
    <3>1. Q \subseteq P
      BY <2>2 DEF P, Q
    <3>2. QED
      BY <2>2, <1>1, <1>4, <3>1, Counted
  <2>3. CASE went = 0 /\ come = 1
    <3>1. PICK w \in Workers : Q \subseteq P \cup {w}
      BY <2>3 DEF P, Q
    <3>2. QED
      BY <2>3, <1>1, <1>4, <3>1, Counted
  <2>4. QED
    BY <2>1, <2>2, <2>3
<1>6. paid'[s] + Cardinality(Q) <= agreed'[s] + (IF Owed(s)' THEN 1 ELSE 0)
  BY <1>2, <1>3, <1>4, <1>5
<1>7. QED
  BY <1>6 DEF Q

\* A step that changes one job, and no worker's claim of it.
Changes(j, new) == new \in JobRows /\ job' = [job EXCEPT ![j] = new]
OthersDrafts(j) == drafted' \in [Sources -> Nat]
    /\ \A s \in Sources \ {Queue!Source(j)} : drafted'[s] = drafted[s]

\* A step that changes one job, as the code may, keeps what is said of all.
LEMMA OneJob ==
  ASSUME JobTypes, QueuedIsUnsent, OneRunning, UnsentIsUnowed, NEW j \in Queue!Jobs, NEW new,
         Changes(j, new), OthersDrafts(j),
         new.status \in Queue!Queued \cup {"none"} => ~ new.dispatched,
         new.status = "running" => job[j].status = "running"
             /\ (job[j].dispatched => new.dispatched),
         new.status \in {"failed", "dead_letter"} /\ new.dispatched => Owes(j)
             \/ job[j].status = "running",
         drafted' = drafted \/ (job[j].status = "running" /\ new.status # "running")
  PROVE  /\ QueuedIsUnsent' /\ OneRunning' /\ UnsentIsUnowed'
         /\ job' \in [Queue!Jobs -> JobRows] /\ job'[j] = new
         /\ \A k \in Queue!Jobs \ {j} : job'[k] = job[k]
         /\ \A s \in Sources \ {Queue!Source(j)} : Owed(s)' = Owed(s)
<1>1. job' \in [Queue!Jobs -> JobRows] /\ job'[j] = new
          /\ \A k \in Queue!Jobs \ {j} : job'[k] = job[k]
  BY DEF Changes, JobTypes
<1>2. QueuedIsUnsent' /\ OneRunning'
  BY <1>1 DEF QueuedIsUnsent, OneRunning
<1>3. \A k \in Queue!Jobs \ {j} : Owes(k)' = Owes(k)
  BY <1>1 DEF Owes
<1>4. \A s \in Sources \ {Queue!Source(j)} : Owed(s)' = Owed(s)
  BY <1>3 DEF Owed, OthersDrafts
<1>5. ASSUME NEW k \in Queue!Jobs, job'[k].status = "running", ~ job'[k].dispatched
      PROVE  ~ Owed(Queue!Source(k))'
  <2>1. job[k].status = "running" /\ ~ job[k].dispatched
    BY <1>1, <1>5
  <2>2. Queue!Source(k) \in Sources /\ ~ Owed(Queue!Source(k))
    BY <2>1, SourceOf DEF UnsentIsUnowed
  <2>3. CASE Queue!Source(k) # Queue!Source(j)
    BY <2>2, <2>3, <1>4
  <2>4. CASE Queue!Source(k) = Queue!Source(j) /\ job[j].status = "running"
    <3>1. k = j
      BY <2>1, <2>4 DEF OneRunning
    <3>2. drafted' = drafted /\ ~ Owes(j)'
      BY <3>1, <1>1, <1>5 DEF Owes
    <3>3. QED
      BY <3>1, <3>2, <2>2, <1>3 DEF Owed
  <2>5. CASE Queue!Source(k) = Queue!Source(j) /\ job[j].status # "running"
    <3>1. k # j /\ ~ Owes(j)
      BY <2>1, <2>2, <2>5 DEF Owed
    <3>2. ~ Owes(j)' /\ drafted' = drafted
      BY <3>1, <2>5, <1>1 DEF Owes
    <3>3. QED
      BY <3>2, <2>2, <1>3 DEF Owed
  <2>6. QED
    BY <2>3, <2>4, <2>5
<1>6. UnsentIsUnowed'
  BY <1>5 DEF UnsentIsUnowed
<1>7. QED
  BY <1>1, <1>2, <1>4, <1>6

\* A worker that does not move, and whose job is changed by nobody else.
LEMMA StillWorks ==
  ASSUME NEW u \in Workers, Works(u), worker'[u] = worker[u],
         worker[u].job \in Queue!Jobs =>
           \/ job'[worker[u].job] = job[worker[u].job]
           \/ ~ Queue!Mine(u)'
           \/ Queue!Mine(u) /\ job'[worker[u].job].dispatched = job[worker[u].job].dispatched
  PROVE  Works(u)' /\ \A s \in Sources : MayPay(u, s)' => MayPay(u, s)
<1>1. CASE worker[u].job \in Queue!Jobs
  <2>1. Queue!Mine(u)' => Queue!Mine(u)
            /\ job'[worker[u].job].dispatched = job[worker[u].job].dispatched
    BY <1>1 DEF Queue!Mine
  <2>2. QED
    BY <1>1, <2>1 DEF Works, MayPay
<1>2. CASE worker[u].job \notin Queue!Jobs
  BY <1>2 DEF Works, MayPay
<1>3. QED
  BY <1>1, <1>2

\* Worker w moves.
Steps(w, pc) ==
  /\ worker' \in [Workers -> JobWorkers] /\ \A u \in Workers \ {w} : worker'[u] = worker[u]
  /\ worker'[w].pc = pc /\ worker'[w].job = worker[w].job

\* A worker goes on to its next step.
LEMMA WentOn ==
  ASSUME JobTypes, NEW w \in Workers, NEW pc \in {"mark", "call", "complete", "fail", "defer"},
         Queue!Go(w, pc)
  PROVE  Steps(w, pc)
<1> DEFINE new == [worker[w] EXCEPT !.pc = pc]
<1>1. worker \in [Workers -> JobWorkers] /\ worker[w] \in JobWorkers
  BY DEF JobTypes
<1>2. new \in JobWorkers /\ new.pc = pc /\ new.job = worker[w].job
  BY <1>1 DEF JobWorkers
<1>3. worker' = [worker EXCEPT ![w] = new]
  BY <1>1 DEF Queue!Go
<1> HIDE DEF new
<1>4. QED
  BY <1>1, <1>2, <1>3 DEF Steps

\* Steps of the administrator and the content sync: no worker moves.
LEMMA QueueStep ==
  ASSUME Queue!JobsAssumption, JobsSafe, NEW j \in Queue!Jobs, NEW new, NEW pay \in {0, 1},
         Changes(j, new), UNCHANGED <<worker, drafted, paid>>, lesson' \in Sources,
         new.status \in Queue!Queued \cup {"none"} => ~ new.dispatched,
         new.status = "running" =>
           job[j].status = "running" /\ new.token = job[j].token
               /\ new.dispatched = job[j].dispatched,
         new.status \notin {"failed", "dead_letter"},
         agreed' = IF pay = 1 THEN [agreed EXCEPT ![Queue!Source(j)] = @ + 1] ELSE agreed,
         pay = 0 => (Owes(j) => new.status = "running")
  PROVE  JobsSafe'
<1> USE DEF JobsSafe
<1>1. OthersDrafts(j) /\ Queue!Source(j) \in Sources
  BY SourceOf DEF OthersDrafts, JobTypes
<1>2. /\ QueuedIsUnsent' /\ OneRunning' /\ UnsentIsUnowed'
      /\ job' \in [Queue!Jobs -> JobRows] /\ job'[j] = new
      /\ \A k \in Queue!Jobs \ {j} : job'[k] = job[k]
      /\ \A s \in Sources \ {Queue!Source(j)} : Owed(s)' = Owed(s)
  BY <1>1, OneJob
<1>3. JobTypes'
  BY <1>1, <1>2 DEF JobTypes
<1>4. ASSUME NEW u \in Workers
      PROVE  Works(u)' /\ \A s \in Sources : MayPay(u, s)' => MayPay(u, s)
  <2>1. Works(u) /\ worker'[u] = worker[u]
    BY DEF Working
  <2>2. worker[u].job \in Queue!Jobs =>
           \/ job'[worker[u].job] = job[worker[u].job]
           \/ ~ Queue!Mine(u)'
           \/ Queue!Mine(u) /\ job'[worker[u].job].dispatched = job[worker[u].job].dispatched
    BY <1>2 DEF Queue!Mine
  <2>3. QED
    BY <2>1, <2>2, StillWorks
<1>5. Working'
  BY <1>4 DEF Working
<1>6. ASSUME NEW s \in Sources
      PROVE  paid'[s] + Cardinality(Payers(s))' <= agreed'[s] + (IF Owed(s)' THEN 1 ELSE 0)
  <2>1. Payers(s)' \subseteq Payers(s)
    BY <1>4 DEF Payers
  <2>2. paid'[s] = paid[s] /\ paid[s] \in Int /\ agreed[s] \in Nat /\ agreed'[s] \in Nat
    BY <1>3 DEF JobTypes
  <2>3. CASE s # Queue!Source(j)
    <3>1. agreed'[s] = agreed[s] /\ Owed(s)' = Owed(s)
      BY <1>2, <2>3 DEF JobTypes
    <3>2. QED
      BY <1>3, <2>1, <2>2, <3>1, BalanceKept
  <2>4. CASE s = Queue!Source(j) /\ pay = 1
    <3>1. agreed'[s] = agreed[s] + 1
      BY <2>4, <1>1 DEF JobTypes
    <3>2. paid'[s] - agreed'[s] + 0 + (IF Owed(s) THEN 1 ELSE 0)
           <= paid[s] - agreed[s] + 0 + (IF Owed(s)' THEN 1 ELSE 0)
      BY <2>2, <3>1
    <3>3. QED
      BY <1>3, <2>1, <3>2, BalanceKept
  <2>5. CASE s = Queue!Source(j) /\ pay = 0
    <3>1. Owes(j) => Owes(j)'
      BY <1>2, <2>5 DEF Owes
    <3>2. \A k \in Queue!Jobs : Owes(k) => Owes(k)'
      BY <1>2, <3>1 DEF Owes
    <3>3. Owed(s) => Owed(s)'
      BY <3>2 DEF Owed
    <3>4. agreed'[s] = agreed[s]
      BY <2>5
    <3>5. paid'[s] - agreed'[s] + 0 + (IF Owed(s) THEN 1 ELSE 0)
           <= paid[s] - agreed[s] + 0 + (IF Owed(s)' THEN 1 ELSE 0)
      BY <2>2, <3>3, <3>4
    <3>6. QED
      BY <1>3, <2>1, <3>5, BalanceKept
  <2>6. QED
    BY <2>3, <2>4, <2>5
<1>7. Balanced'
  BY <1>6 DEF Balanced
<1>8. QED
  BY <1>2, <1>3, <1>5, <1>7

\* A job is enqueued.
LEMMA EnqueueStep ==
  ASSUME Queue!JobsAssumption, JobsSafe, NEW v \in Versions, Queue!Enqueue(v)
  PROVE  JobsSafe'
<1> DEFINE j == <<lesson, v>>
           new == [job[j] EXCEPT !.status = "pending"]
<1>1. j \in Queue!Jobs /\ lesson \in Sources /\ job[j] \in JobRows
  BY DEF JobsSafe, JobTypes, Queue!Jobs
<1>2. /\ job[j].status = "none" /\ job' = [job EXCEPT ![j] = new]
      /\ UNCHANGED <<worker, lesson, drafted, paid, agreed>>
  BY <1>1 DEF Queue!Enqueue, JobsSafe, JobTypes
<1>3. new \in JobRows /\ new.status = "pending" /\ new.dispatched = job[j].dispatched
  BY <1>1 DEF JobRows
<1>4. ~ job[j].dispatched
  BY <1>1, <1>2 DEF JobsSafe, QueuedIsUnsent
<1> HIDE DEF new, j
<1>5. agreed' = IF 0 = 1 THEN [agreed EXCEPT ![Queue!Source(j)] = @ + 1] ELSE agreed
  BY <1>2
<1>6. Changes(j, new) /\ lesson' \in Sources /\ ~ Owes(j) /\ UNCHANGED <<worker, drafted, paid>>
  BY <1>1, <1>2, <1>3 DEF Changes, Owes
<1>7. QED
  BY <1>1, <1>3, <1>4, <1>5, <1>6, QueueStep

\* A lease ends.
LEMMA ExpireStep ==
  ASSUME Queue!JobsAssumption, JobsSafe, NEW j \in Queue!Jobs, Queue!Expire(j)
  PROVE  JobsSafe'
<1> DEFINE new == [job[j] EXCEPT !.expired = TRUE]
<1>1. lesson \in Sources /\ job[j] \in JobRows
  BY DEF JobsSafe, JobTypes
<1>2. /\ job[j].status = "running" /\ job' = [job EXCEPT ![j] = new]
      /\ UNCHANGED <<worker, lesson, drafted, paid, agreed>>
  BY <1>1 DEF Queue!Expire, JobsSafe, JobTypes
<1>3. /\ new \in JobRows /\ new.status = "running" /\ new.token = job[j].token
      /\ new.dispatched = job[j].dispatched
  BY <1>1, <1>2 DEF JobRows
<1> HIDE DEF new
<1>4. agreed' = IF 0 = 1 THEN [agreed EXCEPT ![Queue!Source(j)] = @ + 1] ELSE agreed
  BY <1>2
<1>5. Changes(j, new) /\ lesson' \in Sources /\ UNCHANGED <<worker, drafted, paid>>
  BY <1>1, <1>2, <1>3 DEF Changes
<1>6. QED
  BY <1>2, <1>3, <1>4, <1>5, QueueStep DEF Queue!Queued

\* The owner has a job made again.
LEMMA RetryStep ==
  ASSUME Queue!JobsAssumption, JobsSafe, NEW j \in Queue!Jobs, NEW v \in Versions, Queue!Retry(j, v)
  PROVE  JobsSafe'
<1> DEFINE new == IF Queue!Version(j) = v THEN [Queue!NoJob EXCEPT !.status = "pending"]
                  ELSE [Queue!Freed(job[j], "completed") EXCEPT !.dispatched = FALSE]
           pay == IF job[j].dispatched THEN 1 ELSE 0
<1>1. lesson \in Sources /\ job[j] \in JobRows
  BY DEF JobsSafe, JobTypes
<1>2. /\ job' = [job EXCEPT ![j] = new] /\ UNCHANGED <<worker, lesson, drafted, paid>>
      /\ agreed' = IF pay = 1 THEN [agreed EXCEPT ![Queue!Source(j)] = @ + 1] ELSE agreed
  BY <1>1 DEF Queue!Retry, JobsSafe, JobTypes
<1>3. new \in JobRows /\ new.status \in {"pending", "completed"} /\ ~ new.dispatched
  BY <1>1 DEF JobRows, Queue!NoJob, Queue!Freed
<1>4. pay = 0 => ~ Owes(j)
  BY DEF Owes
<1> HIDE DEF new
<1>5. pay \in {0, 1}
  OBVIOUS
<1> HIDE DEF pay
<1>6. QED
  BY <1>1, <1>2, <1>3, <1>4, <1>5, QueueStep DEF Changes

\* A worker's step: it moves, and changes at most the job that is its own.  Of the
\* call that it pays (went) or may still pay (come), its source's balance takes account.
LEMMA WorkerStep ==
  ASSUME Queue!JobsAssumption, JobsSafe, NEW w \in Workers, NEW j \in Queue!Jobs, NEW new,
         NEW went \in {0, 1}, NEW come \in {0, 1},
         j = worker[w].job, Changes(j, new), OthersDrafts(j), UNCHANGED <<lesson, agreed>>,
         new = job[j] \/ (Queue!Mine(w) /\ new.token \in {w, None}
                           /\ (new.status \in Queue!Queued \cup {"none"} => ~ new.dispatched)
                           /\ (new.status = "running" => (job[j].dispatched => new.dispatched))),
         drafted' = drafted \/ (job[j].status = "running" /\ new.status # "running"),
         worker' \in [Workers -> JobWorkers], \A u \in Workers \ {w} : worker'[u] = worker[u],
         Works(w)', worker'[w].pc = "idle" \/ worker'[w].job = j,
         paid' \in [Sources -> Int], \A s \in Sources \ {Queue!Source(j)} : paid'[s] = paid[s],
         went = 1 => MayPay(w, Queue!Source(j)) /\ ~ MayPay(w, Queue!Source(j))',
         went = 0 /\ come = 0 => (MayPay(w, Queue!Source(j))' => MayPay(w, Queue!Source(j))),
         paid'[Queue!Source(j)] + come + (IF Owed(Queue!Source(j)) THEN 1 ELSE 0)
           <= paid[Queue!Source(j)] + went + (IF Owed(Queue!Source(j))' THEN 1 ELSE 0)
  PROVE  JobsSafe'
<1> USE DEF JobsSafe
<1>1. /\ new.status \in Queue!Queued \cup {"none"} => ~ new.dispatched
      /\ new.status = "running" => job[j].status = "running"
           /\ (job[j].dispatched => new.dispatched)
      /\ new.status \in {"failed", "dead_letter"} /\ new.dispatched => Owes(j)
           \/ job[j].status = "running"
  BY DEF QueuedIsUnsent, Queue!Mine, Owes
<1>2. /\ QueuedIsUnsent' /\ OneRunning' /\ UnsentIsUnowed'
      /\ job' \in [Queue!Jobs -> JobRows] /\ job'[j] = new
      /\ \A k \in Queue!Jobs \ {j} : job'[k] = job[k]
      /\ \A s \in Sources \ {Queue!Source(j)} : Owed(s)' = Owed(s)
  BY <1>1, OneJob
<1>3. JobTypes'
  BY <1>2 DEF JobTypes, OthersDrafts
<1>4. ASSUME NEW u \in Workers \ {w}
      PROVE  Works(u)' /\ \A s \in Sources : MayPay(u, s)' => MayPay(u, s)
  <2>1. Works(u) /\ worker'[u] = worker[u]
    BY DEF Working
  <2>2. worker[u].job \in Queue!Jobs =>
           \/ job'[worker[u].job] = job[worker[u].job]
           \/ ~ Queue!Mine(u)'
           \/ Queue!Mine(u) /\ job'[worker[u].job].dispatched = job[worker[u].job].dispatched
    BY <1>2, <2>1 DEF Queue!Mine, Queue!JobsAssumption
  <2>3. QED
    BY <2>1, <2>2, StillWorks
<1>5. Working'
  BY <1>4 DEF Working
<1>6. ASSUME NEW s \in Sources
      PROVE  paid'[s] + Cardinality(Payers(s))' <= agreed'[s] + (IF Owed(s)' THEN 1 ELSE 0)
  <2>1. \A u \in Workers \ {w} : MayPay(u, s)' => MayPay(u, s)
    BY <1>4
  <2>2. /\ paid[s] \in Int /\ paid'[s] \in Int /\ agreed[s] \in Nat /\ agreed'[s] = agreed[s]
        /\ JobTypes /\ Balanced
    BY <1>3 DEF JobTypes
  <2>3. CASE s # Queue!Source(j)
    <3>1. ~ MayPay(w, s)'
      BY <2>3 DEF MayPay
    <3>2. Payers(s)' \subseteq Payers(s)
      BY <2>1, <3>1 DEF Payers
    <3>3. paid'[s] = paid[s] /\ Owed(s)' = Owed(s)
      BY <1>2, <2>3
    <3>4. paid'[s] - agreed'[s] + 0 + (IF Owed(s) THEN 1 ELSE 0)
           <= paid[s] - agreed[s] + 0 + (IF Owed(s)' THEN 1 ELSE 0)
      BY <2>2, <3>3
    <3>5. QED
      BY <1>3, <2>2, <3>2, <3>4, BalanceKept
  <2>4. CASE s = Queue!Source(j)
    <3>1. went = 1 => \E u \in Payers(s) : Payers(s)' \subseteq Payers(s) \ {u}
      <4>1. ASSUME went = 1 PROVE w \in Payers(s) /\ w \notin Payers(s)'
        BY <4>1, <2>4 DEF Payers
      <4>2. QED
        BY <4>1, <2>1 DEF Payers
    <3>2. went = 0 /\ come = 0 => Payers(s)' \subseteq Payers(s)
      BY <2>1, <2>4 DEF Payers
    <3>3. Payers(s)' \subseteq Payers(s) \cup {w}
      BY <2>1 DEF Payers
    <3>4. paid'[s] - agreed'[s] + come + (IF Owed(s) THEN 1 ELSE 0)
           <= paid[s] - agreed[s] + went + (IF Owed(s)' THEN 1 ELSE 0)
      BY <2>2, <2>4
    <3>5. QED
      BY <1>3, <2>2, <3>1, <3>2, <3>3, <3>4, BalanceKept
  <2>5. QED
    BY <2>3, <2>4
<1>7. Balanced'
  BY <1>6 DEF Balanced
<1>8. QED
  BY <1>2, <1>3, <1>5, <1>7

\* A step of a worker that changes no job.
LEMMA IdleJobs ==
  ASSUME JobsSafe, NEW j \in Queue!Jobs, UNCHANGED <<job, drafted>>
  PROVE  /\ Changes(j, job[j]) /\ OthersDrafts(j) /\ \A s \in Sources : Owed(s)' = Owed(s)
  BY DEF JobsSafe, JobTypes, Changes, OthersDrafts, Owed, Owes

\* The provider is asked.
LEMMA CallStep ==
  ASSUME Queue!JobsAssumption, JobsSafe, NEW w \in Workers, NEW j \in Queue!Jobs,
         j = worker[w].job, Queue!Call(w)
  PROVE  JobsSafe'
<1>1. /\ worker[w].pc = "call" /\ Works(w) /\ Queue!Source(j) \in Sources
      /\ worker \in [Workers -> JobWorkers] /\ worker[w] \in JobWorkers /\ paid \in [Sources -> Int]
  BY SourceOf DEF Queue!Call, JobsSafe, Working, Works, JobTypes
<1>2. PICK pc \in {"complete", "fail"} : worker' = [worker EXCEPT ![w].pc = pc, ![w].calls = @ + 1]
  BY DEF Queue!Call
<1> DEFINE new == [worker[w] EXCEPT !.pc = pc, !.calls = @ + 1]
<1>3. new \in JobWorkers /\ new.pc = pc /\ new.job = j
  <2>1. worker[w].calls + 1 \in Nat
    BY <1>1 DEF JobWorkers
  <2>2. QED
    BY <1>1, <2>1 DEF JobWorkers
<1>4. worker' = [worker EXCEPT ![w] = new]
  BY <1>1, <1>2
<1> HIDE DEF new
<1>5. /\ worker' \in [Workers -> JobWorkers] /\ \A u \in Workers \ {w} : worker'[u] = worker[u]
      /\ worker'[w].pc = pc /\ worker'[w].job = j
  BY <1>1, <1>3, <1>4
<1>6. UNCHANGED <<job, lesson, drafted, agreed>> /\ paid' = [paid EXCEPT ![Queue!Source(j)] = @ + 1]
  BY DEF Queue!Call
<1>7. /\ Changes(j, job[j]) /\ OthersDrafts(j) /\ \A s \in Sources : Owed(s)' = Owed(s)
  BY <1>6, IdleJobs
<1>8. Works(w)'
  BY <1>1, <1>5, <1>6 DEF Works, Queue!Mine
<1>9. MayPay(w, Queue!Source(j)) /\ ~ MayPay(w, Queue!Source(j))'
  BY <1>1, <1>5 DEF MayPay
<1>10. /\ paid' \in [Sources -> Int] /\ \A s \in Sources \ {Queue!Source(j)} : paid'[s] = paid[s]
       /\ paid'[Queue!Source(j)] = paid[Queue!Source(j)] + 1
  BY <1>1, <1>6
<1>11. paid'[Queue!Source(j)] + 0 + (IF Owed(Queue!Source(j)) THEN 1 ELSE 0)
           <= paid[Queue!Source(j)] + 1 + (IF Owed(Queue!Source(j))' THEN 1 ELSE 0)
  BY <1>1, <1>7, <1>10
<1>12. QED
  BY <1>1, <1>5, <1>6, <1>7, <1>8, <1>9, <1>10, <1>11, WorkerStep

\* What a worker's place says before its step.
LEMMA PlaceOf ==
  ASSUME JobsSafe, NEW w \in Workers, NEW j \in Queue!Jobs, j = worker[w].job
  PROVE  /\ Works(w) /\ Queue!Source(j) \in Sources /\ JobTypes
         /\ worker \in [Workers -> JobWorkers] /\ worker[w] \in JobWorkers
         /\ paid \in [Sources -> Int] /\ job \in [Queue!Jobs -> JobRows] /\ job[j] \in JobRows
         /\ drafted \in [Sources -> Nat] /\ lesson \in Sources
  BY SourceOf DEF JobsSafe, Working, JobTypes

\* A worker that comes to rest.
LEMMA Rested ==
  ASSUME JobTypes, NEW w \in Workers, worker' = [worker EXCEPT ![w] = Queue!Idle]
  PROVE  /\ worker' \in [Workers -> JobWorkers] /\ \A u \in Workers \ {w} : worker'[u] = worker[u]
         /\ worker'[w].pc = "idle" /\ Works(w)' /\ \A s \in Sources : ~ MayPay(w, s)'
<1>1. Queue!Idle \in JobWorkers /\ Queue!Idle.pc = "idle"
  BY DEF Queue!Idle, JobWorkers
<1>2. worker' \in [Workers -> JobWorkers] /\ worker'[w] = Queue!Idle
      /\ \A u \in Workers \ {w} : worker'[u] = worker[u]
  BY <1>1 DEF JobTypes
<1>3. QED
  BY <1>1, <1>2 DEF Works, MayPay

\* A worker dies.
LEMMA DieStep ==
  ASSUME Queue!JobsAssumption, JobsSafe, NEW w \in Workers, NEW j \in Queue!Jobs,
         j = worker[w].job, Queue!Die(w)
  PROVE  JobsSafe'
<1>1. Queue!Source(j) \in Sources /\ JobTypes /\ paid \in [Sources -> Int]
  BY PlaceOf
<1>2. /\ worker' \in [Workers -> JobWorkers] /\ \A u \in Workers \ {w} : worker'[u] = worker[u]
      /\ worker'[w].pc = "idle" /\ Works(w)' /\ ~ MayPay(w, Queue!Source(j))'
  BY <1>1, Rested DEF Queue!Die
<1>3. UNCHANGED <<job, lesson, drafted, agreed>>
      /\ paid' = IF worker[w].pc = "call" THEN [paid EXCEPT ![Queue!Source(j)] = @ + 1] ELSE paid
  BY DEF Queue!Die
<1>4. /\ Changes(j, job[j]) /\ OthersDrafts(j) /\ (Owed(Queue!Source(j))' <=> Owed(Queue!Source(j)))
  BY <1>1, <1>3, IdleJobs
<1>5. paid' \in [Sources -> Int] /\ \A s \in Sources \ {Queue!Source(j)} : paid'[s] = paid[s]
  BY <1>1, <1>3
<1>6. CASE worker[w].pc = "call"
  <2>1. MayPay(w, Queue!Source(j))
    BY <1>6 DEF MayPay
  <2>2. paid'[Queue!Source(j)] + 0 + (IF Owed(Queue!Source(j)) THEN 1 ELSE 0)
           <= paid[Queue!Source(j)] + 1 + (IF Owed(Queue!Source(j))' THEN 1 ELSE 0)
    BY <1>1, <1>3, <1>4, <1>6
  <2>3. QED
    BY <1>2, <1>3, <1>4, <1>5, <2>1, <2>2, WorkerStep
<1>7. CASE worker[w].pc # "call"
  <2>1. paid'[Queue!Source(j)] + 0 + (IF Owed(Queue!Source(j)) THEN 1 ELSE 0)
           <= paid[Queue!Source(j)] + 0 + (IF Owed(Queue!Source(j))' THEN 1 ELSE 0)
    BY <1>1, <1>3, <1>4, <1>7
  <2>2. QED
    BY <1>2, <1>3, <1>4, <1>5, <2>1, WorkerStep
<1>8. QED
  BY <1>6, <1>7

\* The provider refuses a call without taking money.
LEMMA LimitedStep ==
  ASSUME Queue!JobsAssumption, JobsSafe, NEW w \in Workers, NEW j \in Queue!Jobs,
         j = worker[w].job, Queue!Limited(w)
  PROVE  JobsSafe'
<1>1. /\ Queue!Source(j) \in Sources /\ JobTypes /\ paid \in [Sources -> Int] /\ Works(w)
      /\ worker \in [Workers -> JobWorkers] /\ worker[w] \in JobWorkers
  BY PlaceOf
<1>2. \E pc \in {"mark", "defer"} : Steps(w, pc)
  <2>1. CASE Queue!Go(w, "defer")
    BY <1>1, <2>1, WentOn
  <2>2. ASSUME NEW p \in {"openai", "gemini"},
               worker' = [worker EXCEPT ![w].pc = "mark", ![w].provider = p, ![w].calls = @ + 1]
        PROVE  Steps(w, "mark")
    <3> DEFINE new == [worker[w] EXCEPT !.pc = "mark", !.provider = p, !.calls = @ + 1]
    <3>1. worker[w].calls + 1 \in Nat
      BY <1>1 DEF JobWorkers
    <3>2. new \in JobWorkers /\ new.pc = "mark" /\ new.job = worker[w].job
      BY <1>1, <3>1 DEF JobWorkers
    <3>3. worker' = [worker EXCEPT ![w] = new]
      BY <1>1, <2>2
    <3> HIDE DEF new
    <3>4. QED
      BY <1>1, <3>2, <3>3 DEF Steps
  <2>3. QED
    BY <2>1, <2>2 DEF Queue!Limited
<1>3. UNCHANGED <<job, lesson, drafted, agreed, paid>> /\ worker[w].pc = "call"
  BY DEF Queue!Limited
<1>4. /\ Changes(j, job[j]) /\ OthersDrafts(j) /\ (Owed(Queue!Source(j))' <=> Owed(Queue!Source(j)))
  BY <1>1, <1>3, IdleJobs
<1>5. /\ worker' \in [Workers -> JobWorkers] /\ \A u \in Workers \ {w} : worker'[u] = worker[u]
      /\ worker'[w].job = j /\ Works(w)' /\ MayPay(w, Queue!Source(j))
  BY <1>1, <1>2, <1>3 DEF Steps, Works, Queue!Mine, MayPay
<1>6. paid'[Queue!Source(j)] + 0 + (IF Owed(Queue!Source(j)) THEN 1 ELSE 0)
         <= paid[Queue!Source(j)] + 0 + (IF Owed(Queue!Source(j))' THEN 1 ELSE 0)
  BY <1>1, <1>3, <1>4
<1>7. paid' \in [Sources -> Int] /\ \A s \in Sources \ {Queue!Source(j)} : paid'[s] = paid[s]
  BY <1>1, <1>3
<1>8. QED
  BY <1>3, <1>4, <1>5, <1>6, <1>7, WorkerStep

\* The job is marked dispatched.
LEMMA MarkStep ==
  ASSUME Queue!JobsAssumption, JobsSafe, NEW w \in Workers, NEW j \in Queue!Jobs,
         j = worker[w].job, Queue!Mark(w)
  PROVE  JobsSafe'
<1>1. /\ Queue!Source(j) \in Sources /\ JobTypes /\ paid \in [Sources -> Int] /\ Works(w)
      /\ job \in [Queue!Jobs -> JobRows] /\ job[j] \in JobRows /\ drafted \in [Sources -> Nat]
  BY PlaceOf
<1>2. UNCHANGED <<lesson, drafted, agreed, paid>> /\ worker[w].pc = "mark" /\ OthersDrafts(j)
      /\ paid' \in [Sources -> Int] /\ \A s \in Sources \ {Queue!Source(j)} : paid'[s] = paid[s]
  BY <1>1 DEF Queue!Mark, OthersDrafts
<1>3. CASE Queue!Mine(w) /\ ~ job[j].expired
  <2> DEFINE new == [job[j] EXCEPT !.dispatched = TRUE]
  <2>1. new \in JobRows /\ new.dispatched /\ new.status = "running" /\ new.token = w
    BY <1>1, <1>3 DEF JobRows, Queue!Mine
  <2>2. PICK pc \in {"call", "fail"} : Queue!Go(w, pc)
    BY <1>3 DEF Queue!Mark
  <2>3. Steps(w, pc)
    BY <2>2, <1>1, WentOn
  <2>4. job' = [job EXCEPT ![j] = new]
    BY <1>1, <1>3 DEF Queue!Mark
  <2> HIDE DEF new
  <2>5. Changes(j, new) /\ job'[j] = new
    BY <2>1, <2>4, <1>1 DEF Changes
  <2>6. Owed(Queue!Source(j))'
    BY <2>1, <2>5 DEF Owed, Owes
  <2>7. /\ worker' \in [Workers -> JobWorkers] /\ \A u \in Workers \ {w} : worker'[u] = worker[u]
        /\ worker'[w].job = j /\ Works(w)'
    BY <2>1, <2>3, <2>5 DEF Steps, Works, Queue!Mine
  <2>8. new.status \notin Queue!Queued \cup {"none"}
    BY <2>1 DEF Queue!Queued
  <2>9. CASE job[j].dispatched
    <3>1. MayPay(w, Queue!Source(j))
      BY <1>2, <1>3, <2>9 DEF MayPay
    <3>2. paid'[Queue!Source(j)] + 0 + (IF Owed(Queue!Source(j)) THEN 1 ELSE 0)
             <= paid[Queue!Source(j)] + 0 + (IF Owed(Queue!Source(j))' THEN 1 ELSE 0)
      BY <1>1, <1>2, <2>6
    <3>3. QED
      BY <1>2, <1>3, <2>1, <2>5, <2>7, <2>8, <3>1, <3>2, WorkerStep
  <2>10. CASE ~ job[j].dispatched
    <3>1. ~ Owed(Queue!Source(j))
      BY <1>3, <2>10 DEF JobsSafe, UnsentIsUnowed, Queue!Mine
    <3>2. paid'[Queue!Source(j)] + 1 + (IF Owed(Queue!Source(j)) THEN 1 ELSE 0)
             <= paid[Queue!Source(j)] + 0 + (IF Owed(Queue!Source(j))' THEN 1 ELSE 0)
      BY <1>1, <1>2, <2>6, <3>1
    <3>3. QED
      BY <1>2, <1>3, <2>1, <2>5, <2>7, <2>8, <3>2, WorkerStep
  <2>11. QED
    BY <2>9, <2>10
<1>4. CASE ~ (Queue!Mine(w) /\ ~ job[j].expired)
  <2>1. job' = job /\ Queue!Go(w, "fail")
    BY <1>4 DEF Queue!Mark
  <2>2. Steps(w, "fail")
    BY <2>1, <1>1, WentOn
  <2>3. /\ Changes(j, job[j]) /\ (Owed(Queue!Source(j))' <=> Owed(Queue!Source(j)))
    BY <1>1, <1>2, <2>1, IdleJobs
  <2>4. /\ worker' \in [Workers -> JobWorkers] /\ \A u \in Workers \ {w} : worker'[u] = worker[u]
        /\ worker'[w].job = j /\ Works(w)' /\ ~ MayPay(w, Queue!Source(j))'
    BY <2>2 DEF Steps, Works, MayPay
  <2>5. paid'[Queue!Source(j)] + 0 + (IF Owed(Queue!Source(j)) THEN 1 ELSE 0)
             <= paid[Queue!Source(j)] + 0 + (IF Owed(Queue!Source(j))' THEN 1 ELSE 0)
    BY <1>1, <1>2, <2>3
  <2>6. QED
    BY <1>2, <2>3, <2>4, <2>5, WorkerStep
<1>5. QED
  BY <1>3, <1>4

\* A draft is recorded.
LEMMA CompleteStep ==
  ASSUME Queue!JobsAssumption, JobsSafe, NEW w \in Workers, NEW j \in Queue!Jobs,
         j = worker[w].job, Queue!Complete(w)
  PROVE  JobsSafe'
<1>1. /\ Queue!Source(j) \in Sources /\ JobTypes /\ paid \in [Sources -> Int] /\ Works(w)
      /\ job \in [Queue!Jobs -> JobRows] /\ job[j] \in JobRows /\ drafted \in [Sources -> Nat]
  BY PlaceOf
<1>2. UNCHANGED <<lesson, agreed>> /\ worker[w].pc = "complete"
  BY DEF Queue!Complete
<1>3. CASE Queue!Mine(w) /\ ~ job[j].expired
  <2> DEFINE new == Queue!Freed(job[j], "completed")
  <2>1. new \in JobRows /\ new.status = "completed" /\ new.token = None
    BY <1>1 DEF JobRows, Queue!Freed
  <2>2. /\ job' = [job EXCEPT ![j] = new]
        /\ drafted' = IF Queue!Source(j) = lesson THEN [drafted EXCEPT ![lesson] = @ + 1] ELSE drafted
        /\ paid' = IF Queue!Source(j) = lesson THEN paid ELSE [paid EXCEPT ![Queue!Source(j)] = @ - 1]
        /\ worker' = [worker EXCEPT ![w] = Queue!Idle] \/ Queue!Go(w, "fail")
    BY <1>1, <1>3 DEF Queue!Complete
  <2> HIDE DEF new
  <2>3. Changes(j, new) /\ new.status \notin Queue!Queued \cup {"none", "running"}
    BY <2>1, <2>2 DEF Changes, Queue!Queued
  <2>4. OthersDrafts(j) /\ job[j].status = "running"
    BY <1>1, <1>3, <2>2 DEF OthersDrafts, Queue!Mine
  <2>5. paid' \in [Sources -> Int] /\ \A s \in Sources \ {Queue!Source(j)} : paid'[s] = paid[s]
    BY <1>1, <2>2
  <2>6. /\ worker' \in [Workers -> JobWorkers] /\ \A u \in Workers \ {w} : worker'[u] = worker[u]
        /\ worker'[w].pc = "idle" \/ worker'[w].job = j
        /\ Works(w)' /\ ~ MayPay(w, Queue!Source(j))'
    <3>1. CASE worker' = [worker EXCEPT ![w] = Queue!Idle]
      BY <1>1, <3>1, Rested
    <3>2. CASE Queue!Go(w, "fail")
      <4>1. Steps(w, "fail")
        BY <3>2, <1>1, WentOn
      <4>2. QED
        BY <4>1 DEF Steps, Works, MayPay
    <3>3. QED
      BY <2>2, <3>1, <3>2
  <2>7. Owed(Queue!Source(j))
    BY <1>1, <1>2, <1>3, <2>4 DEF Owed, Owes, Works
  <2>8. paid'[Queue!Source(j)] + 0 + (IF Owed(Queue!Source(j)) THEN 1 ELSE 0)
             <= paid[Queue!Source(j)] + 0 + (IF Owed(Queue!Source(j))' THEN 1 ELSE 0)
    <3>1. CASE Queue!Source(j) = lesson
      <4>1. drafted'[Queue!Source(j)] > 0 /\ paid' = paid
        BY <1>1, <2>2, <3>1
      <4>2. Owed(Queue!Source(j))'
        BY <4>1 DEF Owed
      <4>3. QED
        BY <1>1, <4>1, <4>2
    <3>2. CASE Queue!Source(j) # lesson
      <4>1. paid'[Queue!Source(j)] = paid[Queue!Source(j)] - 1 /\ paid[Queue!Source(j)] \in Int
        BY <1>1, <2>2, <3>2
      <4>2. QED
        BY <2>7, <4>1
    <3>3. QED
      BY <3>1, <3>2
  <2>9. QED
    BY <1>2, <1>3, <2>1, <2>3, <2>4, <2>5, <2>6, <2>8, WorkerStep
<1>4. CASE ~ (Queue!Mine(w) /\ ~ job[j].expired)
  <2>1. job' = job /\ Queue!Go(w, "fail") /\ UNCHANGED <<drafted, paid>>
    BY <1>4 DEF Queue!Complete
  <2>2. Steps(w, "fail")
    BY <2>1, <1>1, WentOn
  <2>3. /\ Changes(j, job[j]) /\ OthersDrafts(j)
        /\ (Owed(Queue!Source(j))' <=> Owed(Queue!Source(j)))
    BY <1>1, <1>2, <2>1, IdleJobs
  <2>4. /\ worker' \in [Workers -> JobWorkers] /\ \A u \in Workers \ {w} : worker'[u] = worker[u]
        /\ worker'[w].job = j /\ Works(w)' /\ ~ MayPay(w, Queue!Source(j))'
    BY <2>2 DEF Steps, Works, MayPay
  <2>5. paid'[Queue!Source(j)] + 0 + (IF Owed(Queue!Source(j)) THEN 1 ELSE 0)
             <= paid[Queue!Source(j)] + 0 + (IF Owed(Queue!Source(j))' THEN 1 ELSE 0)
    BY <1>1, <2>1, <2>3
  <2>6. QED
    BY <1>1, <1>2, <2>1, <2>3, <2>4, <2>5, WorkerStep
<1>5. QED
  BY <1>3, <1>4

\* A failure is recorded, and the job may be queued again.
LEMMA FailStep ==
  ASSUME Queue!JobsAssumption, JobsSafe, NEW w \in Workers, NEW j \in Queue!Jobs,
         j = worker[w].job, Queue!Fail(w)
  PROVE  JobsSafe'
<1> DEFINE limited == worker[w].pc = "defer"
<1>1. /\ Queue!Source(j) \in Sources /\ JobTypes /\ paid \in [Sources -> Int] /\ Works(w)
      /\ job \in [Queue!Jobs -> JobRows] /\ job[j] \in JobRows /\ drafted \in [Sources -> Nat]
  BY PlaceOf
<1>2. /\ UNCHANGED <<lesson, drafted, paid, agreed>> /\ worker[w].pc \in {"fail", "defer"}
      /\ worker' = [worker EXCEPT ![w] = Queue!Idle]
  BY DEF Queue!Fail
<1>3. /\ worker' \in [Workers -> JobWorkers] /\ \A u \in Workers \ {w} : worker'[u] = worker[u]
      /\ worker'[w].pc = "idle" /\ Works(w)' /\ ~ MayPay(w, Queue!Source(j))'
  BY <1>1, <1>2, Rested
<1>4. /\ OthersDrafts(j) /\ paid' \in [Sources -> Int]
      /\ \A s \in Sources \ {Queue!Source(j)} : paid'[s] = paid[s]
  BY <1>1, <1>2 DEF OthersDrafts
<1>5. CASE ~ Queue!Mine(w)
  <2>1. job' = job
    BY <1>5 DEF Queue!Fail
  <2>2. /\ Changes(j, job[j]) /\ (Owed(Queue!Source(j))' <=> Owed(Queue!Source(j)))
    BY <1>1, <1>2, <2>1, IdleJobs
  <2>3. paid'[Queue!Source(j)] + 0 + (IF Owed(Queue!Source(j)) THEN 1 ELSE 0)
             <= paid[Queue!Source(j)] + 0 + (IF Owed(Queue!Source(j))' THEN 1 ELSE 0)
    BY <1>1, <1>2, <2>2
  <2>4. QED
    BY <1>2, <1>3, <1>4, <2>2, <2>3, WorkerStep
<1>6. CASE Queue!Mine(w)
  <2> DEFINE status == CASE ~ limited -> "failed"
                         [] limited /\ job[j].attempts < MaxAttempts -> "deferred"
                         [] OTHER -> "dead_letter"
             new == [Queue!Freed(job[j], status) EXCEPT !.dispatched = @ /\ ~ limited]
  <2>1. job' = [job EXCEPT ![j] = new]
    BY <1>1, <1>6 DEF Queue!Fail
  <2>2. status \in {"failed", "deferred", "dead_letter"} /\ (~ limited <=> status = "failed")
    OBVIOUS
  <2>3. limited \in BOOLEAN
    OBVIOUS
  <2> HIDE DEF status, limited
  <2>4. /\ new \in JobRows /\ new.status = status /\ new.token = None
        /\ new.dispatched = (job[j].dispatched /\ ~ limited)
    BY <1>1, <2>2, <2>3 DEF JobRows, Queue!Freed
  <2> HIDE DEF new
  <2>5. Changes(j, new) /\ job'[j] = new /\ \A k \in Queue!Jobs \ {j} : job'[k] = job[k]
    BY <1>1, <2>1, <2>4 DEF Changes
  <2>6. /\ new.status \in Queue!Queued \cup {"none"} => ~ new.dispatched
        /\ new.status # "running"
    BY <2>2, <2>4 DEF Queue!Queued
  <2>7. CASE limited
    <3>1. MayPay(w, Queue!Source(j))
      BY <1>1, <1>6, <2>7 DEF MayPay, Works, limited
    <3>2. paid'[Queue!Source(j)] + 0 + (IF Owed(Queue!Source(j)) THEN 1 ELSE 0)
             <= paid[Queue!Source(j)] + 1 + (IF Owed(Queue!Source(j))' THEN 1 ELSE 0)
      BY <1>1, <1>2
    <3>3. QED
      BY <1>2, <1>3, <1>4, <1>6, <2>4, <2>5, <2>6, <3>1, <3>2, WorkerStep
  <2>8. CASE ~ limited
    <3>1. Owes(j) => Owes(j)'
      BY <2>2, <2>4, <2>5, <2>8 DEF Owes
    <3>2. \A k \in Queue!Jobs : Owes(k) => Owes(k)'
      BY <2>5, <3>1 DEF Owes
    <3>3. Owed(Queue!Source(j)) => Owed(Queue!Source(j))'
      BY <1>2, <3>2 DEF Owed
    <3>4. paid'[Queue!Source(j)] + 0 + (IF Owed(Queue!Source(j)) THEN 1 ELSE 0)
             <= paid[Queue!Source(j)] + 0 + (IF Owed(Queue!Source(j))' THEN 1 ELSE 0)
      BY <1>1, <1>2, <3>3
    <3>5. QED
      BY <1>2, <1>3, <1>4, <1>6, <2>4, <2>5, <2>6, <3>4, WorkerStep
  <2>9. QED
    BY <2>7, <2>8
<1>7. QED
  BY <1>5, <1>6

\* What a claim settles of a job before it gives one.
LEMMA SettledJob ==
  ASSUME JobTypes, QueuedIsUnsent, NEW j \in Queue!Jobs
  PROVE  /\ Queue!Settled(j) \in JobRows /\ Queue!Settled(j).dispatched = job[j].dispatched
         /\ Queue!Settled(j).status = "running" => Queue!Settled(j) = job[j]
         /\ Queue!Settled(j) = job[j] \/ Queue!Settled(j).token = None
         /\ Queue!Settled(j).status \in Queue!Queued \cup {"none"} => ~ Queue!Settled(j).dispatched
         /\ Queue!Settled(j).status \in {"failed", "dead_letter"} /\ Queue!Settled(j).dispatched
              => Owes(j)
         /\ Owes(j) => Queue!Settled(j).status \in {"running", "failed", "dead_letter"}
         /\ Queue!Settled(j).status \in Queue!Queued =>
              \/ drafted[Queue!Source(j)] = 0
              \/ job[j].status = "running" /\ ~ job[j].dispatched
<1>1. job[j] \in JobRows /\ Queue!Source(j) \in Sources /\ drafted[Queue!Source(j)] \in Nat
  BY SourceOf DEF JobTypes
<1>2. CASE Queue!Closed(j)
  <2>1. Queue!Settled(j) = Queue!Freed(job[j], "completed")
    BY <1>2 DEF Queue!Settled
  <2>2. Queue!Settled(j) \in JobRows /\ Queue!Settled(j).dispatched = job[j].dispatched
        /\ Queue!Settled(j).status = "completed" /\ Queue!Settled(j).token = None
    BY <1>1, <2>1 DEF JobRows, Queue!Freed
  <2>3. QED
    BY <1>2, <2>2 DEF Queue!Closed, Queue!Queued, Owes
<1>3. CASE ~ Queue!Closed(j) /\ job[j].status = "running" /\ job[j].expired
  <2> DEFINE status == IF job[j].dispatched \/ job[j].attempts >= MaxAttempts
                       THEN "dead_letter" ELSE "deferred"
  <2>1. Queue!Settled(j) = Queue!Freed(job[j], status)
    BY <1>3 DEF Queue!Settled
  <2>2. status \in {"dead_letter", "deferred"} /\ (status = "deferred" => ~ job[j].dispatched)
    OBVIOUS
  <2> HIDE DEF status
  <2>3. Queue!Settled(j) \in JobRows /\ Queue!Settled(j).dispatched = job[j].dispatched
        /\ Queue!Settled(j).status = status /\ Queue!Settled(j).token = None
    BY <1>1, <2>1, <2>2 DEF JobRows, Queue!Freed
  <2>4. QED
    BY <1>3, <2>2, <2>3 DEF Queue!Queued, Owes
<1>4. CASE ~ Queue!Closed(j) /\ ~ (job[j].status = "running" /\ job[j].expired)
  <2>1. Queue!Settled(j) = job[j]
    BY <1>4 DEF Queue!Settled
  <2>2. job[j].status \in Queue!Queued => drafted[Queue!Source(j)] = 0
    BY <1>1, <1>4 DEF Queue!Closed
  <2>3. QED
    BY <1>1, <2>1, <2>2 DEF Owes, QueuedIsUnsent
<1>5. QED
  BY <1>2, <1>3, <1>4

\* A worker takes a job.
LEMMA ClaimStep ==
  ASSUME Queue!JobsAssumption, JobsSafe, NEW w \in Workers, NEW v \in Versions, Queue!Claim(w, v)
  PROVE  JobsSafe'
<1> USE DEF JobsSafe
<1> DEFINE settled == [j \in Queue!Jobs |-> Queue!Settled(j)]
           fresh(n) == [Queue!NoJob EXCEPT !.status = "running", !.token = w, !.attempts = n]
           begun(j) == [Queue!Idle EXCEPT !.pc = "mark", !.job = j, !.provider = "openai"]
           given(j) == /\ j \in Queue!Candidates(settled, v) /\ ~ Queue!Blocked(settled, j)
                       /\ job' = [settled EXCEPT ![j] = fresh(settled[j].attempts + 1)]
                       /\ worker' = [worker EXCEPT ![w] = begun(j)]
<1>1. /\ UNCHANGED <<lesson, drafted, paid, agreed>> /\ worker[w].pc = "idle"
      /\ (job' = settled /\ worker' = worker) \/ \E j \in Queue!Jobs : given(j)
  BY DEF Queue!Claim, Queue!Candidates
<1>2. \A j \in Queue!Jobs : settled[j] = Queue!Settled(j)
  OBVIOUS
<1>3. JobTypes /\ QueuedIsUnsent
  OBVIOUS
<1> HIDE DEF settled
<1>4. settled \in [Queue!Jobs -> JobRows]
  BY <1>3, SettledJob DEF settled
<1> DEFINE mine(j) == /\ job'[j].status = "running" /\ ~ job'[j].dispatched /\ job'[j].token = w
<1>5. /\ job' \in [Queue!Jobs -> JobRows] /\ worker' \in [Workers -> JobWorkers]
      /\ \A u \in Workers \ {w} : worker'[u] = worker[u]
      /\ \/ worker'[w] = worker[w] /\ \A j \in Queue!Jobs : job'[j] = Queue!Settled(j)
         \/ \E g \in Queue!Jobs :
              /\ worker'[w].pc = "mark" /\ worker'[w].job = g
              /\ mine(g) /\ \A j \in Queue!Jobs \ {g} : job'[j] = Queue!Settled(j)
              /\ Queue!Settled(g).status \in Queue!Queued /\ ~ Queue!Blocked(settled, g)
  <2>1. CASE job' = settled /\ worker' = worker
    BY <2>1, <1>2, <1>3, <1>4 DEF JobTypes
  <2>2. ASSUME NEW g \in Queue!Jobs, given(g)
        PROVE  /\ job' \in [Queue!Jobs -> JobRows] /\ worker' \in [Workers -> JobWorkers]
               /\ \A u \in Workers \ {w} : worker'[u] = worker[u]
               /\ worker'[w].pc = "mark" /\ worker'[w].job = g
               /\ mine(g) /\ \A j \in Queue!Jobs \ {g} : job'[j] = Queue!Settled(j)
               /\ Queue!Settled(g).status \in Queue!Queued /\ ~ Queue!Blocked(settled, g)
    <3> DEFINE n == settled[g].attempts + 1
    <3>1. n \in Nat
      BY <1>4 DEF JobRows
    <3> HIDE DEF n
    <3>2. fresh(n) \in JobRows /\ fresh(n).status = "running" /\ fresh(n).token = w
              /\ ~ fresh(n).dispatched
      BY <3>1 DEF Queue!NoJob, JobRows
    <3>3. begun(g) \in JobWorkers /\ begun(g).pc = "mark" /\ begun(g).job = g
      BY DEF Queue!Idle, JobWorkers
    <3>4. /\ job' = [settled EXCEPT ![g] = fresh(n)] /\ worker' = [worker EXCEPT ![w] = begun(g)]
          /\ settled[g].status \in Queue!Queued /\ ~ Queue!Blocked(settled, g)
      BY <2>2 DEF n, Queue!Candidates
    <3> HIDE DEF fresh, begun
    <3>5. /\ job' \in [Queue!Jobs -> JobRows] /\ job'[g] = fresh(n)
          /\ \A j \in Queue!Jobs \ {g} : job'[j] = settled[j]
      BY <3>2, <3>4, <1>4
    <3>6. /\ worker' \in [Workers -> JobWorkers] /\ worker'[w] = begun(g)
          /\ \A u \in Workers \ {w} : worker'[u] = worker[u]
      BY <3>3, <3>4, <1>3 DEF JobTypes
    <3>7. QED
      BY <3>2, <3>3, <3>4, <3>5, <3>6, <1>2
  <2> HIDE DEF given, mine
  <2>3. QED
    BY <1>1, <2>1, <2>2
<1> HIDE DEF given
<1>6. \A j \in Queue!Jobs :
        /\ job'[j].status = "running" =>
             job'[j] = job[j] \/ (mine(j) /\ worker'[w].job = j /\ worker'[w].pc = "mark"
                                   /\ Queue!Settled(j).status \in Queue!Queued
                                   /\ ~ Queue!Blocked(settled, j))
        /\ job'[j].status \in Queue!Queued \cup {"none"} => ~ job'[j].dispatched
        /\ Owes(j)' <=> Owes(j)
        /\ job'[j] = job[j] \/ job'[j].token \in {w, None}
  <2>1. ASSUME NEW j \in Queue!Jobs, job'[j] = Queue!Settled(j)
        PROVE  /\ job'[j].status = "running" => job'[j] = job[j]
               /\ job'[j].status \in Queue!Queued \cup {"none"} => ~ job'[j].dispatched
               /\ Owes(j)' <=> Owes(j)
               /\ job'[j] = job[j] \/ job'[j].token \in {w, None}
    BY <2>1, <1>3, SettledJob DEF Owes
  <2>2. ASSUME NEW j \in Queue!Jobs, mine(j), Queue!Settled(j).status \in Queue!Queued
        PROVE  /\ job'[j].status \notin Queue!Queued \cup {"none"}
               /\ Owes(j)' <=> Owes(j)
    BY <2>2, <1>3, SettledJob DEF Owes, Queue!Queued
  <2>3. QED
    BY <2>1, <2>2, <1>5
<1>7. \A s \in Sources : Owed(s)' <=> Owed(s)
  BY <1>1, <1>6 DEF Owed
<1>8. JobTypes' /\ QueuedIsUnsent'
  BY <1>1, <1>5, <1>6 DEF JobTypes, QueuedIsUnsent
\* No other job of a source runs beside one that is given.
<1>9. ASSUME NEW j \in Queue!Jobs, Queue!Settled(j).status \in Queue!Queued,
             ~ Queue!Blocked(settled, j)
      PROVE  /\ \A k \in Queue!Jobs \ {j} : Queue!Source(k) = Queue!Source(j) =>
                  Queue!Settled(k).status # "running" /\ ~ Owes(k)
             /\ ~ Owed(Queue!Source(j))
  <2>1. ASSUME NEW k \in Queue!Jobs \ {j}, Queue!Source(k) = Queue!Source(j)
        PROVE  Queue!Settled(k).status # "running" /\ ~ Owes(k)
    <3>1. /\ settled[k].status \notin Queue!Queued \cup {"running"}
          /\ ~ (settled[k].status \in {"failed", "dead_letter"} /\ settled[k].dispatched)
      BY <1>9, <2>1 DEF Queue!Blocked
    <3>2. settled[k] = Queue!Settled(k) /\ Queue!Settled(k).dispatched = job[k].dispatched
          /\ (Owes(k) => Queue!Settled(k).status \in {"running", "failed", "dead_letter"})
      BY <1>2, <1>3, SettledJob
    <3>3. QED
      BY <3>1, <3>2 DEF Owes
  <2>2. ~ Owes(j)
    BY <1>9, <1>3, SettledJob DEF Owes
  <2>3. CASE drafted[Queue!Source(j)] = 0
    BY <2>1, <2>2, <2>3 DEF Owed
  <2>4. CASE job[j].status = "running" /\ ~ job[j].dispatched
    BY <2>1, <2>4 DEF UnsentIsUnowed
  <2>5. QED
    BY <2>1, <2>3, <2>4, <1>9, <1>3, SettledJob
<1>10. \A j, k \in Queue!Jobs :
         job'[j].status = "running" /\ job'[k].status = "running"
             /\ Queue!Source(j) = Queue!Source(k) => j = k
  <2>1. SUFFICES ASSUME NEW j \in Queue!Jobs, NEW k \in Queue!Jobs, job'[j].status = "running",
                        job'[k].status = "running", Queue!Source(j) = Queue!Source(k), j # k
                 PROVE  FALSE
    OBVIOUS
  <2>2. ASSUME NEW g \in Queue!Jobs, NEW h \in Queue!Jobs, g # h, Queue!Source(h) = Queue!Source(g),
               job'[h].status = "running",
               mine(g), worker'[w].job = g, worker'[w].pc = "mark",
               Queue!Settled(g).status \in Queue!Queued, ~ Queue!Blocked(settled, g)
        PROVE  FALSE
    <3>1. Queue!Settled(h).status # "running"
      BY <1>9, <2>2
    <3>2. job'[h] = Queue!Settled(h)
      BY <1>5, <2>2
    <3>3. QED
      BY <2>2, <3>1, <3>2
  <2>3. CASE job'[j] = job[j] /\ job'[k] = job[k]
    BY <2>1, <2>3 DEF OneRunning
  <2>4. CASE job'[j] # job[j]
    BY <2>1, <2>2, <2>4, <1>6
  <2>5. CASE job'[k] # job[k]
    BY <2>1, <2>2, <2>5, <1>6
  <2>6. QED
    BY <2>3, <2>4, <2>5
<1>11. OneRunning'
  BY <1>10 DEF OneRunning
<1>12. UnsentIsUnowed'
  <2>1. ASSUME NEW j \in Queue!Jobs, job'[j].status = "running", ~ job'[j].dispatched
        PROVE  ~ Owed(Queue!Source(j))
    BY <2>1, <1>6, <1>9 DEF UnsentIsUnowed
  <2>2. QED
    BY <2>1, <1>7, SourceOf DEF UnsentIsUnowed
<1>13. ASSUME NEW u \in Workers
       PROVE  Works(u)' /\ \A s \in Sources : MayPay(u, s)' => MayPay(u, s)
  <2>1. CASE worker'[u] = worker[u] /\ (u # w \/ worker[u].pc = "idle")
    <3>1. Works(u)
      BY DEF Working
    <3>2. CASE worker[u].pc = "idle"
      BY <2>1, <3>2 DEF Works, MayPay
    <3>3. CASE u # w
      <4>1. worker[u].job \in Queue!Jobs =>
              job'[worker[u].job] = job[worker[u].job] \/ ~ Queue!Mine(u)'
        BY <1>6, <2>1, <3>3 DEF Queue!Mine, Queue!JobsAssumption
      <4>2. QED
        BY <2>1, <3>1, <4>1, StillWorks
    <3>4. QED
      BY <2>1, <3>2, <3>3
  <2>2. CASE u = w /\ worker'[w].pc = "mark" /\ \E g \in Queue!Jobs : worker'[w].job = g /\ mine(g)
    BY <2>2 DEF Works, MayPay
  <2>3. QED
    BY <2>1, <2>2, <1>1, <1>5
<1>14. Working'
  BY <1>13 DEF Working
<1>15. ASSUME NEW s \in Sources
       PROVE  paid'[s] + Cardinality(Payers(s))' <= agreed'[s] + (IF Owed(s)' THEN 1 ELSE 0)
  <2>1. Payers(s)' \subseteq Payers(s)
    BY <1>13 DEF Payers
  <2>2. paid[s] \in Int /\ agreed[s] \in Nat /\ paid' = paid /\ agreed' = agreed /\ Balanced
    BY <1>1, <1>3 DEF JobTypes
  <2>3. paid'[s] - agreed'[s] + 0 + (IF Owed(s) THEN 1 ELSE 0)
           <= paid[s] - agreed[s] + 0 + (IF Owed(s)' THEN 1 ELSE 0)
    BY <1>7, <2>2
  <2>4. QED
    BY <1>3, <1>8, <2>1, <2>2, <2>3, BalanceKept
<1>16. Balanced'
  BY <1>15 DEF Balanced
<1>17. QED
  BY <1>8, <1>11, <1>12, <1>14, <1>16

\* The lesson is edited.
LEMMA JobsUnmoved ==
  ASSUME JobsSafe, UNCHANGED <<job, worker, drafted, paid, agreed>>, lesson' \in Sources
  PROVE  JobsSafe'
  BY DEF JobsSafe, JobTypes, Working, Works, Queue!Mine, QueuedIsUnsent, OneRunning, UnsentIsUnowed,
    Owes, Owed, Balanced, Payers, MayPay

\* Every step keeps the invariant of the jobs.
LEMMA JobsStep ==
  ASSUME Queue!JobsAssumption, JobsSafe, [Queue!Next]_(Queue!vars)
  PROVE  JobsSafe'
<1>1. ASSUME NEW w \in Workers, worker[w].pc # "idle"
      PROVE  \E j \in Queue!Jobs : j = worker[w].job
  BY <1>1 DEF JobsSafe, Working, Works
<1>2. CASE Queue!Revise
  BY <1>2, JobsUnmoved DEF Queue!Revise
<1>3. CASE UNCHANGED Queue!vars
  BY <1>3, JobsUnmoved DEF Queue!vars, JobsSafe, JobTypes
<1>4. ASSUME NEW w \in Workers, Queue!Mark(w) \/ Queue!Call(w) \/ Queue!Limited(w)
                 \/ Queue!Complete(w) \/ Queue!Fail(w) \/ Queue!Die(w)
      PROVE  JobsSafe'
  <2>1. worker[w].pc # "idle"
    BY <1>4 DEF Queue!Mark, Queue!Call, Queue!Limited, Queue!Complete, Queue!Fail, Queue!Die
  <2>2. PICK j \in Queue!Jobs : j = worker[w].job
    BY <1>1, <2>1
  <2>3. QED
    BY <1>4, <2>2, MarkStep, CallStep, LimitedStep, CompleteStep, FailStep, DieStep
<1>5. QED
  BY <1>2, <1>3, <1>4, EnqueueStep, RetryStep, ExpireStep, ClaimStep DEF Queue!Next

\* Every reachable state of the queue satisfies the inductive invariant.
THEOREM JobsAreSafe ==
  ASSUME Queue!JobsAssumption
  PROVE  Queue!Spec => []JobsSafe
<1>1. Queue!Init => JobsSafe
  BY JobsInit
<1>2. JobsSafe /\ [Queue!Next]_(Queue!vars) => JobsSafe'
  BY JobsStep
<1>3. QED
  BY <1>1, <1>2, PTL DEF Queue!Spec

\* A source is paid once, and once more for each agreement.
THEOREM JobsArePaidOnce ==
  ASSUME Queue!JobsAssumption
  PROVE  Queue!Spec => []PaidTwiceIsAgreed
<1>1. JobsSafe => PaidTwiceIsAgreed
  <2> SUFFICES ASSUME JobsSafe, NEW s \in Sources PROVE paid[s] <= 1 + agreed[s]
    BY DEF JobsSafe, JobTypes, PaidTwiceIsAgreed, Queue!PaidTwiceIsAgreed
  <2>1. paid[s] \in Int /\ agreed[s] \in Nat
    BY DEF JobsSafe, JobTypes
  <2>2. Payers(s) \in SUBSET Workers
    BY DEF Payers
  <2>3. Cardinality(Payers(s)) \in Nat
    BY <2>2, Counted
  <2>4. paid[s] + Cardinality(Payers(s)) <= agreed[s] + (IF Owed(s) THEN 1 ELSE 0)
    BY DEF JobsSafe, Balanced
  <2>5. QED
    BY <2>1, <2>3, <2>4
<1>2. QED
  BY <1>1, JobsAreSafe, PTL
==============================================================================
