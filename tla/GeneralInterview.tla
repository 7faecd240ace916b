--------------------------- MODULE GeneralInterview ---------------------------
(***************************************************************************)
(* The public C++ mock interview (general-cpp-mock-app.tsx): one account's *)
(* or guest's session in local storage (session-v5.ts), the tabs that hold *)
(* copies of it, and POST /api/mock-interview/general-report, which takes  *)
(* a public AI turn, pays a provider and records the report.  Tabs are not *)
(* told of each other's writes.  The turn is PublicAiAdmission's, seen by  *)
(* its principal and key; the cloud row is MockReport's, seen by its       *)
(* session.  An account is its own principal; a guest is the device its    *)
(* cookie names, and a new one in every request sent without that cookie.  *)
(***************************************************************************)
EXTENDS Naturals, Sequences, FiniteSets

CONSTANTS
  Tabs, None,
  Slots, \* requests under way at a time
  Guest, \* nobody is signed in and the browser has no cookie yet
  MaxSessions, MaxKeys, MaxDevices, MaxRevision, \* bounds
  Kept   \* reports of the local history, 5 in the code

VARIABLES
  stored,  \* the active session of the storage
  history, \* the local history, newest first
  tab,     \* tab -> its page
  request, \* slot -> a fetch and its handler
  cookie,  \* the principal that requests name, 0 for none
  turn,    \* principal, key -> its public AI turn: "free", the slot that
           \* reserved it, "dispatched" or "settled"
  cloud,   \* attempts recorded in the cloud
  bank,    \* revision of the published bank
  paid,    \* principal, key -> calls that may have been paid
  made     \* sessions started, keys and devices minted

vars == <<stored, history, tab, request, cookie, turn, cloud, bank, paid, made>>

Keys == 1..MaxKeys
Principals == 1..MaxDevices
TurnIds == Principals \X Keys

\* A turn tells who reserved it from where it stands.
InterviewAssumption == Slots \cap {"free", "dispatched", "settled"} = {} /\ Kept \in Nat \ {0}

NoSession == [id |-> 0, status |-> "none", revision |-> 0, key |-> 0, report |-> 0]
Closed == [open |-> FALSE, session |-> NoSession, revision |-> 0, listed |-> <<>>,
           code |-> "none", saved |-> FALSE]
Idle == [pc |-> "idle", tab |-> None, heard |-> "none", session |-> NoSession, device |-> 0,
         minted |-> FALSE, reply |-> "none", saved |-> FALSE]

Init ==
  /\ stored = NoSession /\ history = <<>> /\ tab = [t \in Tabs |-> Closed]
  /\ request = [r \in Slots |-> Idle] /\ cloud = {} /\ bank = 1
  /\ turn = [p \in TurnIds |-> "free"] /\ paid = [p \in TurnIds |-> 0]
  /\ cookie = (IF Guest THEN 0 ELSE 1) /\ made = [sessions |-> 0, keys |-> 0, devices |-> cookie]

------------------------------------------------------------------------------
(* A page.                                                                 *)

Key(r) == request[r].session.key
Turn(r) == <<request[r].device, Key(r)>>
At(r, pc) == request[r].pc = pc

Page(t, session, code) ==
  tab' = [tab EXCEPT ![t].session = session, ![t].code = code, ![t].saved = FALSE]

\* Whatever a page does to its session is saved, over any other tab's.
Saves(t, session, code) == stored' = session /\ Page(t, session, code)

\* A session of another bank is not restored but cleared.
Restores == stored.id # 0 /\ stored.revision = bank

Open(t) ==
  /\ ~ tab[t].open
  /\ LET session == IF Restores THEN stored ELSE NoSession
     IN /\ stored' = session
        /\ tab' = [tab EXCEPT ![t] =
             [Closed EXCEPT !.open = TRUE, !.session = session, !.revision = bank, !.listed = history,
                            !.code = IF session.status = "evaluating" THEN "other" ELSE "none"]]
  /\ UNCHANGED <<history, request, cookie, turn, cloud, bank, paid, made>>

\* A page left by a link hears no answer but its fetches go on; a page that is
\* closed or loaded again takes them with it.
Leave(t) ==
  /\ tab[t].open /\ tab' = [tab EXCEPT ![t] = Closed]
  /\ \E heard \in {"storage", "none"} :
       request' = [r \in Slots |->
         CASE request[r].heard # "page" \/ request[r].tab # t -> request[r]
           [] request[r].heard = "page" /\ request[r].tab = t /\ heard = "none" /\ At(r, "answered")
                -> Idle
           [] OTHER -> [request[r] EXCEPT !.heard = heard]]
  /\ UNCHANGED <<stored, history, cookie, turn, cloud, bank, paid, made>>

Start(t) ==
  /\ tab[t].open /\ tab[t].session.id = 0 /\ made.sessions < MaxSessions
  /\ Saves(t, [NoSession EXCEPT !.id = made.sessions + 1, !.status = "in_progress",
                                !.revision = tab[t].revision], "none")
  /\ made' = [made EXCEPT !.sessions = @ + 1]
  /\ UNCHANGED <<history, request, cookie, turn, cloud, bank, paid>>

\* updateAnswer, moveTo: the answers are left out, the save is not.  (So is
\* the submission after four hours, which the schema does not take: its
\* save throws, and the page is gone, as in Leave.)
Write(t) ==
  /\ tab[t].session.status = "in_progress" /\ Saves(t, tab[t].session, tab[t].code)
  /\ UNCHANGED <<history, request, cookie, turn, cloud, bank, paid, made>>

Send(t, session) ==
  \E r \in Slots :
    /\ request[r].pc = "idle"
    /\ request' = [request EXCEPT ![r] = [Idle EXCEPT !.pc = "sent", !.tab = t, !.heard = "page",
                                                      !.session = session, !.device = cookie]]

Submit(t) ==
  /\ tab[t].session.status = "in_progress" /\ made.keys < MaxKeys
  /\ LET session == [tab[t].session EXCEPT !.status = "evaluating", !.key = made.keys + 1]
     IN Saves(t, session, "none") /\ Send(t, session)
  /\ made' = [made EXCEPT !.keys = @ + 1]
  /\ UNCHANGED <<history, cookie, turn, cloud, bank, paid>>

Failed(t) == tab[t].session.status = "evaluating" /\ tab[t].code # "none"

\* terminalReportErrorCodes are one code.
Retry(t) ==
  /\ Failed(t) /\ tab[t].code # "terminal"
  /\ Page(t, tab[t].session, "none") /\ Send(t, tab[t].session)
  /\ UNCHANGED <<stored, history, cookie, turn, cloud, bank, paid, made>>

EditAgain(t) ==
  /\ Failed(t) /\ tab[t].code = "ai_failed"
  /\ Saves(t, [tab[t].session EXCEPT !.status = "in_progress", !.key = 0], "none")
  /\ UNCHANGED <<history, request, cookie, turn, cloud, bank, paid, made>>

\* From a failure, a report, or a report of the history that was opened (of the
\* local one: those of the cloud that came with the page are left out).
Reset(t) ==
  /\ tab[t].open
  /\ \/ Failed(t) \/ tab[t].session.status = "completed"
     \/ tab[t].session.id = 0 /\ tab[t].listed # <<>>
  /\ Saves(t, NoSession, "none")
  /\ UNCHANGED <<history, request, cookie, turn, cloud, bank, paid, made>>

------------------------------------------------------------------------------
(* An answer reaches the fetch, whose page may be gone.                    *)

Artifact(session) == [session |-> session.id, key |-> session.key]

\* The entries of a list that are not of this session, in their order.
Others(list, id) ==
  LET P == {i \in DOMAIN list : list[i].session # id}
      rank == [i \in P |-> Cardinality({j \in P : j <= i})]
  IN [k \in 1..Cardinality(P) |-> list[CHOOSE i \in P : rank[i] = k]]

\* Mutant: the list of the page is extended, not that of the storage.
PrependToPage(r) ==
  LET entry == Artifact(request[r].session)
      next == <<entry>> \o Others(tab[request[r].tab].listed, entry.session)
  IN SubSeq(next, 1, IF Len(next) < Kept THEN Len(next) ELSE Kept)

Prepend(r) ==
  LET entry == Artifact(request[r].session)
      next == <<entry>> \o Others(history, entry.session)
  IN SubSeq(next, 1, IF Len(next) < Kept THEN Len(next) ELSE Kept)

Completed(session) == [session EXCEPT !.status = "completed", !.key = 0, !.report = session.key]

Hear(r) ==
  LET t == request[r].tab
      session == Completed(request[r].session)
  IN /\ request[r].pc = "answered" /\ request' = [request EXCEPT ![r] = Idle]
     /\ cookie' = IF request[r].minted THEN request[r].device ELSE cookie
     /\ \/ /\ request[r].reply = "report"
           /\ stored' = session /\ history' = Prepend(r)
           /\ tab' = IF request[r].heard = "page"
                       THEN [tab EXCEPT ![t].session = session, ![t].listed = history', ![t].code = "none",
                                        ![t].saved = request[r].saved]
                       ELSE tab
        \/ /\ request[r].reply # "report"
           /\ tab' = IF request[r].heard = "page" THEN [tab EXCEPT ![t].code = request[r].reply] ELSE tab
           /\ UNCHANGED <<stored, history>>
     /\ UNCHANGED <<turn, cloud, bank, paid, made>>

------------------------------------------------------------------------------
(* The handler.  Its steps leave the browser and the bank alone.           *)

Server == UNCHANGED <<stored, history, tab, cookie, bank>>

Go(r, pc) == request' = [request EXCEPT ![r].pc = pc]

\* An answer nobody waits for is dropped.
Report(r, saved) ==
  request' = [request EXCEPT ![r] =
    IF @.heard = "none" THEN Idle ELSE [@ EXCEPT !.pc = "answered", !.reply = "report", !.saved = saved]]
Answer(r, code) ==
  request' = [request EXCEPT ![r] =
    IF @.heard = "none" THEN Idle ELSE [@ EXCEPT !.pc = "answered", !.reply = code]]

\* The plan must be of the published bank.
IsStale(r) == request[r].session.revision # bank

\* Without a cookie the request gets a device of its own.
Device(r) == IF request[r].device = 0 THEN made.devices + 1 ELSE request[r].device

\* Mutant: a key whose turn is over is admitted again.
AdmitUnlessRunning(r) ==
  LET device == Device(r)
      p == <<device, Key(r)>>
  IN /\ At(r, "sent") /\ device \in Principals
     /\ \/ (IsStale(r) \/ turn[p] \in Slots \cup {"dispatched"}) /\ Answer(r, "terminal") /\ UNCHANGED <<turn, made>>
        \/ /\ ~ IsStale(r) /\ turn[p] \in {"free", "settled"}
           /\ turn' = [turn EXCEPT ![p] = r]
           /\ made' = [made EXCEPT !.devices = IF device > @ THEN device ELSE @]
           /\ \/ request' = [request EXCEPT ![r].pc = "mark", ![r].device = device,
                                             ![r].minted = (request[r].device = 0)]
              \/ Answer(r, "other")
        \/ Answer(r, "other") /\ UNCHANGED <<turn, made>>
     /\ Server /\ UNCHANGED <<cloud, paid>>

\* A turn of this request is not repeatable; a full quota takes none; an answer
\* may be lost.
Admit(r) ==
  LET device == Device(r)
      p == <<device, Key(r)>>
  IN /\ At(r, "sent") /\ device \in Principals
     /\ \/ (IsStale(r) \/ turn[p] # "free") /\ Answer(r, "terminal") /\ UNCHANGED <<turn, made>>
        \/ /\ ~ IsStale(r) /\ turn[p] = "free"
           /\ turn' = [turn EXCEPT ![p] = r]
           /\ made' = [made EXCEPT !.devices = IF device > @ THEN device ELSE @]
           /\ \/ request' = [request EXCEPT ![r].pc = "mark", ![r].device = device,
                                             ![r].minted = (request[r].device = 0)]
              \/ Answer(r, "other")
        \/ Answer(r, "other") /\ UNCHANGED <<turn, made>>
     /\ Server /\ UNCHANGED <<cloud, paid>>

\* releasePublicAiAdmission: of the own turn before it is dispatched; may fail.
GivesBack(r) ==
  turn' \in {turn, IF turn[Turn(r)] = r THEN [turn EXCEPT ![Turn(r)] = "free"] ELSE turn}

\* The site's budget, then the marker; either may refuse or not be heard of.
Mark(r) ==
  /\ At(r, "mark")
  /\ \/ /\ turn[Turn(r)] = r /\ turn' = [turn EXCEPT ![Turn(r)] = "dispatched"]
        /\ (Go(r, "ask") \/ Answer(r, "ai_failed"))
     \/ GivesBack(r) /\ (Answer(r, "other") \/ Answer(r, "ai_failed"))
  /\ Server /\ UNCHANGED <<cloud, paid, made>>

\* complete_public_ai_quota or mark_public_ai_quota_outcome_unknown, which may fail.
Settles(r) == turn' \in {turn, [turn EXCEPT ![Turn(r)] = "settled"]}

\* A report, one that cannot be used, no certain outcome, or a certain failure.
Ask(r) ==
  /\ At(r, "ask")
  /\ \/ /\ paid' = [paid EXCEPT ![Turn(r)] = @ + 1] /\ Settles(r)
        /\ \/ Go(r, "record") \/ Answer(r, "terminal")
     \/ UNCHANGED paid /\ Answer(r, "ai_failed") /\ GivesBack(r)
  /\ Server /\ UNCHANGED <<cloud, made>>

Attempt(r, status) == [session |-> request[r].session.id, key |-> Key(r), status |-> status]
Recorded(r) == {a \in cloud : a.session = request[r].session.id}

\* Mutant: any completed attempt of the session will do.
RecordBySession(r) ==
  /\ At(r, "record")
  /\ \/ UNCHANGED cloud /\ Report(r, \E a \in Recorded(r) : a.status = "completed")
     \/ /\ ~ Guest /\ Recorded(r) = {}
        /\ \E status \in {"open", "completed"} :
             /\ cloud' = cloud \cup {Attempt(r, status)}
             /\ Report(r, FALSE) \/ (status = "completed" /\ Report(r, TRUE))
  /\ Server /\ UNCHANGED <<turn, paid, made>>

\* persistCloudHistory, of an account: reserve, mark and complete, any of which
\* may fail; a session has one attempt, and one of another key is a conflict (for
\* a week, if it was left open).
Record(r) ==
  /\ At(r, "record")
  /\ \/ UNCHANGED cloud /\ Report(r, Attempt(r, "completed") \in cloud)
     \/ UNCHANGED cloud /\ Report(r, FALSE)
     \/ /\ ~ Guest /\ Recorded(r) = {}
        /\ \E status \in {"open", "completed"} :
             /\ cloud' = cloud \cup {Attempt(r, status)}
             /\ Report(r, FALSE) \/ (status = "completed" /\ Report(r, TRUE))
  /\ Server /\ UNCHANGED <<turn, paid, made>>

\* The function dies, perhaps while its provider answers, or the answer is lost.
Break(r) ==
  /\ request[r].pc # "idle" /\ ~ (At(r, "answered") /\ request[r].reply = "other" /\ ~ request[r].minted)
  /\ request' = [request EXCEPT ![r] =
       IF @.heard = "none" THEN Idle
       ELSE [@ EXCEPT !.pc = "answered", !.reply = "other", !.minted = FALSE]]
  /\ paid' = IF At(r, "ask") THEN [paid EXCEPT ![Turn(r)] = @ + 1] ELSE paid
  /\ Server /\ UNCHANGED <<turn, cloud, made>>

\* An undispatched turn's lease ends; the bank is published again.
Expire ==
  /\ \E p \in TurnIds : turn[p] \in Slots /\ turn' = [turn EXCEPT ![p] = "free"]
  /\ UNCHANGED <<stored, history, tab, request, cookie, cloud, bank, paid, made>>

Publish ==
  /\ bank < MaxRevision /\ bank' = bank + 1
  /\ UNCHANGED <<stored, history, tab, request, cookie, turn, cloud, paid, made>>

Next ==
  \/ \E t \in Tabs :
       \/ Open(t) \/ Leave(t) \/ Start(t) \/ Write(t) \/ Submit(t) \/ Retry(t) \/ EditAgain(t) \/ Reset(t)
  \/ \E r \in Slots :
       \/ Hear(r) \/ Admit(r) \/ Mark(r) \/ Ask(r) \/ Record(r) \/ Break(r)
  \/ Expire \/ Publish

Spec == Init /\ [][Next]_vars

------------------------------------------------------------------------------
(* Properties.                                                             *)

\* However often a submission is sent, by a page that was loaded again or by two
\* tabs, and whatever of it was lost, a principal is graded for money once.  (A
\* guest that never heard its cookie is another principal each time.)
GradedOnce == \A p \in DOMAIN paid : paid[p] <= 1

\* A report on a page is what is left of the session, of which a tab may write
\* another copy at any time: the local history has it, once, as long as the
\* history is not full.
ShownIsKept ==
  \A t \in DOMAIN tab :
    LET session == tab[t].session
        Listed == {i \in DOMAIN history : history[i].session = session.id}
    IN session.status = "completed" => (\E i \in DOMAIN history : Listed = {i}) \/ Len(history) = Kept

\* A page that says the report was saved to the cloud shows the one saved there
\* (which its owner does not delete here).
SavedIsThere ==
  \A t \in DOMAIN tab : tab[t].saved =>
    [session |-> tab[t].session.id, key |-> tab[t].session.report, status |-> "completed"] \in cloud
==============================================================================
