------------------------------ MODULE CoachPanel ------------------------------
(***************************************************************************)
(* The coach's panel of one practice tab (practice-app.tsx, rescue-retry.ts *)
(* and study-session.ts): drafts, evaluations, follow-up chats and deep     *)
(* dives of the questions, the requests in flight, the rating of a question *)
(* and the copy that a reload restores.  An evaluation and a reply are      *)
(* named by the draft they are about; the coach answers one draft of a      *)
(* question always alike (its key is a hash of the request).                *)
(***************************************************************************)
EXTENDS Naturals, FiniteSets

CONSTANTS Questions, Drafts, Blank, None, MaxRequests, MaxGen \* bounds

VARIABLES
  card,     \* question -> draft, feedback, rescue, reveal, chat, deep
  saved,    \* the cards in storage
  current,  \* the question shown
  token,    \* question -> its evaluation request, or 0
  gen,      \* of the session
  loading,  \* the question whose chat waits, or None
  sent,     \* requests in flight
  count,    \* requests ever made
  rating    \* the question being rated and the session it belongs to, or None

vars == <<card, saved, current, token, gen, loading, sent, count, rating>>

\* A card begins with a draft.
PanelAssumption == Blank \in Drafts

Fresh == [draft |-> Blank, feedback |-> None, rescue |-> "none", reveal |-> FALSE,
          chat |-> {}, deep |-> None]

Init ==
  /\ card = [q \in Questions |-> Fresh] /\ saved = card /\ current \in Questions
  /\ token = [q \in Questions |-> 0] /\ gen = 0 /\ loading = None /\ sent = {} /\ count = 0
  /\ rating = None

------------------------------------------------------------------------------
(* Rescue and retry of a draft left blank.                                 *)

Begin(rescue) == IF rescue = "none" THEN "none" ELSE "retrying"
AfterCoach(rescue, draft, passes) ==
  CASE draft = Blank -> "rescue"
    [] draft # Blank /\ rescue = "none" -> "none"
    [] OTHER -> IF passes THEN "passed" ELSE "needs_repair"
Blocks(rescue) == rescue \in {"rescue", "retrying"}
CanRate(c) == (c.feedback # None \/ c.reveal) /\ ~Blocks(c.rescue)

Restored(c) ==
  [c EXCEPT !.rescue = IF c.rescue = "none"
      THEN IF c.feedback = Blank THEN "rescue" ELSE "none"
      ELSE IF c.feedback = None THEN "retrying" ELSE @]

------------------------------------------------------------------------------
(* Drafts and sessions.                                                    *)

Unevaluated(c) == [c EXCEPT !.feedback = None, !.chat = {}, !.deep = None]
Without(q) == IF loading = q THEN None ELSE loading

\* updateAnswer and updateCodeAnswer.
Edit(d) ==
  /\ gen < MaxGen /\ d # card[current].draft
  /\ gen' = gen + 1 /\ token' = [token EXCEPT ![current] = 0] /\ loading' = Without(current)
  /\ LET c == card[current] IN
     card' = [card EXCEPT ![current] = Unevaluated([c EXCEPT !.draft = d, !.rescue = Begin(c.rescue)])]
  /\ UNCHANGED <<saved, current, sent, count, rating>>

\* startRescueRetry, offered beside the outcome of a rescue.
Retry ==
  /\ gen < MaxGen /\ card[current].feedback # None
  /\ card[current].rescue \in {"rescue", "passed", "needs_repair"}
  /\ gen' = gen + 1 /\ token' = [token EXCEPT ![current] = 0] /\ loading' = Without(current)
  /\ LET c == card[current] IN
     card' = [card EXCEPT ![current] = Unevaluated([c EXCEPT !.draft = Blank, !.rescue = "retrying"])]
  /\ UNCHANGED <<saved, current, sent, count, rating>>

Reveal ==
  /\ ~card[current].reveal /\ card' = [card EXCEPT ![current].reveal = TRUE]
  /\ UNCHANGED <<saved, current, token, gen, loading, sent, count, rating>>

\* clearStudySessionState: every card but what was revealed of it.
Cleared == [q \in Questions |-> [Fresh EXCEPT !.reveal = card[q].reveal]]
Clears(cards) ==
  /\ gen < MaxGen /\ gen' = gen + 1
  /\ card' = cards /\ token' = [q \in Questions |-> 0] /\ loading' = None

\* A random, saved or custom question is opened.
Leave ==
  /\ Clears(Cleared) /\ current' \in Questions /\ UNCHANGED <<saved, sent, count, rating>>

\* The queue shows another question: a sync, another tab, a repair.
Drift ==
  /\ current' \in Questions \ {current}
  /\ UNCHANGED <<card, saved, token, gen, loading, sent, count, rating>>

\* rateCurrent, before and after it waits for storage.
Rate ==
  /\ rating = None /\ CanRate(card[current]) /\ rating' = [q |-> current, gen |-> gen]
  /\ UNCHANGED <<card, saved, current, token, gen, loading, sent, count>>
Rated ==
  /\ rating # None /\ rating' = None
  /\ \/ rating.gen = gen /\ Clears([Cleared EXCEPT ![rating.q].reveal = FALSE])
     \/ rating.gen # gen /\ UNCHANGED <<card, token, gen, loading>>
  /\ current' \in Questions /\ UNCHANGED <<saved, sent, count>>

\* The delayed save, and a page that is loaded again.
Save ==
  /\ saved # card /\ saved' = card
  /\ UNCHANGED <<card, current, token, gen, loading, sent, count, rating>>
Reload ==
  /\ gen < MaxGen /\ gen' = gen + 1
  /\ card' = [q \in Questions |-> Restored(saved[q])] /\ token' = [q \in Questions |-> 0]
  /\ loading' = None /\ sent' = {} /\ rating' = None /\ current' \in Questions
  /\ UNCHANGED <<saved, count>>

------------------------------------------------------------------------------
(* Requests.                                                               *)

Request(kind) ==
  [kind |-> kind, q |-> current, id |-> count + 1, gen |-> gen,
   about |-> IF kind = "coach" THEN card[current].draft ELSE card[current].feedback,
   rescue |-> card[current].rescue]
Send(kind) ==
  /\ count < MaxRequests /\ count' = count + 1 /\ sent' = sent \cup {Request(kind)}
  /\ UNCHANGED <<card, saved, current, gen, rating>>

AskCoach ==
  /\ token[current] = 0 /\ ~(card[current].rescue = "rescue" /\ card[current].feedback # None)
  /\ Send("coach") /\ token' = [token EXCEPT ![current] = count + 1] /\ UNCHANGED loading
AskFollowUp ==
  /\ card[current].feedback # None /\ loading # current
  /\ Send("chat") /\ loading' = current /\ UNCHANGED token
AskDeepDive ==
  /\ card[current].feedback # None /\ card[current].rescue # "rescue"
  /\ Send("deep") /\ UNCHANGED <<token, loading>>

\* Mutant: an evaluation is taken though its draft has gone.
CurrentByQuestion(r) == r.kind = "coach" \/ r.gen = gen

\* The request is still the one its question, or its session, waits for.
Current(r) == IF r.kind = "coach" THEN token[r.q] = r.id ELSE r.gen = gen

Shown(r, passes) ==
  CASE r.kind = "coach" ->
         [card EXCEPT ![r.q].feedback = r.about, ![r.q].rescue = AfterCoach(r.rescue, r.about, passes),
                      ![r.q].chat = {}, ![r.q].deep = None]
    [] r.kind = "chat" -> [card EXCEPT ![r.q].chat = @ \cup {r.about}]
    [] r.kind = "deep" -> [card EXCEPT ![r.q].deep = r.about]

\* A reply, or an error (which shows nothing of a card).
Receive(r) ==
  /\ sent' = sent \ {r}
  /\ \/ /\ Current(r)
        /\ card' = card \/ \E passes \in BOOLEAN : card' = Shown(r, passes)
        /\ token' = IF r.kind = "coach" THEN [token EXCEPT ![r.q] = 0] ELSE token
        /\ loading' = IF r.kind = "chat" THEN Without(r.q) ELSE loading
     \/ ~Current(r) /\ UNCHANGED <<card, token, loading>>
  /\ UNCHANGED <<saved, current, gen, count, rating>>

Next ==
  \/ \E d \in Drafts : Edit(d)
  \/ Retry \/ Reveal \/ Leave \/ Drift \/ Rate \/ Rated \/ Save \/ Reload
  \/ AskCoach \/ AskFollowUp \/ AskDeepDive
  \/ \E r \in sent : Receive(r)

Spec == Init /\ [][Next]_vars

------------------------------------------------------------------------------
(* Properties.                                                             *)

\* What is shown beside a draft is about that draft: its evaluation, and of
\* that evaluation the chat and the deep dive.
ShownIsOfDraft ==
  \A q \in DOMAIN card : LET c == card[q] IN
    /\ c.feedback # None => c.feedback = c.draft
    /\ \A m \in c.chat \cup {c.deep} : m # None => m = c.feedback
==============================================================================
