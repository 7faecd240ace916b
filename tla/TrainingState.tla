---------------------------- MODULE TrainingState ----------------------------
(* The WorldQuant evidence of one account: the document each device keeps   *)
(* in local storage, its cloud copy, and the syncs of the tabs between      *)
(* them. One competency of one role, with its practice drill and its        *)
(* checkpoint; `at` is the time that names an exposure or an attempt.       *)
EXTENDS Naturals, FiniteSets

CONSTANTS Tabs, Devices, Home, None, Retest, MaxTime

VARIABLES
  stored,   \* device -> its document
  cloud,    \* [doc, revision]: worldquant_training_states
  sync,     \* tab -> the sync it runs
  opened,   \* tab -> the checkpoint on its screen
  clock,
  kept      \* device -> attempts recorded while none of its tabs was syncing

vars == <<stored, cloud, sync, opened, clock, kept>>

\* A tab is of one device.
TrainingAssumption == Home \in [Tabs -> Devices]

------------------------------------------------------------------------------
(* Documents                                                                *)

NoDoc == [attempts |-> {}, exposures |-> {}, gap |-> None]

Latest(S) == CHOOSE x \in S : \A y \in S : y.at <= x.at

\* `at` for the gap's updatedAt; equal times are of equal gaps.
MergedGap(g, h) ==
  IF g = None THEN h ELSE IF h = None \/ h.at <= g.at THEN g ELSE h

\* The exposure an attempt started from, if the document still has it.
Eligible(d, start) ==
  \E x \in d.exposures :
    /\ x.at = start.at
    /\ \/ x.kind = "unseen" /\ start.unseen
       \/ x.kind = "spaced_retest" /\ ~start.unseen

\* The status that the document's evidence bears out.
ReconciledGap(d, g) ==
  LET practised == \E a \in d.attempts : a.at = g.practice /\ a.variant = "practice" /\ a.outcome # "failed"
      confirmed == \E a \in d.attempts : a.at = g.verification /\ a.variant = "checkpoint"
                                         /\ a.outcome = "passed" /\ Eligible(d, a.start)
      borne == IF g.status = "verified" /\ ~confirmed THEN "transfer_ready" ELSE g.status IN
  [g EXCEPT !.practice = IF practised THEN @ ELSE 0,
            !.status = IF borne \in {"transfer_ready", "verified"} /\ ~practised THEN "learning" ELSE borne,
            !.verification = IF practised /\ confirmed THEN @ ELSE 0]

Reconciled(d) == [d EXCEPT !.gap = IF @ = None THEN None ELSE ReconciledGap(d, @)]

Merge(d, e) ==
  Reconciled([attempts  |-> d.attempts \cup e.attempts,
              exposures |-> d.exposures \cup e.exposures,
              gap       |-> MergedGap(d.gap, e.gap)])

\* The kind of an opening: only the first is unseen, a late one is a retest.
Kind(d, now) ==
  IF d.exposures = {} THEN "unseen"
  ELSE IF now - Latest(d.exposures).at >= Retest THEN "spaced_retest"
  ELSE "repeat"

Exposed(d, now) ==
  [d EXCEPT !.exposures = @ \cup {[at |-> now, kind |-> Kind(d, now)]}]

StatusAfter(status, variant, outcome, eligible) ==
  IF status = "verified" /\ outcome # "failed" THEN "verified"
  ELSE IF variant = "checkpoint" /\ outcome = "passed" /\ eligible /\ status = "transfer_ready"
    THEN "verified"
  ELSE IF variant = "practice" /\ outcome # "failed" THEN "transfer_ready"
  ELSE "learning"

Attempt(now, variant, outcome, start) ==
  [at |-> now, variant |-> variant, outcome |-> outcome, start |-> start]

NewGap(now, variant, outcome) ==
  IF variant = "checkpoint" /\ outcome # "failed" THEN None
  ELSE [at |-> now,
        status |-> IF outcome = "failed" THEN "learning" ELSE "transfer_ready",
        practice |-> IF variant = "practice" THEN now ELSE 0,
        verification |-> 0]

GapAfter(g, status, now, variant) ==
  [at |-> now, status |-> status,
   practice |-> IF variant = "practice" THEN now ELSE g.practice,
   verification |-> IF status # "verified" THEN 0
                    ELSE IF g.status = "verified" THEN g.verification ELSE now]

Completed(d, a) ==
  [d EXCEPT !.attempts = @ \cup {a},
            !.gap = IF @ = None THEN NewGap(a.at, a.variant, a.outcome)
                    ELSE GapAfter(@, StatusAfter(@.status, a.variant, a.outcome, Eligible(d, a.start)),
                                  a.at, a.variant)]

------------------------------------------------------------------------------
(* Syncs                                                                    *)

NoSync == [phase |-> "idle", doc |-> NoDoc, revision |-> 0, again |-> FALSE]

Syncing(d) == \E t \in Tabs : Home[t] = d /\ sync[t].phase # "idle"

\* A sync reads the local document as it starts.
Started(doc) == [phase |-> "reads", doc |-> doc, revision |-> 0, again |-> FALSE]

\* A call while one is running waits for it and starts the next.
Triggered(t, doc) == IF sync[t].phase = "idle" THEN Started(doc) ELSE [sync[t] EXCEPT !.again = TRUE]

Ended(t, doc) == IF sync[t].again THEN Started(doc) ELSE NoSync

\* Mutant: what the device had is dropped.
RetriedTheirs(mine, theirs) == theirs

\* What a refused sync sends again.
Retried(mine, theirs) == Merge(mine, theirs)

\* What a sync leaves in local storage: its own result, as it is.
Persisted(local, doc) == doc

Write(t, doc) ==
  LET merged == Merge(stored[Home[t]], doc) IN
  /\ stored' = [stored EXCEPT ![Home[t]] = merged]
  /\ sync' = [sync EXCEPT ![t] = Triggered(t, merged)]

Ends(t, doc) ==
  /\ stored' = [stored EXCEPT ![Home[t]] = doc]
  /\ sync' = [sync EXCEPT ![t] = Ended(t, doc)]

Opens(t) ==
  /\ sync' = [sync EXCEPT ![t] = Triggered(t, stored[Home[t]])]
  /\ UNCHANGED <<stored, cloud, opened, clock, kept>>

Put(doc, revision, try) == [phase |-> try, doc |-> doc, revision |-> revision, again |-> FALSE]

Reads(t) ==
  LET merged == Merge(sync[t].doc, cloud.doc)
      local  == stored[Home[t]] IN
  /\ sync[t].phase = "reads"
  /\ IF cloud.revision > 0 /\ cloud.doc = merged THEN Ends(t, Persisted(local, merged))
     ELSE IF cloud.revision = 0 /\ merged = NoDoc THEN Ends(t, local)
     ELSE /\ sync' = [sync EXCEPT ![t] = [Put(merged, cloud.revision, "puts") EXCEPT !.again = sync[t].again]]
          /\ UNCHANGED stored
  /\ UNCHANGED <<cloud, opened, clock, kept>>

\* Mutant: the revision is not compared.
MaySaveAny(revision) == TRUE

\* save_worldquant_training_state
MaySave(revision) == cloud.revision = revision

Saves(t) ==
  LET mine == sync[t] IN
  /\ mine.phase \in {"puts", "puts again"}
  /\ IF MaySave(mine.revision)
     THEN /\ cloud' = [doc |-> mine.doc, revision |-> cloud.revision + 1]
          /\ sync' = [sync EXCEPT ![t].phase = "saved"]
     ELSE /\ sync' = [sync EXCEPT ![t] =
               IF mine.phase = "puts"
               THEN [Put(Retried(mine.doc, cloud.doc), cloud.revision, "puts again") EXCEPT !.again = mine.again]
               ELSE [mine EXCEPT !.doc = Merge(mine.doc, cloud.doc), !.phase = "saved"]]
          /\ UNCHANGED cloud
  /\ UNCHANGED <<stored, opened, clock, kept>>

Saved(t) ==
  /\ sync[t].phase = "saved"
  /\ Ends(t, Persisted(stored[Home[t]], sync[t].doc))
  /\ UNCHANGED <<cloud, opened, clock, kept>>

\* An answer is lost: the sync gives up.
Lost(t) ==
  /\ sync[t].phase # "idle"
  /\ Ends(t, stored[Home[t]])
  /\ UNCHANGED <<cloud, opened, clock, kept>>

Reload(t) ==
  /\ sync' = [sync EXCEPT ![t] = Started(stored[Home[t]])]
  /\ opened' = [opened EXCEPT ![t] = None]
  /\ UNCHANGED <<stored, cloud, clock, kept>>

------------------------------------------------------------------------------
(* Drills                                                                   *)

Tick == clock < MaxTime /\ clock' = clock + 1

Record(t, a) ==
  LET d == Home[t] IN
  /\ Write(t, Completed(stored[d], a))
  /\ kept' = [kept EXCEPT ![d] = IF Syncing(d) THEN @ ELSE @ \cup {a}]

Unlocked(d) == d.gap # None /\ d.gap.status \in {"transfer_ready", "verified"}

OpenScenario(t) ==
  LET local == stored[Home[t]] IN
  /\ opened[t] = None /\ Unlocked(local) /\ Tick
  /\ Write(t, Exposed(local, clock'))
  /\ opened' = [opened EXCEPT ![t] = [at |-> clock', unseen |-> Kind(local, clock') = "unseen"]]
  /\ UNCHANGED <<cloud, kept>>

FinishPractice(t, outcome) ==
  /\ opened[t] = None /\ Tick
  /\ Record(t, Attempt(clock', "practice", outcome, [at |-> 0, unseen |-> FALSE]))
  /\ UNCHANGED <<cloud, opened>>

FinishCheckpoint(t, outcome) ==
  /\ opened[t] # None /\ Tick
  /\ Record(t, Attempt(clock', "checkpoint", outcome, opened[t]))
  /\ opened' = [opened EXCEPT ![t] = None]
  /\ UNCHANGED cloud

\* A weak report of the mock interview opens the gap, unless it is older.
OpenGapFromMock(t) ==
  LET local == stored[Home[t]] IN
  /\ Tick
  /\ Write(t, [local EXCEPT !.gap = [at |-> clock', status |-> "open", practice |-> 0, verification |-> 0]])
  /\ UNCHANGED <<cloud, opened, kept>>

Init ==
  /\ stored = [d \in Devices |-> NoDoc]
  /\ cloud = [doc |-> NoDoc, revision |-> 0]
  /\ sync = [t \in Tabs |-> NoSync]
  /\ opened = [t \in Tabs |-> None]
  /\ clock = 0
  /\ kept = [d \in Devices |-> {}]

Next ==
  \E t \in Tabs :
    \/ Opens(t) \/ Reads(t) \/ Saves(t) \/ Saved(t) \/ Lost(t) \/ Reload(t)
    \/ OpenScenario(t) \/ OpenGapFromMock(t)
    \/ \E o \in {"passed", "failed"} : FinishPractice(t, o)
    \/ \E o \in {"passed", "hinted", "failed"} : FinishCheckpoint(t, o)

Spec == Init /\ [][Next]_vars

------------------------------------------------------------------------------
(* Properties                                                               *)

\* The cloud never loses evidence that it has taken, whatever devices write
\* over it: save_worldquant_training_state refuses a revision that is not its
\* own, and a refused sync merges before it tries again.
Grows ==
  /\ cloud.doc.attempts \subseteq cloud'.doc.attempts
  /\ cloud.doc.exposures \subseteq cloud'.doc.exposures
CloudKeeps == [][Grows]_vars

\* An attempt recorded while no tab of its browser is syncing stays on the
\* device: a sync adds the cloud's evidence to the device's and takes none away.
SavedStays == \A d \in DOMAIN kept : kept[d] \subseteq stored[d].attempts

\* The browser is the first durable copy (20260801090000:1): an attempt that a
\* tab has saved stays in the device's document.
FirstDurableCopy ==
  [][\A d \in Devices : stored[d].attempts \subseteq stored'[d].attempts]_vars

==============================================================================
