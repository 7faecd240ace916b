-------------------------------- MODULE Parts --------------------------------
(***************************************************************************)
(* Parts of the system that share no state, side by side: on the server the *)
(* leases of the assistants (AssistantLease, whose variables these are), the *)
(* sample runs, the mistake cards and the jobs that draft questions; in a  *)
(* browser the repairs, the sprint, the training evidence, the mission's   *)
(* plan and the coach's panel.  Each has its own tables or storage keys.   *)
(***************************************************************************)
EXTENDS AssistantLease, Integers, Sequences

CONSTANTS
  Codes, Lease, Duration, Day, Limit, MaxTime,                    \* runs
  Sources, MaxTries, MaxRevisions,                                \* cards; sources of jobs too
  Workers, Versions, MaxAttempts, MaxSyncs, MaxRetries, MaxCalls, \* jobs
  Tabs, Devices, Questions,                                       \* browsers
  Elsewhere, MaxVersion, MaxSeen, MaxJobs,                        \* repairs
  Plan, MaxStarts, MaxGone, MaxWrites,                            \* sprint
  Home, Retest,                                                   \* training
  MaxEvidence,                                                    \* mission
  Drafts, Blank, MaxRequests, MaxGen                              \* panel

VARIABLES
  execution, runner, shown, clock,                                \* runs
  candidate, maker, taught, cards, bought, revisions,             \* cards
  job, worker, lesson, drafted, paid, agreed, syncs, retries,     \* jobs
  review, seen, items, version, known, jobs, rated, failed,       \* repairs
  sprint, started, reviewed, gone, copy, noted, answering, writes, \* sprint
  documents, account, saving, opened, ticks, kept,                \* training
  plans, firstPlan, page, asking, evidence,                       \* mission
  card, saved, current, token, gen, loading, sent, count, rating  \* panel

Runs == INSTANCE CodeExecution WITH row <- execution, handler <- runner
Cards == INSTANCE MistakeCards WITH
  row <- candidate, handler <- maker, lesson <- taught, paid <- bought
Queue == INSTANCE GenerationJobs
Repair == INSTANCE RecallRepair
Sprint == INSTANCE FocusSession WITH
  stored <- sprint, known <- noted, rating <- answering
Training == INSTANCE TrainingState WITH
  stored <- documents, cloud <- account, sync <- saving, clock <- ticks
Mission == INSTANCE MissionSnapshot WITH
  stored <- plans, cloud <- firstPlan, sync <- asking
Panel == INSTANCE CoachPanel

------------------------------------------------------------------------------
(* What each part keeps, whatever the others do; OnePaidAnswer and          *)
(* KeepsWhatItSaid are the assistants'.                                     *)

\* An account executes one run at a time (CodeExecution).
OneExecution == Runs!OneExecution

\* A response shows the result recorded for its code (CodeExecution).
ShownIsRecorded == Runs!ShownIsRecorded

\* A mistake's card is paid for and made once (MistakeCards).
CardPaidOnce == Cards!CardPaidOnce

\* A source is paid again only with an agreement (GenerationJobs).
PaidTwiceIsAgreed == Queue!PaidTwiceIsAgreed

\* A failed question stays in the repair queue, or marked for it (RecallRepair).
FailedIsRepaired == Repair!FailedIsRepaired

\* No tab takes a sprint back (FocusSession).
SprintOnlyAdvances == Sprint!SprintOnlyAdvances

\* An attempt saved while no tab syncs stays on its device (TrainingState).
SavedStays == Training!SavedStays

\* The cloud keeps the evidence, and the first plan, that it took
\* (TrainingState, MissionSnapshot).
CloudKeeps == [][Training!Grows /\ Mission!PlanStays]_<<account, firstPlan>>

\* The coach's words are shown beside the draft they are about (CoachPanel).
ShownIsOfDraft == Panel!ShownIsOfDraft
==============================================================================
