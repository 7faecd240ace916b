------------------------------- MODULE MCQueues -------------------------------
(* Small instances of the Parts, of which one, chosen at the start, runs while *)
(* the tables of the others are empty.                                        *)
EXTENDS Parts, TLC

CONSTANTS t1, t2, t3, q1, q2, h1, h2, l1, l2, l3

VARIABLE instance

runVars      == <<execution, runner, shown, clock>>
cardVars     == <<candidate, maker, taught, cards, bought, revisions>>
jobVars      == <<job, worker, lesson, drafted, paid, agreed, syncs, retries>>
repairVars   == <<review, seen, items, version, known, jobs, rated, failed>>
sprintVars   == <<sprint, started, reviewed, gone, copy, noted, answering, writes>>
trainingVars == <<documents, account, saving, opened, ticks, kept>>
missionVars  == <<plans, firstPlan, page, asking, evidence>>
panelVars    == <<card, saved, current, token, gen, loading, sent, count, rating>>

all == <<instance, vars, runVars, cardVars, jobVars, repairVars, sprintVars, trainingVars,
         missionVars, panelVars>>

MCElsewhere == [q \in {q1} |-> "hard"]
MCPlan == <<q1, q2>>
MCHome == [t \in {t1, t2} |-> t]

\* The constants are those of a follow-up with three handlers, for one question;
\* of three handlers of the cards of two sources; of one worker and a source that
\* is replaced; of two tabs that repair a question another device rated hard; of
\* two tabs and two sprints; of two devices of a tab each; of a plan they share;
\* of three requests about three drafts.  The others differ:

\* Three handlers of a lesson, for two questions.
Lesson == INSTANCE AssistantLease WITH Prints <- {"p1", "p2"}, Fallback <- FALSE

\* Two requests under two keys, of two codes.
TwoRuns == INSTANCE CodeExecution WITH
  Handlers <- {h1, h2}, row <- execution, handler <- runner

\* Two workers and two versions.
TwoWorkers == INSTANCE GenerationJobs WITH
  Workers <- {"w1", "w2"}, Sources <- {"s1"}, Versions <- {"v1", "v2"}, MaxSyncs <- 0

\* One tab repairs a question that is edited.
RepairEdited == INSTANCE RecallRepair WITH Tabs <- {t3}, MaxVersion <- 2, MaxSeen <- 3

\* One tab and a question of its sprint that changes.
SprintEdited == INSTANCE FocusSession WITH
  Tabs <- {t3}, MaxGone <- 1, stored <- sprint, known <- noted, rating <- answering

\* Two tabs of one device.
OneBrowser == INSTANCE TrainingState WITH
  Devices <- {"d"}, Home <- [t \in {t1, t2} |-> "d"], MaxTime <- 2,
  stored <- documents, cloud <- account, sync <- saving, clock <- ticks

\* Two questions, two requests and two drafts.
TwoCards == INSTANCE CoachPanel WITH
  Questions <- {q1, q2}, Drafts <- {"blank", "a"}, MaxRequests <- 2, MaxGen <- 2

\* What the proofs assume of the parts' constants.
ASSUME PartsAssumption ==
  /\ Repair!RepairAssumption /\ RepairEdited!RepairAssumption
  /\ Sprint!SprintAssumption /\ SprintEdited!SprintAssumption
  /\ TwoRuns!RunAssumption
  /\ Queue!JobsAssumption /\ TwoWorkers!JobsAssumption
  /\ Panel!PanelAssumption /\ TwoCards!PanelAssumption
  /\ Training!TrainingAssumption /\ OneBrowser!TrainingAssumption

Leases    == {"follow-up", "lesson"}
Queues    == {"two workers", "revised"}
Repairs   == {"two tabs repair", "repair, edited"}
Sprints   == {"two tabs sprint", "sprint, edited"}
Trainings == {"two browsers", "one browser"}
Panels    == {"one card", "two cards"}

\* The tables of a part that does not run.
NoRuns     == execution = 0 /\ runner = <<>> /\ shown = <<>> /\ clock = 0
NoCards    == candidate = 0 /\ maker = 0 /\ taught = 0 /\ cards = 0 /\ bought = {} /\ revisions = 0
NoJobs     == /\ job = 0 /\ worker = 0 /\ lesson = 0 /\ drafted = 0 /\ paid = <<>> /\ agreed = 0
              /\ syncs = 0 /\ retries = 0
NoRepair   == /\ review = 0 /\ seen = 0 /\ items = 0 /\ version = 0 /\ known = 0 /\ jobs = 0
              /\ rated = 0 /\ failed = 0
NoSprint   == /\ sprint = None /\ started = 0 /\ reviewed = 0 /\ gone = 0 /\ copy = 0 /\ noted = 0
              /\ answering = 0 /\ writes = 0
NoTraining == /\ documents = 0 /\ account = [doc |-> [attempts |-> {}, exposures |-> {}]]
              /\ saving = 0 /\ opened = 0 /\ ticks = 0 /\ kept = <<>>
NoMission  == plans = 0 /\ firstPlan = 0 /\ page = 0 /\ asking = 0 /\ evidence = 0
NoPanel    == /\ card = <<>> /\ saved = 0 /\ current = 0 /\ token = 0 /\ gen = 0 /\ loading = 0
              /\ sent = 0 /\ count = 0 /\ rating = 0

MCInit ==
  /\ instance \in Leases \cup Queues \cup Repairs \cup Sprints \cup Trainings \cup Panels
                  \cup {"runs", "cards", "mission"}
  /\ IF instance = "lesson" THEN Lesson!Init ELSE Init
  /\ IF instance = "runs" THEN TwoRuns!Init ELSE NoRuns
  /\ IF instance = "cards" THEN Cards!Init ELSE NoCards
  /\ CASE instance = "two workers" -> TwoWorkers!Init
       [] instance = "revised" -> Queue!Init
       [] OTHER -> NoJobs
  /\ CASE instance = "two tabs repair" -> Repair!Init
       [] instance = "repair, edited" -> RepairEdited!Init
       [] OTHER -> NoRepair
  /\ CASE instance = "two tabs sprint" -> Sprint!Init
       [] instance = "sprint, edited" -> SprintEdited!Init
       [] OTHER -> NoSprint
  /\ CASE instance = "two browsers" -> Training!Init
       [] instance = "one browser" -> OneBrowser!Init
       [] OTHER -> NoTraining
  /\ IF instance = "mission" THEN Mission!Init ELSE NoMission
  /\ CASE instance = "one card" -> Panel!Init
       [] instance = "two cards" -> TwoCards!Init
       [] OTHER -> NoPanel

MCNext ==
  /\ UNCHANGED instance
  /\ instance \notin Leases => UNCHANGED vars
  /\ instance # "runs" => UNCHANGED runVars
  /\ instance # "cards" => UNCHANGED cardVars
  /\ instance \notin Queues => UNCHANGED jobVars
  /\ instance \notin Repairs => UNCHANGED repairVars
  /\ instance \notin Sprints => UNCHANGED sprintVars
  /\ instance \notin Trainings => UNCHANGED trainingVars
  /\ instance # "mission" => UNCHANGED missionVars
  /\ instance \notin Panels => UNCHANGED panelVars
  /\ \/ instance = "follow-up" /\ Next
     \/ instance = "lesson" /\ Lesson!Next
     \/ instance = "runs" /\ TwoRuns!Next
     \/ instance = "cards" /\ Cards!Next
     \/ instance = "two workers" /\ TwoWorkers!Next
     \/ instance = "revised" /\ Queue!Next
     \/ instance = "two tabs repair" /\ Repair!Next
     \/ instance = "repair, edited" /\ RepairEdited!Next
     \/ instance = "two tabs sprint" /\ Sprint!Next
     \/ instance = "sprint, edited" /\ SprintEdited!Next
     \/ instance = "two browsers" /\ Training!Next
     \/ instance = "one browser" /\ OneBrowser!Next
     \/ instance = "mission" /\ Mission!Next
     \/ instance = "one card" /\ Panel!Next
     \/ instance = "two cards" /\ TwoCards!Next

MCSpec == MCInit /\ [][MCNext]_all

AnyTabOrHandler == Permutations({t1, t2}) \cup Permutations({l1, l2, l3})
==============================================================================
