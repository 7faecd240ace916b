--------------------------- MODULE MissionSnapshot ---------------------------
(* Today's WorldQuant mission of one account, role and length: the plan     *)
(* each device keeps in local storage, its cloud copy, and the open pages,  *)
(* which build a plan again when the stored one no longer fits the          *)
(* learner's evidence. A plan is the evidence it was built from.            *)
EXTENDS Naturals

CONSTANTS Devices, None, MaxEvidence

VARIABLES
  stored,    \* device -> the plan in local storage
  cloud,     \* worldquant_mission_snapshots: the plan, None before the first
  page,      \* device -> the evidence its page was rendered with, None if closed
  sync,      \* device -> the sync it runs
  evidence   \* the attempts on record, by number

vars == <<stored, cloud, page, sync, evidence>>

NoSync  == [phase |-> "idle", plan |-> None, again |-> FALSE]
Started == [phase |-> "reads", plan |-> None, again |-> FALSE]

\* A call while one is running waits for it and starts the next.
Triggered(d) == IF sync[d].phase = "idle" THEN Started ELSE [sync[d] EXCEPT !.again = TRUE]

Ended(d) == IF sync[d].again THEN Started ELSE NoSync

\* The stored plan can be rendered again.
Usable(d) == stored[d] # None /\ stored[d].of = page[d]

Learn == evidence < MaxEvidence /\ evidence' = evidence + 1 /\ UNCHANGED <<stored, cloud, page, sync>>

Load(d) ==
  /\ page[d] = None
  /\ page' = [page EXCEPT ![d] = evidence]
  /\ sync' = [sync EXCEPT ![d] = Started]
  /\ UNCHANGED <<stored, cloud, evidence>>

Close(d) ==
  /\ page[d] # None
  /\ page' = [page EXCEPT ![d] = None]
  /\ sync' = [sync EXCEPT ![d] = NoSync]
  /\ UNCHANGED <<stored, cloud, evidence>>

\* A page with no usable plan builds one and stores it.
Freeze(d) ==
  /\ page[d] # None /\ ~Usable(d)
  /\ stored' = [stored EXCEPT ![d] = [of |-> page[d], by |-> d]]
  /\ sync' = [sync EXCEPT ![d] = Triggered(d)]
  /\ UNCHANGED <<cloud, page, evidence>>

\* The cloud's plan replaces the device's; the device's goes up if there is none.
Reads(d) ==
  /\ sync[d].phase = "reads"
  /\ IF cloud # None
     THEN stored' = [stored EXCEPT ![d] = cloud] /\ sync' = [sync EXCEPT ![d] = Ended(d)]
     ELSE /\ sync' = [sync EXCEPT ![d] =
               IF stored[d] = None THEN Ended(d) ELSE [@ EXCEPT !.phase = "puts", !.plan = stored[d]]]
          /\ UNCHANGED stored
  /\ UNCHANGED <<cloud, page, evidence>>

\* save_worldquant_mission_snapshot, with the revision 0 of a missing row.
Saved(plan) == IF cloud = None THEN plan ELSE cloud

Saves(d) ==
  /\ sync[d].phase = "puts"
  /\ cloud' = Saved(sync[d].plan)
  /\ sync' = [sync EXCEPT ![d].phase = "saved", ![d].plan = cloud']
  /\ UNCHANGED <<stored, page, evidence>>

Hears(d) ==
  /\ sync[d].phase = "saved"
  /\ stored' = [stored EXCEPT ![d] = sync[d].plan]
  /\ sync' = [sync EXCEPT ![d] = Ended(d)]
  /\ UNCHANGED <<cloud, page, evidence>>

\* An answer is lost: the sync gives up.
Lost(d) ==
  /\ sync[d].phase # "idle"
  /\ sync' = [sync EXCEPT ![d] = Ended(d)]
  /\ UNCHANGED <<stored, cloud, page, evidence>>

Init ==
  /\ stored = [d \in Devices |-> None]
  /\ cloud = None
  /\ page = [d \in Devices |-> None]
  /\ sync = [d \in Devices |-> NoSync]
  /\ evidence = 0

Next ==
  \/ Learn
  \/ \E d \in Devices : Load(d) \/ Close(d) \/ Freeze(d) \/ Reads(d) \/ Saves(d) \/ Hears(d) \/ Lost(d)

Spec == Init /\ [][Next]_vars

\* An open page renders and its requests are served; nobody has to learn,
\* load or close, and no answer has to be lost.
FairSpec == Spec /\ \A d \in Devices : WF_vars(Freeze(d)) /\ WF_vars(Reads(d) \/ Saves(d) \/ Hears(d))

------------------------------------------------------------------------------
(* Properties                                                               *)

\* The account's first saved plan stays its cloud plan, whichever device
\* saves late (syncMissionSnapshot with save_worldquant_mission_snapshot).
PlanStays == cloud # None => cloud' = cloud

\* The plan is kept the same for the day (worldquant-mission-app.tsx:491): once
\* no page is opened or closed any more, the stored plans come to rest.
PlanSettles == <>[][page' = page]_vars => <>[][stored' = stored]_vars
==============================================================================
