--------------------------- MODULE MCBudgetedCall ---------------------------
(* Chosen at the start: one call of an account on one day, with two attempts *)
(* of each RPC and a stale now(), under fairness; two calls with one attempt  *)
(* that share a budget one of them does not fill, on the same variables; or   *)
(* one coach evaluation through a rollout, under fairness.                    *)
EXTENDS BudgetedCall, TLC

CONSTANTS c1, c2, h1, Nobody

VARIABLES instance, rowsP, dailyP, monthlyP, clockP, answerP, pcP, tryP, wireP,
          markedP, providerP, usageP, outcomeP, shownP, forgivenP

MCDayOf   == [t \in 0..MaxTime |-> 0]
MCMonthOf == [d \in {0} |-> 0]
MCAsk     == [c \in Calls |-> 2]

Pair == INSTANCE BudgetedCall WITH
  LockWait <- 0, MaxTime <- 3, DayOf <- [t \in 0..3 |-> 0], Attempts <- 1

coachVars == <<rowsP, dailyP, clockP, monthlyP, answerP, pcP, markedP, tryP, wireP,
               usageP, providerP, outcomeP, shownP, forgivenP>>

Coach == INSTANCE CoachEvaluation WITH
  Handlers <- {h1}, Keys <- {"k0", "k1"}, Fingerprints <- {"vi", "vi0"},
  Identity <- [f \in {"vi", "vi0"} |-> "q"], Legacy <- {"vi0"},
  Requests <- {[key |-> "k1", fp |-> "vi"]},
  LegacyPair <- [r \in {[key |-> "k1", fp |-> "vi"]} |-> [key |-> "k0", fp |-> "vi0"]],
  OldAttempts <- {[slot |-> "none", id |-> "q", valid |-> TRUE], [slot |-> "k1", id |-> "q", valid |-> FALSE]},
  Unkeyed <- "none", Lease <- 1, LockWait <- 0, MaxTime <- 2, LastServe <- 1,
  Rollout <- TRUE, Deletions <- TRUE,
  rows <- rowsP, attempts <- dailyP, clock <- clockP, migrated <- monthlyP, req <- answerP,
  pc <- pcP, stage <- markedP, try <- tryP, wire <- wireP, reply <- usageP,
  provider <- providerP, response <- outcomeP, shown <- shownP, forgiven <- forgivenP

ASSUME CoachAssumption == Coach!CoachAssumption

NoCoach ==
  /\ rowsP = 0 /\ dailyP = 0 /\ monthlyP = 0 /\ clockP = 0 /\ answerP = 0 /\ pcP = 0 /\ tryP = 0
  /\ wireP = 0 /\ markedP = 0 /\ providerP = 0 /\ usageP = 0 /\ outcomeP = 0 /\ shownP = 0
  /\ forgivenP = 0

MCInit ==
  /\ Init
  /\ \/ instance \in {"alone", "pair"} /\ NoCoach
     \/ instance = "coach" /\ Coach!Init

MCNext ==
  /\ UNCHANGED instance
  /\ \/ instance = "alone" /\ Next /\ pc'[c2] = pc[c2] /\ UNCHANGED coachVars
     \/ instance = "pair" /\ Pair!Next /\ UNCHANGED coachVars
     \/ instance = "coach" /\ Coach!Next /\ UNCHANGED vars

\* The pair is checked for safety only.
MCSpec ==
  /\ MCInit /\ [][MCNext]_<<instance, vars, coachVars>>
  /\ WF_vars(instance = "alone" /\ Time) /\ WF_vars(instance = "alone" /\ Visit(clock))
  /\ WF_coachVars(instance = "coach" /\ Coach!Tick)
  /\ WF_coachVars(instance = "coach" /\ Coach!Migrate)
  /\ WF_coachVars(instance = "coach" /\ Coach!AskAgain(clockP))

\* A billed call is charged in the end (BudgetedCall).
BilledIsCharged == instance = "alone" => MaybePaidIsCharged

\* No reservation is held for ever (BudgetedCall).
EveryHoldEnds == instance = "alone" => HoldsEnd

\* A paid evaluation ends in a terminal row (CoachEvaluation).
PaidIsSettled ==
  (instance = "coach" /\ Coach!Billed(h1)) ~> (instance = "coach" /\ Coach!Settled(h1))
=============================================================================
