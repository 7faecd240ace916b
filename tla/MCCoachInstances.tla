--------------------------- MODULE MCCoachInstances ---------------------------
(* Three instances of CoachEvaluation, one of them chosen at the start: two   *)
(* tabs with keys of their own, with stale now() and a handler of the         *)
(* previous application; two requests under one key beside attempts another   *)
(* instance saved; two texts under one reused key, with deletion.             *)
(* Fingerprint "vi" is a question's Vietnamese evaluation and "vi0" its legacy *)
(* form, of one identity "q"; "en" is its English one. Key "k0" goes with the  *)
(* legacy form. The instances share tables, handlers and identities, so the   *)
(* properties of CoachEvaluation are checked of all three.                    *)
EXTENDS CoachEvaluation, TLC

VARIABLE instance

Pairs(keys, fp) == {[key |-> k, fp |-> fp] : k \in keys}
LegacyOf(requests) == [r \in requests |-> [key |-> "k0", fp |-> "vi0"]]

MCIdentity   == [f \in {"vi", "vi0", "en"} |-> IF f = "en" THEN "qen" ELSE "q"]
MCRequests   == Pairs({"k1", "k2"}, "vi")
MCLegacyPair == LegacyOf(MCRequests)

\* The tables and their keys are the tabs', as is everything not named here.
Cache == INSTANCE CoachEvaluation WITH
  Requests <- Pairs({"k1"}, "vi"), LegacyPair <- LegacyOf(Pairs({"k1"}, "vi")),
  OldAttempts <- {[slot |-> "none", id |-> "q", valid |-> TRUE],
                  [slot |-> "k1", id |-> "qen", valid |-> TRUE]},
  LockWait <- 0, MaxTime <- 1, LastServe <- 1

Both == Pairs({"k1"}, "vi") \cup Pairs({"k1"}, "en")
TwoTexts == INSTANCE CoachEvaluation WITH
  Requests <- Both, LegacyPair <- [r \in Both |-> r],
  LockWait <- 0, MaxTime <- 1, LastServe <- 1, Deletions <- TRUE

MCInit ==
  \/ instance = "tabs" /\ Init
  \/ instance = "cache" /\ Cache!Init
  \/ instance = "texts" /\ TwoTexts!Init

MCNext ==
  /\ UNCHANGED instance
  /\ \/ instance = "tabs" /\ Next
     \/ instance = "cache" /\ Cache!Next
     \/ instance = "texts" /\ TwoTexts!Next

MCSpec == MCInit /\ [][MCNext]_<<instance, vars>>

AnyHandler == Permutations(Handlers)
================================================================================
