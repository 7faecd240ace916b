--------------------------- MODULE MCTrainingState ---------------------------
(* One tab of one browser.                                                  *)
EXTENDS TrainingState

OneDevice == [t \in Tabs |-> CHOOSE d \in Devices : TRUE]
==============================================================================
