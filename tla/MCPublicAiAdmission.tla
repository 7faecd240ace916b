------------------------ MODULE MCPublicAiAdmission ------------------------
(* The turns of the public, and an interview that takes one: an instance of  *)
(* either is chosen at the start; the tables of the turns stay as they began *)
(* while an interview runs.                                                  *)
(*                                                                           *)
(* Two devices behind one ip.  A device is the principal of its turns; one   *)
(* asks for a text from two tabs with two keys, or for three texts.          *)
EXTENDS PublicInterview, TLC

CONSTANTS b1, b2, f1, f2

VARIABLE instance

all == <<instance, vars, interviewVars>>

MCSubjects == {"ip", "d1", "d2"}
Of(device, k, f) == [principal |-> device, subjects |-> {device, "ip"}, key |-> k, fp |-> f]

TwoKeys   == {Of("d1", "k1", "f"), Of("d1", "k2", "f"), Of("d2", "k1", "f")}
OneDevice == {Of("d1", "k1", "f"), Of("d1", "k2", "g"), Of("d1", "k3", "h")}

\* Midnight comes with every tick, all in one month.
MCBuckets == {"d0", "d1", "d2", "month"}
MCBucketsOf ==
  [t \in 0..MaxTime |-> {CASE t < 1 -> "d0" [] t = 1 -> "d1" [] OTHER -> "d2", "month"}]
MCLimitOf == [b \in MCBuckets |-> IF b = "month" THEN 5 ELSE 3]

\* The interview's constants are those of two browser tabs of an account that
\* submit again.  Also two fetches of one submission, and a bank published
\* meanwhile; a new guest, that loses its cookie; one that holds two interviews.
SentTwice == INSTANCE GeneralInterview WITH
  Slots <- {f1, f2}, MaxKeys <- 1, MaxRevision <- 2

NewGuest == INSTANCE GeneralInterview WITH
  Guest <- TRUE, MaxKeys <- 1, MaxDevices <- 2

TwoInterviews == INSTANCE GeneralInterview WITH
  Guest <- TRUE, MaxSessions <- 2

\* What the proofs assume of the interview's constants.
ASSUME SlotsAssumption ==
  /\ General!InterviewAssumption /\ SentTwice!InterviewAssumption
  /\ NewGuest!InterviewAssumption /\ TwoInterviews!InterviewAssumption

\* No page and no turn.
NoInterview ==
  /\ stored = 0 /\ history = 0 /\ tab = <<>> /\ request = 0 /\ cookie = 0 /\ turn = 0
  /\ cloud = 0 /\ bank = 0 /\ paid = <<>> /\ made = 0

InitOfTurns == instance = "turns" /\ Init /\ NoInterview
NextOfTurns == instance = "turns" /\ Next /\ UNCHANGED interviewVars

MCInit ==
  \/ InitOfTurns
  \/ /\ Init
     /\ \/ instance = "interview" /\ General!Init
        \/ instance = "sent twice" /\ SentTwice!Init
        \/ instance = "new guest" /\ NewGuest!Init
        \/ instance = "two interviews" /\ TwoInterviews!Init

MCNext ==
  /\ UNCHANGED instance
  /\ \/ NextOfTurns
     \/ /\ UNCHANGED vars
        /\ \/ instance = "interview" /\ General!Next
           \/ instance = "sent twice" /\ SentTwice!Next
           \/ instance = "new guest" /\ NewGuest!Next
           \/ instance = "two interviews" /\ TwoInterviews!Next

MCSpec == MCInit /\ [][MCNext]_all

SpecOfTurns == InitOfTurns /\ [][UNCHANGED instance /\ NextOfTurns]_all

AnyTurn == Permutations(Turns) \cup Permutations({b1, b2}) \cup Permutations({f1, f2})

==============================================================================
