--------------------------- MODULE PublicInterview ---------------------------
(***************************************************************************)
(* The public interview (GeneralInterview) beside the turns it takes        *)
(* (PublicAiAdmission).  Of a turn it needs to know only where it stands,   *)
(* which it keeps in variables of its own.                                 *)
(***************************************************************************)
EXTENDS PublicAiAdmission, Sequences

CONSTANTS Tabs, None, Slots, Guest, MaxSessions, MaxKeys, MaxDevices, MaxRevision, Kept

VARIABLES stored, history, tab, request, cookie, turn, cloud, bank, paid, made

General == INSTANCE GeneralInterview

interviewVars == <<stored, history, tab, request, cookie, turn, cloud, bank, paid, made>>

\* A submission is graded for money once (GeneralInterview).
GradedOnce == General!GradedOnce

\* A report on a page is in the local history (GeneralInterview).
ShownIsKept == General!ShownIsKept

\* A report said to be saved is in the cloud (GeneralInterview).
SavedIsThere == General!SavedIsThere
==============================================================================
